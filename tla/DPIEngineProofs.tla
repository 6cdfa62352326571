--------------------------- MODULE DPIEngineProofs ---------------------------
(***************************************************************************)
(* What inspect promises for any number of goroutines that share the       *)
(* engine, for every list of rules and every mix of packets.  The argument *)
(* is that of the mutex of a record: a goroutine that runs the rules is    *)
(* alone on its record, and nothing that it has read there can change.     *)
(* The records of a flow follow each other in time, and a policy stays     *)
(* with the packet that it was made for and the rule that made it.  The    *)
(* last part is about the TLS records that the rules look into.            *)
(***************************************************************************)
EXTENDS DPIEngine, SequenceTheorems, WellFoundedInduction, TLAPS

Packets == UNION {Workloads[w].packets : w \in DOMAIN Workloads}
Rules == UNION {Workloads[w].ruleSet : w \in DOMAIN Workloads}
Directions == {ClientToServer, ServerToClient}
AnswersFor(d, p) == {Filter(r, d, p) : r \in Rules}
RuleAnswers(p) == {NoMatch} \cup UNION {AnswersFor(d, p) : d \in Directions}
AnswersTo(d) == UNION {AnswersFor(d, p) : p \in Packets}
Answers == {NoMatch} \cup UNION {AnswersTo(d) : d \in Directions}

FlowType ==
    [protocol : {p.protocol : p \in Packets},
     destIP : {p.dstIP : p \in Packets}, destPort : {p.dstPort : p \in Packets},
     sourceIP : {p.srcIP : p \in Packets}, sourcePort : {p.srcPort : p \in Packets},
     mu : BOOLEAN, numPackets : Nat, policy : Answers,
     updated : Nat, created : Nat, found : Nat, ran : Nat, trigger : Packets]

CallType == [pc : {"lock", "rules"}, flow : Nat \ {0}, packet : Packets, known : Nat]
LastType == [flow : Nat \ {0}, packet : Packets, known : Nat, answer : Answers, seen : Nat]

\* The values of the variables, and that every reference to a record is to one that
\* was made.
Typed ==
    /\ load \in DOMAIN Workloads /\ now \in Nat /\ calls \in Nat
    /\ rules \in Seq(Rules) /\ records \in Seq(FlowType)
    /\ flows \in [Hashes -> Nat]
    /\ call \in [Threads -> CallType \cup {Idle}]
    /\ last \in [Threads -> LastType \cup {Never}]
    /\ \A h \in Hashes : flows[h] <= Len(records)
    /\ \A t \in Threads : call[t] # Idle => /\ call[t].flow <= Len(records)
                                            /\ call[t].known <= Len(rules)
    /\ \A t \in Threads : last[t] # Never => /\ last[t].flow <= Len(records)
                                             /\ last[t].known <= Len(rules)

\* What a goroutine that runs the rules relies on: it holds the mutex of a record
\* that has no policy and was within its budget when it was locked.
Alone ==
    /\ \A t \in Threads :
         call[t].pc = "rules" =>
           LET flow == records[call[t].flow]
           IN  flow.mu /\ flow.policy = NoMatch
               /\ flow.ran < flow.numPackets /\ flow.numPackets < MaxPackets
    /\ \A t, u \in Threads :
         call[t].pc = "rules" /\ call[u].pc = "rules" /\ call[t].flow = call[u].flow => t = u

\* The rules ran at most once for each packet that was counted.
Budget == \A i \in 1..Len(records) :
            records[i].ran <= records[i].numPackets /\ records[i].ran < MaxPackets

\* RulesInForceApply of DPIEngine, for one goroutine.
Honest(t) ==
    /\ last[t] # Never
    /\ last[t].answer = NoMatch
    /\ last[t].seen < MaxPackets
    => \A i \in 1..last[t].known :
         Filter(rules[i], DirectionLocked(records[last[t].flow], last[t].packet),
                last[t].packet) = NoMatch

IInv == Typed /\ Alone /\ Budget /\ \A t \in Threads : Honest(t)

-----------------------------------------------------------------------------
\* A set of natural numbers that has an element has a least one.
LEMMA Least ==
    ASSUME NEW S \in SUBSET Nat, S # {}
    PROVE  \E i \in S : \A j \in S : i <= j
<1> DEFINE Less == OpToRel(<, Nat)
<1>1. IsWellFoundedOn(Less, Nat)
  BY NatLessThanWellFounded, Zenon
<1>2. \A i, j \in Nat : <<j, i>> \in Less <=> j < i
  BY DEF OpToRel
<1> HIDE DEF Less
<1>3. PICK i \in S : \A j \in S : ~ (<<j, i>> \in Less)
  BY <1>1, WFMin, ZenonT(60)
<1>4. ASSUME NEW j \in S PROVE i <= j
  <2>1. i \in Nat /\ j \in Nat
    OBVIOUS
  <2>2. ~ (j < i)
    BY <1>2, <1>3, <2>1, ZenonT(60)
  <2> QED
    BY <2>1, <2>2
<1> QED
  BY <1>4

\* A policy is what a rule that was added answers for packet p.
InForce(policy, p) ==
    policy # NoMatch =>
      \E k \in 1..Len(rules) : \E d \in Directions : policy = Filter(rules[k], d, p)

\* RunRules answers what some rule answers, and NoMatch only when no rule matches.
LEMMA RunRulesAnswers ==
    ASSUME rules \in Seq(Rules), NEW d \in Directions, NEW p \in Packets
    PROVE  /\ RunRules(d, p) \in Answers /\ RunRules(d, p) \in RuleAnswers(p)
           /\ InForce(RunRules(d, p), p)
           /\ RunRules(d, p) = NoMatch => \A i \in 1..Len(rules) : Filter(rules[i], d, p) = NoMatch
<1> DEFINE F(i) == Filter(rules[i], d, p)
           matching == {i \in DOMAIN rules : F(i) # NoMatch}
           first == CHOOSE i \in matching : \A j \in matching : i <= j
<1>1. DOMAIN rules = 1..Len(rules)
  OBVIOUS
<1>2. CASE matching = {}
  <2>1. RunRules(d, p) = NoMatch
    BY <1>2 DEF RunRules
  <2>2. \A i \in 1..Len(rules) : F(i) = NoMatch
    BY <1>1, <1>2
  <2> QED
    BY <2>1, <2>2 DEF Answers, RuleAnswers, InForce
<1>3. CASE matching # {}
  <2>1. matching \in SUBSET Nat
    BY <1>1
  <2> HIDE DEF matching
  <2>2. \E i \in matching : \A j \in matching : i <= j
    BY <2>1, <1>3, Least
  <2>3. first \in matching
    BY <2>2
  <2>4. RunRules(d, p) = F(first)
    BY <1>3 DEF RunRules, matching
  <2>5. first \in DOMAIN rules /\ F(first) # NoMatch
    BY <2>3 DEF matching
  <2>6. rules[first] \in Rules
    BY <2>5, <1>1
  <2>7. F(first) \in AnswersFor(d, p)
    BY <2>6, Zenon DEF AnswersFor
  <2> HIDE DEF F
  <2>8. F(first) \in AnswersTo(d)
    BY <2>7, Zenon DEF AnswersTo
  <2>9. F(first) \in Answers
    BY <2>8, ZenonT(60) DEF Answers
  <2>10. F(first) \in RuleAnswers(p)
    BY <2>7, ZenonT(60) DEF RuleAnswers
  <2>11. InForce(RunRules(d, p), p)
    BY <1>1, <2>4, <2>5, Zenon DEF InForce, F
  <2> QED
    BY <1>1, <2>4, <2>5, <2>9, <2>10, <2>11 DEF F
<1> QED
  BY <1>2, <1>3
\* A record keeps what tells the directions of the flow apart.
SameFlow(old, new) ==
    new.protocol = old.protocol /\ new.destIP = old.destIP /\ new.destPort = old.destPort

\* The direction of a packet only depends on the endpoints of the flow.
LEMMA SameDirection ==
    ASSUME NEW old, NEW new, NEW p, SameFlow(old, new)
    PROVE  DirectionLocked(new, p) = DirectionLocked(old, p)
  BY Zenon DEF SameFlow, DirectionLocked

\* What a call answered stays right when rules are added and records change.
LEMMA HonestFrame ==
    ASSUME Typed, NEW t \in Threads, Honest(t), last'[t] = last[t],
           \A i \in 1..Len(rules) : rules'[i] = rules[i],
           \A i \in 1..Len(records) : SameFlow(records[i], records'[i])
    PROVE  Honest(t)'
<1> SUFFICES ASSUME last[t] # Never, last[t].answer = NoMatch, last[t].seen < MaxPackets,
                    NEW i \in 1..last[t].known
             PROVE  Filter(rules'[i], DirectionLocked(records'[last[t].flow], last[t].packet),
                           last[t].packet) = NoMatch
  BY DEF Honest
<1>1. last[t] \in LastType /\ last[t].flow <= Len(records) /\ last[t].known <= Len(rules)
  BY DEF Typed
<1>2. rules \in Seq(Rules) /\ records \in Seq(FlowType)
  BY DEF Typed
<1>3. i \in 1..Len(rules) /\ last[t].flow \in 1..Len(records)
  BY <1>1, <1>2 DEF LastType
<1>4. rules'[i] = rules[i] /\ SameFlow(records[last[t].flow], records'[last[t].flow])
  BY <1>3, SMTT(60)
<1>5. DirectionLocked(records'[last[t].flow], last[t].packet)
        = DirectionLocked(records[last[t].flow], last[t].packet)
  BY <1>4 DEF SameFlow, DirectionLocked
<1> QED
  BY <1>4, <1>5, SMTT(60) DEF Honest

\* No goroutine has called inspect yet.
LEMMA InitOK == Init => IInv
<1> SUFFICES ASSUME Init PROVE IInv
  OBVIOUS
<1>1. /\ load \in DOMAIN Workloads /\ now = 0 /\ calls = 0 /\ rules = <<>> /\ records = <<>>
      /\ flows = [h \in Hashes |-> 0]
      /\ \A t \in Threads : call[t] = Idle /\ last[t] = Never
      /\ call \in [Threads -> {Idle}] /\ last \in [Threads -> {Never}]
  BY DEF Init
<1>2. Idle.pc # "rules"
  BY DEF Idle
<1>3. Typed
  BY <1>1 DEF Typed
<1>4. Alone /\ Budget
  BY <1>1, <1>2 DEF Alone, Budget
<1>5. \A t \in Threads : Honest(t)
  BY <1>1 DEF Honest
<1> QED
  BY <1>3, <1>4, <1>5 DEF IInv

\* Work is one of Workloads, and stays the same.
LEMMA WorkOK ==
    ASSUME Typed
    PROVE  /\ Work.packets \subseteq Packets /\ Work.ruleSet \subseteq Rules
           /\ Work.threads \subseteq Threads
           /\ UNCHANGED load => Hashes' = Hashes
  BY EngineAssumption DEF Typed, Work, Packets, Rules, Hashes

\* The clock and the calls that fail to dissect change nothing that matters.
LEMMA CountersOK ==
    ASSUME IInv, now' \in Nat, calls' \in Nat,
           UNCHANGED <<load, rules, flows, records, call, last>>
    PROVE  IInv'
<1>0. Typed
  BY DEF IInv
<1>1. Hashes' = Hashes
  BY <1>0, WorkOK
<1>2. Typed'
  BY <1>0, <1>1, SMTT(60) DEF Typed
<1>3. Alone' /\ Budget'
  BY Zenon DEF IInv, Alone, Budget
<1>4. \A t \in Threads : Honest(t)'
  BY Zenon DEF IInv, Honest
<1> QED
  BY <1>2, <1>3, <1>4 DEF IInv

\* AddRule only adds.
LEMMA AddRuleOK ==
    ASSUME IInv, NEW rule \in Rules, AddRule(rule)
    PROVE  IInv'
<1>0. Typed
  BY DEF IInv
<1>1. rules' = Append(rules, rule) /\ UNCHANGED <<load, now, flows, records, call, calls, last>>
  BY DEF AddRule
<1>2. rules \in Seq(Rules) /\ rules' \in Seq(Rules) /\ Len(rules') = Len(rules) + 1
  BY <1>0, <1>1 DEF Typed
<1>3. \A i \in 1..Len(rules) : rules'[i] = rules[i]
  BY <1>1, <1>2
<1>4. Hashes' = Hashes
  BY <1>0, <1>1, WorkOK
<1>5. \A t \in Threads : call'[t] # Idle => call'[t].known <= Len(rules')
  <2>1. \A t \in Threads : call[t] # Idle => call[t].known <= Len(rules) /\ call[t].known \in Nat
    BY <1>0 DEF Typed, CallType
  <2> QED
    BY <1>1, <1>2, <2>1
<1>6. \A t \in Threads : last'[t] # Never => last'[t].known <= Len(rules')
  <2>1. \A t \in Threads : last[t] # Never => last[t].known <= Len(rules) /\ last[t].known \in Nat
    BY <1>0 DEF Typed, LastType
  <2> QED
    BY <1>1, <1>2, <2>1
<1>7. Typed'
  BY <1>0, <1>1, <1>2, <1>4, <1>5, <1>6, SMTT(60) DEF Typed
<1>8. Alone' /\ Budget'
  BY <1>1, Zenon DEF IInv, Alone, Budget
<1>9. \A t \in Threads : Honest(t)'
  <2> SUFFICES ASSUME NEW t \in Threads PROVE Honest(t)'
    OBVIOUS
  <2>1. \A i \in 1..Len(records) : SameFlow(records[i], records'[i])
    BY <1>1 DEF SameFlow
  <2>2. Honest(t) /\ last'[t] = last[t]
    BY <1>1, SMTT(60) DEF IInv
  <2> QED
    BY <1>0, <1>3, <2>1, <2>2, HonestFrame
<1> QED
  BY <1>7, <1>8, <1>9 DEF IInv

\* What getFlow leaves as it was in a record.
Kept(old, new) ==
    /\ SameFlow(old, new)
    /\ new.mu = old.mu /\ new.policy = old.policy
    /\ new.numPackets = old.numPackets /\ new.ran = old.ran

\* getFlow makes a record or finds one, and keeps all the others.
LEMMA GetFlowRecords ==
    ASSUME IInv, NEW t \in Threads, NEW p \in Work.packets, GetFlow(t, p)
    PROVE  /\ records' \in Seq(FlowType) /\ Len(records) <= Len(records')
           /\ \A i \in 1..Len(records) : Kept(records[i], records'[i])
           /\ \A i \in 1..Len(records') :
                i \notin 1..Len(records) => records'[i].ran = 0 /\ records'[i].numPackets = 0
           /\ flows'[FlowHash(p)] \in 1..Len(records')
           /\ flows' = [flows EXCEPT ![FlowHash(p)] = flows'[FlowHash(p)]]
           /\ call' = [call EXCEPT ![t] = [pc |-> "lock", flow |-> flows'[FlowHash(p)],
                                           packet |-> p, known |-> Len(rules)]]
<1> DEFINE fh == FlowHash(p)
           fresh == flows[fh] = 0 \/ Stale(records[flows[fh]])
           flow == IF fresh THEN Len(records) + 1 ELSE flows[fh]
           made == Touched(NewDPIFlow(p))
           found == [Touched(records[flow]) EXCEPT !.found = now]
<1>1. /\ records' = IF fresh THEN Append(records, made) ELSE [records EXCEPT ![flow] = found]
      /\ flows' = [flows EXCEPT ![fh] = flow]
      /\ call' = [call EXCEPT ![t] = [pc |-> "lock", flow |-> flow, packet |-> p,
                                      known |-> Len(rules)]]
  BY DEF GetFlow
<1>2. p \in Packets /\ fh \in Hashes
  BY WorkOK, SMTT(60) DEF IInv, Hashes
<1>3. /\ records \in Seq(FlowType) /\ now \in Nat
      /\ flows \in [Hashes -> Nat] /\ \A h \in Hashes : flows[h] <= Len(records)
  BY DEF IInv, Typed
<1> HIDE DEF fh, fresh
<1>4. made \in FlowType /\ made.ran = 0 /\ made.numPackets = 0
  BY <1>2, <1>3, ZenonT(60) DEF FlowType, Touched, NewDPIFlow, Answers
<1>5. CASE fresh
  <2>1. flow = Len(records) + 1 /\ records' = Append(records, made)
    BY <1>1, <1>5
  <2> HIDE DEF flow, made
  <2>2. /\ records' \in Seq(FlowType) /\ Len(records') = Len(records) + 1
        /\ \A i \in 1..Len(records) : records'[i] = records[i]
        /\ records'[Len(records) + 1] = made
    BY <1>3, <1>4, <2>1
  <2>3. flows'[fh] = flow
    BY <1>1, <1>2, <1>3, SMTT(60)
  <2>4. \A i \in 1..Len(records) : Kept(records[i], records'[i])
    BY <2>2 DEF Kept, SameFlow
  <2>5. \A i \in 1..Len(records') : i \notin 1..Len(records) => i = Len(records) + 1
    BY <1>3, <2>2
  <2>6. flows'[fh] \in 1..Len(records')
    BY <1>3, <2>1, <2>2, <2>3, SMTT(60)
  <2>7. Len(records) <= Len(records')
    BY <1>3, <2>2
  <2> QED
    BY <1>1, <1>4, <2>2, <2>3, <2>4, <2>5, <2>6, <2>7, ZenonT(60) DEF fh
<1>6. CASE ~fresh
  <2>1. flow = flows[fh] /\ records' = [records EXCEPT ![flow] = found]
    BY <1>1, <1>6
  <2>2. flow \in 1..Len(records)
    BY <1>2, <1>3, <1>6, <2>1 DEF fresh
  <2> HIDE DEF flow
  <2>3. records[flow] \in FlowType
    BY <1>3, <2>2
  <2>4. found \in FlowType /\ Kept(records[flow], found)
    BY <1>3, <2>3, ZenonT(60) DEF FlowType, Touched, Kept, SameFlow
  <2> HIDE DEF found
  <2>5. /\ records' \in Seq(FlowType) /\ Len(records') = Len(records)
        /\ \A i \in 1..Len(records) : records'[i] = IF i = flow THEN found ELSE records[i]
    BY <1>3, <2>1, <2>2, <2>4, SMTT(60)
  <2>6. flows'[fh] = flow
    BY <1>1, <1>2, <1>3, SMTT(60)
  <2>7. \A i \in 1..Len(records) : Kept(records[i], records'[i])
    BY <2>4, <2>5 DEF Kept, SameFlow
  <2>8. Len(records) <= Len(records')
    BY <1>3, <2>5
  <2> QED
    BY <1>1, <2>2, <2>5, <2>6, <2>7, <2>8, ZenonT(60) DEF fh
<1> QED
  BY <1>5, <1>6

\* getFlow: the call that found a record does not hold its mutex yet.
LEMMA GetFlowOK ==
    ASSUME IInv, NEW t \in Threads, NEW p \in Work.packets, GetFlow(t, p)
    PROVE  IInv'
<1>0. Typed
  BY SMTT(60) DEF IInv
<1> DEFINE fh == FlowHash(p)
           mine == [pc |-> "lock", flow |-> flows'[fh], packet |-> p, known |-> Len(rules)]
<1>1. /\ records' \in Seq(FlowType) /\ Len(records) <= Len(records')
      /\ \A i \in 1..Len(records) : Kept(records[i], records'[i])
      /\ \A i \in 1..Len(records') :
           i \notin 1..Len(records) => records'[i].ran = 0 /\ records'[i].numPackets = 0
      /\ flows'[fh] \in 1..Len(records')
      /\ flows' = [flows EXCEPT ![fh] = flows'[fh]]
      /\ call' = [call EXCEPT ![t] = mine]
  BY GetFlowRecords, Zenon
<1>2. calls' = calls + 1 /\ UNCHANGED <<load, now, rules, last>>
  BY DEF GetFlow
<1>3. p \in Packets /\ fh \in Hashes /\ Hashes' = Hashes
  BY <1>0, <1>2, WorkOK, SMTT(60) DEF Hashes
<1> HIDE DEF fh
<1>4. Len(records) \in Nat /\ Len(records') \in Nat /\ Len(rules) \in Nat
  BY <1>0, <1>1, SMTT(60) DEF Typed
<1>5. mine \in CallType /\ mine.flow <= Len(records') /\ mine.known <= Len(rules)
      /\ mine.pc = "lock"
  BY <1>1, <1>3, <1>4, SMTT(60) DEF CallType
<1> HIDE DEF mine
<1>6. /\ call' \in [Threads -> CallType \cup {Idle}] /\ call'[t] = mine
      /\ \A u \in Threads \ {t} : call'[u] = call[u]
  BY <1>0, <1>1, <1>5, Zenon DEF Typed
<1>7. flows' \in [Hashes' -> Nat] /\ \A h \in Hashes' : flows'[h] <= Len(records')
  <2>1. flows \in [Hashes -> Nat] /\ \A h \in Hashes : flows[h] <= Len(records)
    BY <1>0 DEF Typed
  <2>2. PICK at \in 1..Len(records') : flows' = [flows EXCEPT ![fh] = at]
    BY <1>1
  <2>3. flows' \in [Hashes -> Nat]
    <3>1. at \in Nat
      BY <1>4
    <3> QED
      BY <2>1, <2>2, <3>1, ZenonT(60)
  <2>4. ASSUME NEW h \in Hashes PROVE flows'[h] <= Len(records')
    <3>1. flows'[h] = IF h = fh THEN at ELSE flows[h]
      BY <2>1, <2>2, SMTT(60)
    <3>2. flows[h] \in Nat /\ flows[h] <= Len(records) /\ Len(records) <= Len(records')
      BY <1>1, <2>1
    <3>3. flows[h] <= Len(records') /\ at <= Len(records')
      BY <1>4, <3>2, SMTT(60)
    <3> QED
      BY <3>1, <3>3
  <2> QED
    BY <1>3, <2>3, <2>4, SMTT(60)
<1>8. \A u \in Threads : call[u] # Idle => call[u].flow \in 1..Len(records)
  BY <1>0, <1>4, SMTT(60) DEF Typed, CallType
<1>9. \A u \in Threads : call'[u] # Idle => /\ call'[u].flow <= Len(records')
                                            /\ call'[u].known <= Len(rules')
  <2>1. \A u \in Threads : call[u] # Idle => call[u].known <= Len(rules)
    BY <1>0, SMTT(60) DEF Typed
  <2> QED
    BY <1>1, <1>2, <1>4, <1>5, <1>6, <1>8, <2>1, SMTT(60)
<1>10. \A u \in Threads : last'[u] # Never => /\ last'[u].flow <= Len(records')
                                              /\ last'[u].known <= Len(rules')
  <2>1. \A u \in Threads : last[u] # Never => /\ last[u].flow \in Nat
                                               /\ last[u].flow <= Len(records)
                                               /\ last[u].known <= Len(rules)
    BY <1>0, SMTT(60) DEF Typed, LastType
  <2> QED
    BY <1>1, <1>2, <1>4, <2>1, SMTT(60)
<1>11. Typed'
  BY <1>0, <1>1, <1>2, <1>3, <1>6, <1>7, <1>9, <1>10, SMTT(60) DEF Typed
<1>12. \A u \in Threads : call'[u].pc = "rules" => u # t /\ call'[u] = call[u]
  BY <1>5, <1>6, SMTT(60)
<1>13. Alone'
  <2>1. \A u \in Threads : call[u].pc = "rules" => call[u].flow \in 1..Len(records)
    BY <1>8 DEF Idle
  <2>2. ASSUME NEW u \in Threads, call'[u].pc = "rules"
        PROVE  LET flow == records'[call'[u].flow]
               IN  flow.mu /\ flow.policy = NoMatch
                   /\ flow.ran < flow.numPackets /\ flow.numPackets < MaxPackets
    <3>1. call'[u] = call[u] /\ call[u].flow \in 1..Len(records)
      BY <1>12, <2>1, <2>2
    <3>2. Kept(records[call[u].flow], records'[call[u].flow])
      BY <1>1, <3>1, Zenon
    <3> QED
      BY <2>2, <3>1, <3>2, ZenonT(60) DEF IInv, Alone, Kept
  <2>3. \A u, v \in Threads :
          call'[u].pc = "rules" /\ call'[v].pc = "rules" /\ call'[u].flow = call'[v].flow => u = v
    BY <1>12, Zenon DEF IInv, Alone
  <2> QED
    BY <2>2, <2>3, Zenon DEF Alone
<1>14. Budget'
  <2> SUFFICES ASSUME NEW i \in 1..Len(records')
               PROVE  records'[i].ran <= records'[i].numPackets /\ records'[i].ran < MaxPackets
    BY SMTT(60) DEF Budget
  <2>1. CASE i \in 1..Len(records)
    BY <1>1, <2>1, Zenon DEF IInv, Budget, Kept
  <2>2. CASE i \notin 1..Len(records)
    BY <1>1, <2>2, EngineAssumption, SMTT(60)
  <2> QED
    BY <2>1, <2>2, SMTT(60)
<1>15. \A u \in Threads : Honest(u)'
  <2> SUFFICES ASSUME NEW u \in Threads PROVE Honest(u)'
    BY SMTT(60)
  <2>1. \A i \in 1..Len(records) : SameFlow(records[i], records'[i])
    BY <1>1, Zenon DEF Kept
  <2>2. Honest(u) /\ last'[u] = last[u] /\ \A i \in 1..Len(rules) : rules'[i] = rules[i]
    BY <1>2, SMTT(60) DEF IInv
  <2> QED
    BY <1>0, <2>1, <2>2, HonestFrame, Zenon
<1> QED
  BY <1>11, <1>13, <1>14, <1>15 DEF IInv

\* The end of a call, with the record that it leaves and its answer: no other
\* goroutine runs the rules on the record.
LEMMA ReturnOK ==
    ASSUME IInv, NEW t \in Threads, call[t] # Idle,
           NEW flow \in FlowType, NEW answer \in Answers, Return(t, flow, answer),
           SameFlow(records[call[t].flow], flow),
           flow.ran <= flow.numPackets, flow.ran < MaxPackets,
           \A u \in Threads : u # t /\ call[u].pc = "rules" => call[u].flow # call[t].flow,
           answer = NoMatch /\ flow.numPackets < MaxPackets =>
             \A i \in 1..call[t].known :
               Filter(rules[i], DirectionLocked(flow, call[t].packet), call[t].packet) = NoMatch
    PROVE  IInv'
<1> DEFINE at == call[t].flow
           free == Unlock(flow)
           mine == [flow |-> call[t].flow, packet |-> call[t].packet, known |-> call[t].known,
                    answer |-> answer, seen |-> flow.numPackets]
<1>0. Typed
  BY Zenon DEF IInv
<1>1. /\ records' = [records EXCEPT ![at] = free] /\ last' = [last EXCEPT ![t] = mine]
      /\ call' = [call EXCEPT ![t] = Idle] /\ UNCHANGED <<load, now, rules, flows, calls>>
  BY Zenon DEF Return
<1>2. Hashes' = Hashes
  BY <1>0, <1>1, WorkOK, Zenon
<1>3. call[t] \in CallType /\ call[t].flow <= Len(records) /\ call[t].known <= Len(rules)
  BY <1>0, SMTT(60) DEF Typed
<1>4. records \in Seq(FlowType) /\ Len(records) \in Nat
  BY <1>0, SMTT(60) DEF Typed
<1>5. at \in 1..Len(records)
  BY <1>3, <1>4, SMTT(60) DEF CallType
<1>6. mine \in LastType /\ mine # Never
  BY <1>3, Zenon DEF LastType, CallType, Never, FlowType
<1>7. /\ free \in FlowType /\ SameFlow(flow, free)
      /\ free.ran = flow.ran /\ free.numPackets = flow.numPackets
  BY ZenonT(60) DEF FlowType, Unlock, SameFlow
<1> HIDE DEF free
<1>8. /\ records' \in Seq(FlowType) /\ Len(records') = Len(records)
      /\ \A i \in 1..Len(records) : records'[i] = IF i = at THEN free ELSE records[i]
  BY <1>1, <1>4, <1>5, <1>7, SMTT(60)
<1>9. /\ call' \in [Threads -> CallType \cup {Idle}] /\ call'[t] = Idle
      /\ \A u \in Threads \ {t} : call'[u] = call[u]
  BY <1>0, <1>1, Zenon DEF Typed
<1>10. /\ last' \in [Threads -> LastType \cup {Never}] /\ last'[t] = mine
       /\ \A u \in Threads \ {t} : last'[u] = last[u]
  <2> HIDE DEF mine
  <2> QED
    BY <1>0, <1>1, <1>6, Zenon DEF Typed
<1>11. Typed'
  <2>1. flows' \in [Hashes' -> Nat] /\ \A h \in Hashes' : flows'[h] <= Len(records')
    BY <1>0, <1>1, <1>2, <1>8, Zenon DEF Typed
  <2>2. \A u \in Threads : call'[u] # Idle => /\ call'[u].flow <= Len(records')
                                              /\ call'[u].known <= Len(rules')
    BY <1>0, <1>1, <1>8, <1>9, Zenon DEF Typed
  <2>3. mine.flow = call[t].flow /\ mine.known = call[t].known
    BY Zenon
  <2>4. \A u \in Threads : last'[u] # Never => /\ last'[u].flow <= Len(records')
                                               /\ last'[u].known <= Len(rules')
    <3> HIDE DEF mine
    <3> QED
      BY <1>0, <1>1, <1>3, <1>8, <1>10, <2>3, Zenon DEF Typed
  <2> QED
    BY <1>0, <1>1, <1>8, <1>9, <1>10, <2>1, <2>2, <2>4, ZenonT(60) DEF Typed
<1>12. \A u \in Threads : call'[u].pc = "rules" => u # t /\ call'[u] = call[u]
  BY <1>9, SMTT(60) DEF Idle
<1>13. Alone'
  <2>1. \A u \in Threads : call[u].pc = "rules" => call[u].flow \in 1..Len(records)
    BY <1>0, <1>4, SMTT(60) DEF Idle, Typed, CallType
  <2>2. ASSUME NEW u \in Threads, call'[u].pc = "rules"
        PROVE  records'[call'[u].flow] = records[call[u].flow] /\ call'[u] = call[u]
    <3>1. u # t /\ call'[u] = call[u] /\ call[u].flow \in 1..Len(records)
      BY <1>12, <2>1, <2>2, Zenon
    <3>2. call[u].flow # at
      BY <2>2, <3>1, Zenon
    <3> QED
      BY <1>8, <3>1, <3>2, Zenon
  <2>3. Alone
    BY Zenon DEF IInv
  <2>4. ASSUME NEW u \in Threads, call'[u].pc = "rules"
        PROVE  LET own == records'[call'[u].flow]
               IN  own.mu /\ own.policy = NoMatch
                   /\ own.ran < own.numPackets /\ own.numPackets < MaxPackets
    <3>1. records'[call'[u].flow] = records[call[u].flow] /\ call[u].pc = "rules"
      BY <2>2, <2>4, ZenonT(60)
    <3> QED
      BY <2>3, <3>1, Zenon DEF Alone
  <2>5. ASSUME NEW u \in Threads, NEW v \in Threads, call'[u].pc = "rules",
               call'[v].pc = "rules", call'[u].flow = call'[v].flow
        PROVE  u = v
    <3>1. call'[u] = call[u] /\ call'[v] = call[v]
      BY <2>2, <2>5, ZenonT(60)
    <3> QED
      BY <2>3, <2>5, <3>1, Zenon DEF Alone
  <2> QED
    BY <2>4, <2>5, Zenon DEF Alone
<1>14. Budget'
  BY <1>7, <1>8, Zenon DEF IInv, Budget
<1>15. ASSUME NEW u \in Threads PROVE Honest(u)'
  <2>1. CASE u # t
    <3>1. \A i \in 1..Len(records) : SameFlow(records[i], records'[i])
      BY <1>7, <1>8, Zenon DEF SameFlow
    <3>2. Honest(u) /\ last'[u] = last[u] /\ \A i \in 1..Len(rules) : rules'[i] = rules[i]
      BY <1>1, <1>10, <2>1, Zenon DEF IInv
    <3> QED
      BY <1>0, <3>1, <3>2, HonestFrame, Zenon
  <2>2. CASE u = t
    <3>1. /\ mine.answer = answer /\ mine.seen = flow.numPackets /\ mine.packet = call[t].packet
          /\ mine.flow = at /\ mine.known = call[t].known
      BY ZenonT(60)
    <3> HIDE DEF mine, at
    <3>2. DirectionLocked(records'[at], call[t].packet) = DirectionLocked(flow, call[t].packet)
      <4>1. records'[at] = free
        BY <1>5, <1>8, Zenon
      <4> QED
        BY <1>7, <4>1, SameDirection, ZenonT(60)
    <3> QED
      BY <1>1, <1>10, <2>2, <3>1, <3>2, SMTT(60) DEF Honest
  <2> QED
    BY <2>1, <2>2, Zenon
<1> QED
  BY <1>11, <1>13, <1>14, <1>15, Zenon DEF IInv

\* What Lock does to the record that it found free: it counts the packet.
LEMMA LockRecord ==
    ASSUME IInv, NEW t \in Threads, call[t].pc = "lock", Unlocked(call[t].flow)
    PROVE  LET old == records[call[t].flow]
               flow == Counted([old EXCEPT !.mu = TRUE])
           IN  /\ call[t] # Idle /\ call[t].flow \in 1..Len(records)
               /\ old \in FlowType /\ flow \in FlowType /\ SameFlow(old, flow) /\ flow.mu
               /\ flow.policy = old.policy /\ flow.ran = old.ran
               /\ flow.numPackets = old.numPackets + 1
               /\ flow.ran < flow.numPackets /\ flow.ran < MaxPackets
               /\ \A u \in Threads : call[u].pc = "rules" => call[u].flow # call[t].flow
<1> DEFINE old == records[call[t].flow]
           flow == Counted([old EXCEPT !.mu = TRUE])
<1>1. Typed /\ Alone /\ Budget
  BY SMTT(60) DEF IInv
<1>2. call[t] # Idle
  BY SMTT(60) DEF Idle
<1>3. call[t] \in CallType /\ call[t].flow <= Len(records) /\ records \in Seq(FlowType)
  BY <1>1, <1>2, SMTT(60) DEF Typed
<1>4. call[t].flow \in 1..Len(records)
  BY <1>3, SMTT(60) DEF CallType
<1>5. old \in FlowType /\ ~old.mu
  BY <1>3, <1>4, SMTT(60) DEF Unlocked
<1>6. old.ran <= old.numPackets /\ old.ran < MaxPackets
  BY <1>1, <1>4, Zenon DEF Budget
<1>7. \A u \in Threads : call[u].pc = "rules" => call[u].flow # call[t].flow
  BY <1>1, <1>5, Zenon DEF Alone
<1> HIDE DEF old
<1>8. /\ flow \in FlowType /\ SameFlow(old, flow) /\ flow.mu /\ flow.policy = old.policy
      /\ flow.ran = old.ran /\ flow.numPackets = old.numPackets + 1
      /\ old.ran \in Nat /\ old.numPackets \in Nat
  <2> DEFINE locked == [old EXCEPT !.mu = TRUE]
  <2>1. /\ locked \in FlowType /\ SameFlow(old, locked) /\ locked.policy = old.policy
        /\ locked.ran = old.ran /\ locked.numPackets = old.numPackets
    BY <1>5, ZenonT(60) DEF FlowType, SameFlow
  <2>2. locked.mu = TRUE
    BY <1>5 DEF FlowType
  <2> HIDE DEF locked
  <2>3. flow = [locked EXCEPT !.numPackets = locked.numPackets + 1]
    BY DEF Counted, locked
  <2> HIDE DEF flow
  <2>4. flow \in FlowType /\ SameFlow(locked, flow)
    BY <2>1, <2>3 DEF FlowType, SameFlow
  <2>5. flow.policy = locked.policy /\ flow.ran = locked.ran /\ flow.mu = locked.mu
    BY <2>1, <2>3 DEF FlowType
  <2>6. flow.numPackets = locked.numPackets + 1 /\ locked.ran \in Nat /\ locked.numPackets \in Nat
    BY <2>1, <2>3, SMTT(60) DEF FlowType
  <2> QED
    BY <2>1, <2>2, <2>4, <2>5, <2>6, Zenon DEF SameFlow
<1> HIDE DEF flow
<1>9. flow.ran < flow.numPackets
  BY <1>6, <1>8
<1> QED
  BY <1>2, <1>4, <1>5, <1>6, <1>7, <1>8, <1>9, Zenon DEF old, flow

\* Lock: the call ends with the policy, or because the budget is spent, or keeps
\* the mutex.
LEMMA LockOK ==
    ASSUME IInv, NEW t \in Threads, Lock(t)
    PROVE  IInv'
<1> DEFINE at == call[t].flow
           old == records[at]
           flow == Counted([old EXCEPT !.mu = TRUE])
<1>1. call[t].pc = "lock" /\ Unlocked(at)
  BY SMTT(60) DEF Lock
<1>2. /\ call[t] # Idle /\ at \in 1..Len(records)
      /\ old \in FlowType /\ flow \in FlowType /\ SameFlow(old, flow) /\ flow.mu
      /\ flow.ran < flow.numPackets /\ flow.ran < MaxPackets
      /\ \A u \in Threads : call[u].pc = "rules" => call[u].flow # at
  BY <1>1, LockRecord, Zenon
<1>3. \/ flow.policy # NoMatch /\ Return(t, flow, flow.policy)
      \/ flow.policy = NoMatch /\ Exhausted(flow) /\ Return(t, flow, NoMatch)
      \/ /\ flow.policy = NoMatch /\ ~Exhausted(flow)
         /\ records' = [records EXCEPT ![at] = flow]
         /\ call' = [call EXCEPT ![t].pc = "rules"]
         /\ UNCHANGED <<load, now, rules, flows, calls, last>>
  BY SMTT(60) DEF Lock
<1> HIDE DEF flow
<1>4. /\ flow.policy \in Answers /\ NoMatch \in Answers
      /\ flow.numPackets \in Nat /\ flow.ran \in Nat /\ MaxPackets \in Nat
  BY <1>2, EngineAssumption, Zenon DEF FlowType, Answers
<1>5. flow.ran <= flow.numPackets
  BY <1>2, <1>4, SMTT(60)
<1>6. CASE flow.policy # NoMatch /\ Return(t, flow, flow.policy)
  BY <1>2, <1>4, <1>5, <1>6, ReturnOK, Zenon
<1>7. CASE Exhausted(flow) /\ Return(t, flow, NoMatch)
  <2>1. ~(flow.numPackets < MaxPackets)
    BY <1>4, <1>7 DEF Exhausted
  <2> QED
    BY <1>2, <1>4, <1>5, <1>7, <2>1, ReturnOK, Zenon
<1>8. CASE /\ flow.policy = NoMatch /\ ~Exhausted(flow)
           /\ records' = [records EXCEPT ![at] = flow]
           /\ call' = [call EXCEPT ![t].pc = "rules"]
           /\ UNCHANGED <<load, now, rules, flows, calls, last>>
  <2>0. Typed
    BY DEF IInv
  <2>1. records \in Seq(FlowType) /\ Len(records) \in Nat /\ call \in [Threads -> CallType \cup {Idle}]
    BY <2>0 DEF Typed
  <2>2. flow.numPackets < MaxPackets
    BY <1>4, <1>8 DEF Exhausted
  <2>3. /\ records' \in Seq(FlowType) /\ Len(records') = Len(records)
        /\ \A i \in 1..Len(records) : records'[i] = IF i = at THEN flow ELSE records[i]
    BY <1>2, <1>8, <2>1, SMTT(60)
  <2>4. call[t] \in CallType
    BY <1>2, <2>1, Zenon
  <2>5. /\ [call[t] EXCEPT !.pc = "rules"] \in CallType
        /\ [call[t] EXCEPT !.pc = "rules"].flow = at
        /\ [call[t] EXCEPT !.pc = "rules"].known = call[t].known
    BY <2>4 DEF CallType
  <2>6. /\ call' \in [Threads -> CallType \cup {Idle}]
        /\ call'[t].flow = at /\ call'[t].known = call[t].known
        /\ \A u \in Threads \ {t} : call'[u] = call[u]
    <3>1. call' = [call EXCEPT ![t] = [call[t] EXCEPT !.pc = "rules"]]
      BY <1>8
    <3> QED
      BY <2>1, <2>5, <3>1
  <2>7. Hashes' = Hashes
    BY <1>8, <2>0, WorkOK, SMTT(60)
  <2>8. Typed'
    <3>1. \A u \in Threads : call'[u] # Idle => /\ call'[u].flow <= Len(records')
                                                /\ call'[u].known <= Len(rules')
      BY <1>2, <1>8, <2>0, <2>3, <2>6, SMTT(60) DEF Typed
    <3>2. \A u \in Threads : last'[u] # Never => /\ last'[u].flow <= Len(records')
                                                 /\ last'[u].known <= Len(rules')
      BY <1>8, <2>0, <2>3, SMTT(60) DEF Typed
    <3>3. flows' \in [Hashes' -> Nat] /\ \A h \in Hashes' : flows'[h] <= Len(records')
      BY <1>8, <2>0, <2>3, <2>7, SMTT(60) DEF Typed
    <3> QED
      BY <1>8, <2>0, <2>3, <2>6, <3>1, <3>2, <3>3, SMTT(60) DEF Typed
  <2>9. Alone'
    <3>1. \A u \in Threads : call[u].pc = "rules" => call[u].flow \in 1..Len(records)
      BY <2>0, <2>1, SMTT(60) DEF Idle, Typed, CallType
    <3>2. ASSUME NEW u \in Threads, u # t, call'[u].pc = "rules"
          PROVE  /\ call'[u] = call[u] /\ call[u].flow # at
                 /\ records'[call[u].flow] = records[call[u].flow]
      <4>1. call'[u] = call[u]
        BY <2>6, <3>2, SMTT(60)
      <4>2. call[u].flow # at /\ call[u].flow \in 1..Len(records)
        BY <1>2, <3>1, <3>2, <4>1, Zenon
      <4> QED
        BY <2>3, <4>1, <4>2, Zenon
    <3>3. records'[at] = flow
      BY <1>2, <2>3, Zenon
    <3>4. Alone
      BY SMTT(60) DEF IInv
    <3>5. ASSUME NEW u \in Threads, call'[u].pc = "rules"
          PROVE  LET f == records'[call'[u].flow]
                 IN  f.mu /\ f.policy = NoMatch /\ f.ran < f.numPackets /\ f.numPackets < MaxPackets
      <4>1. CASE u = t
        BY <1>2, <1>8, <2>2, <2>6, <3>3, <4>1, SMTT(60)
      <4>2. CASE u # t
        BY <3>2, <3>4, <3>5, <4>2, SMTT(60) DEF Alone
      <4> QED
        BY <4>1, <4>2, Zenon
    <3>6. \A u, v \in Threads :
            call'[u].pc = "rules" /\ call'[v].pc = "rules" /\ call'[u].flow = call'[v].flow => u = v
      BY <2>6, <3>2, <3>4, SMTT(60) DEF Alone
    <3> QED
      BY <3>5, <3>6, Zenon DEF Alone
  <2>10. Budget'
    BY <1>2, <1>5, <2>3, Zenon DEF IInv, Budget
  <2>11. ASSUME NEW u \in Threads PROVE Honest(u)'
    <3>1. \A i \in 1..Len(records) : SameFlow(records[i], records'[i])
      BY <1>2, <2>3, Zenon DEF SameFlow
    <3>2. Honest(u) /\ last'[u] = last[u] /\ \A i \in 1..Len(rules) : rules'[i] = rules[i]
      BY <1>8, SMTT(60) DEF IInv
    <3> QED
      BY <2>0, <3>1, <3>2, HonestFrame, SMTT(60)
  <2> QED
    BY <2>8, <2>9, <2>10, <2>11 DEF IInv
<1> QED
  BY <1>3, <1>6, <1>7, <1>8, SMTT(60)

\* What Decide leaves in the record: the answer of the rules, and one more run.
LEMMA DecideRecord ==
    ASSUME IInv, NEW t \in Threads, Decide(t)
    PROVE  LET old == records[call[t].flow]
               answer == RunRules(DirectionLocked(old, call[t].packet), call[t].packet)
               flow == [old EXCEPT !.policy = answer, !.ran = @ + 1, !.trigger = call[t].packet]
           IN  /\ call[t] # Idle /\ call[t] \in CallType /\ call[t].flow \in 1..Len(records)
               /\ DirectionLocked(old, call[t].packet) \in Directions
               /\ answer \in Answers /\ flow \in FlowType /\ SameFlow(old, flow)
               /\ old.policy = NoMatch /\ flow.policy = answer
               /\ flow.ran <= flow.numPackets /\ flow.ran < MaxPackets
               /\ \A u \in Threads : u # t /\ call[u].pc = "rules" => call[u].flow # call[t].flow
               /\ Return(t, flow, answer)
<1> DEFINE old == records[call[t].flow]
           direction == DirectionLocked(old, call[t].packet)
           answer == RunRules(direction, call[t].packet)
           flow == [old EXCEPT !.policy = answer, !.ran = @ + 1, !.trigger = call[t].packet]
<1>1. Typed /\ Alone
  BY DEF IInv
<1>2. call[t].pc = "rules" /\ Return(t, flow, answer)
  BY DEF Decide
<1>3. call[t] # Idle
  BY <1>2, SMTT(60) DEF Idle
<1>4. call[t] \in CallType /\ call[t].flow <= Len(records) /\ records \in Seq(FlowType)
      /\ rules \in Seq(Rules)
  BY <1>1, <1>3, SMTT(60) DEF Typed
<1>5. call[t].flow \in 1..Len(records) /\ call[t].packet \in Packets
  BY <1>4, SMTT(60) DEF CallType
<1>6. old \in FlowType
  BY <1>4, <1>5, SMTT(60)
<1>7. old.policy = NoMatch /\ old.ran < old.numPackets /\ old.numPackets < MaxPackets
  BY <1>1, <1>2, Zenon DEF Alone
<1>8. \A u \in Threads : u # t /\ call[u].pc = "rules" => call[u].flow # call[t].flow
  BY <1>1, <1>2, SMTT(60) DEF Alone
<1>9. direction \in Directions
  BY SMTT(60) DEF DirectionLocked, Directions
<1>10. answer \in Answers
  BY <1>4, <1>5, <1>9, RunRulesAnswers, Zenon
<1> HIDE DEF old, direction, answer
<1>11. /\ flow \in FlowType /\ SameFlow(old, flow) /\ flow.policy = answer
       /\ flow.ran = old.ran + 1 /\ flow.numPackets = old.numPackets
       /\ old.ran \in Nat /\ old.numPackets \in Nat
  <2>1. flow \in FlowType /\ old.ran \in Nat /\ old.numPackets \in Nat
    <3> DEFINE decided == [old EXCEPT !.policy = answer]
               counted == [decided EXCEPT !.ran = old.ran + 1]
    <3>1. decided \in FlowType /\ old.ran \in Nat /\ old.numPackets \in Nat
      BY <1>6, <1>10 DEF FlowType
    <3>2. flow = [counted EXCEPT !.trigger = call[t].packet]
      BY <1>6 DEF FlowType
    <3> HIDE DEF decided, flow
    <3>3. counted \in FlowType
      BY <3>1 DEF FlowType
    <3> HIDE DEF counted
    <3>4. [counted EXCEPT !.trigger = call[t].packet] \in FlowType
      BY <1>5, <3>3, ZenonT(60) DEF FlowType
    <3> QED
      BY <3>1, <3>2, <3>4, Zenon
  <2>2. SameFlow(old, flow)
    BY <1>6 DEF FlowType, SameFlow
  <2>3. flow.policy = answer /\ flow.ran = old.ran + 1 /\ flow.numPackets = old.numPackets
    BY <1>6, SMTT(60) DEF FlowType
  <2> QED
    BY <2>1, <2>2, <2>3, SMTT(60)
<1> HIDE DEF flow
<1>12. flow.ran <= flow.numPackets /\ flow.ran < MaxPackets
  BY <1>7, <1>11, EngineAssumption, SMTT(60)
<1> QED
  BY <1>2, <1>3, <1>4, <1>5, <1>7, <1>8, <1>9, <1>10, <1>11, <1>12, Zenon
  DEF old, direction, answer, flow

\* Decide: the rules are those in force now, so they include those in force when the
\* call found the flow.
LEMMA DecideOK ==
    ASSUME IInv, NEW t \in Threads, Decide(t)
    PROVE  IInv'
<1> DEFINE old == records[call[t].flow]
           direction == DirectionLocked(old, call[t].packet)
           answer == RunRules(direction, call[t].packet)
           flow == [old EXCEPT !.policy = answer, !.ran = @ + 1, !.trigger = call[t].packet]
<1>1. /\ call[t] # Idle /\ call[t] \in CallType /\ direction \in Directions
      /\ answer \in Answers /\ flow \in FlowType /\ SameFlow(old, flow)
      /\ flow.ran <= flow.numPackets /\ flow.ran < MaxPackets
      /\ \A u \in Threads : u # t /\ call[u].pc = "rules" => call[u].flow # call[t].flow
      /\ Return(t, flow, answer)
  BY DecideRecord, ZenonT(60)
<1> HIDE DEF flow
<1>2. rules \in Seq(Rules) /\ Len(rules) \in Nat /\ call[t].known <= Len(rules)
  <2>1. Typed
    BY DEF IInv
  <2> QED
    BY <1>1, <2>1, SMTT(60) DEF Typed
<1>3. call[t].packet \in Packets /\ call[t].known \in Nat
  BY <1>1, Zenon DEF CallType
<1>4. DirectionLocked(flow, call[t].packet) = direction
  <2>1. SameFlow(old, flow)
    BY <1>1, Zenon
  <2> QED
    BY <2>1, SameDirection, ZenonT(60)
<1> HIDE DEF direction
<1>5. answer = NoMatch => \A i \in 1..Len(rules) : Filter(rules[i], direction, call[t].packet) = NoMatch
  BY <1>1, <1>2, <1>3, RunRulesAnswers, Zenon
<1>6. \A i \in 1..call[t].known : i \in 1..Len(rules)
  BY <1>2, <1>3, SMTT(60)
<1> HIDE DEF answer
<1>7. answer = NoMatch => \A i \in 1..call[t].known :
        Filter(rules[i], DirectionLocked(flow, call[t].packet), call[t].packet) = NoMatch
  BY <1>4, <1>5, <1>6, SMTT(60)
<1> QED
  BY <1>1, <1>7, ReturnOK, Zenon

LEMMA StepOK == IInv /\ [Next]_vars => IInv'
<1> SUFFICES ASSUME IInv, [Next]_vars PROVE IInv'
  BY SMTT(60)
<1>0. /\ now \in Nat /\ calls \in Nat
      /\ Work.packets \subseteq Packets /\ Work.ruleSet \subseteq Rules /\ Work.threads \subseteq Threads
  BY WorkOK, Zenon DEF IInv, Typed
<1>1. CASE Elapse
  <2>1. now' = now + 1 /\ UNCHANGED <<load, rules, flows, records, call, calls, last>>
    BY <1>1 DEF Elapse
  <2> QED
    BY <1>0, <2>1, CountersOK, SMTT(60)
<1>2. ASSUME NEW rule \in Work.ruleSet, AddRule(rule) PROVE IInv'
  BY <1>0, <1>2, AddRuleOK, SMTT(60)
<1>3. ASSUME NEW t \in Work.threads, NEW p \in Work.packets, InspectDissectFails(t, p) PROVE IInv'
  <2>1. calls' = calls + 1 /\ UNCHANGED <<load, now, rules, flows, records, call, last>>
    BY <1>3, SMTT(60) DEF InspectDissectFails
  <2> QED
    BY <1>0, <2>1, CountersOK, SMTT(60)
<1>4. ASSUME NEW t \in Work.threads, NEW p \in Work.packets, GetFlow(t, p) PROVE IInv'
  BY <1>0, <1>4, GetFlowOK, SMTT(60)
<1>5. ASSUME NEW t \in Work.threads, Lock(t) PROVE IInv'
  BY <1>0, <1>5, LockOK, SMTT(60)
<1>6. ASSUME NEW t \in Work.threads, Decide(t) PROVE IInv'
  BY <1>0, <1>6, DecideOK, SMTT(60)
<1>7. CASE UNCHANGED vars
  BY <1>0, <1>7, CountersOK DEF vars
<1> QED
  BY <1>1, <1>2, <1>3, <1>4, <1>5, <1>6, <1>7, Zenon DEF Next, Inspect

LEMMA Invariant == Spec => []IInv
  BY InitOK, StepOK, PTL DEF Spec

-----------------------------------------------------------------------------
\* For every number of goroutines, every rules and packets: the rules run on fewer
\* than maxPackets packets of a record (InspectionBudget), although each goroutine
\* finds the record before it locks it.
THEOREM RulesRunWithinBudget == Spec => []InspectionBudget
<1>1. IInv => InspectionBudget
  BY SMTT(60) DEF IInv, Typed, Budget, InspectionBudget
<1> QED
  BY <1>1, Invariant, PTL

\* For every number of goroutines, every rules and packets: a packet that inspect
\* lets through within the budget matches none of the rules that AddRule had added
\* when the call found the flow (RulesInForceApply).
THEOREM RulesAreApplied == Spec => []RulesInForceApply
<1>1. IInv => RulesInForceApply
  BY Zenon DEF IInv, Honest, RulesInForceApply
<1> QED
  BY <1>1, Invariant, PTL

\* A call that ends on a record that has a policy answers that policy and keeps it.
LEMMA PolicyStep ==
    ASSUME IInv, [Next]_vars, NEW t \in Threads, last'[t] # last[t],
           records[last'[t].flow].policy # NoMatch
    PROVE  /\ last'[t].answer = records[last'[t].flow].policy
           /\ records'[last'[t].flow].policy = records[last'[t].flow].policy
<1>0. /\ last \in [Threads -> LastType \cup {Never}] /\ records \in Seq(FlowType)
      /\ Work.threads \subseteq Threads
  BY WorkOK, Zenon DEF IInv, Typed
<1>1. \E u \in Threads : Lock(u) \/ Decide(u)
  <2>1. /\ ~Elapse /\ ~UNCHANGED vars /\ \A rule \in Work.ruleSet : ~AddRule(rule)
        /\ \A u \in Work.threads, p \in Work.packets : ~InspectDissectFails(u, p) /\ ~GetFlow(u, p)
    BY SMTT(60) DEF Elapse, AddRule, InspectDissectFails, GetFlow, vars
  <2> QED
    BY <1>0, <2>1, Zenon DEF Next, Inspect
<1>2. PICK u \in Threads : Lock(u) \/ Decide(u)
  BY <1>1, SMTT(60)
<1> DEFINE at == call[u].flow
<1>3. ASSUME NEW flow \in FlowType, NEW answer, Return(u, flow, answer), at \in 1..Len(records)
      PROVE  /\ u = t /\ last'[t].flow = at /\ last'[t].answer = answer
             /\ records'[at].policy = flow.policy
  <2> DEFINE mine == [flow |-> at, packet |-> call[u].packet, known |-> call[u].known,
                      answer |-> answer, seen |-> flow.numPackets]
  <2>1. last' = [last EXCEPT ![u] = mine] /\ records' = [records EXCEPT ![at] = Unlock(flow)]
    BY <1>3, Zenon DEF Return
  <2>2. mine.flow = at /\ mine.answer = answer
    BY Zenon
  <2> HIDE DEF mine
  <2>3. u = t /\ last'[t] = mine
    BY <1>0, <2>1, SMTT(60)
  <2>4. records'[at] = Unlock(flow)
    BY <1>0, <1>3, <2>1
  <2>5. Unlock(flow).policy = flow.policy
    BY SMTT(60) DEF Unlock, FlowType
  <2> QED
    BY <2>2, <2>3, <2>4, <2>5, SMTT(60)
<1>4. CASE Lock(u)
  <2> DEFINE flow == Counted([records[at] EXCEPT !.mu = TRUE])
  <2>1. call[u].pc = "lock" /\ Unlocked(at)
    BY <1>4, SMTT(60) DEF Lock
  <2>2. at \in 1..Len(records) /\ flow \in FlowType /\ flow.policy = records[at].policy
    BY <2>1, LockRecord, Zenon
  <2>3. \/ flow.policy # NoMatch /\ Return(u, flow, flow.policy)
        \/ flow.policy = NoMatch /\ (Return(u, flow, NoMatch) \/ UNCHANGED last)
    BY <1>4 DEF Lock
  <2> HIDE DEF flow
  <2>4. ASSUME flow.policy = NoMatch, Return(u, flow, NoMatch) PROVE FALSE
    BY <1>3, <2>2, <2>4, ZenonT(60)
  <2>5. Return(u, flow, flow.policy)
    BY <2>3, <2>4, SMTT(60)
  <2> QED
    BY <1>3, <2>2, <2>5, Zenon
<1>5. CASE Decide(u)
  <2>1. records[at].policy = NoMatch /\ \E flow \in FlowType, answer \in Answers :
          Return(u, flow, answer) /\ at \in 1..Len(records)
    BY <1>5, DecideRecord, ZenonT(60)
  <2>2. last'[t].flow = at
    BY <1>3, <2>1, Zenon
  <2> QED
    BY <2>1, <2>2, Zenon
<1> QED
  BY <1>2, <1>4, <1>5, Zenon

\* For every number of goroutines, every rules and packets: once a flow has a policy,
\* every call that ends on its record answers it (PolicySticks).
THEOREM PolicyIsNeverLost == Spec => PolicySticks
<1>1. IInv /\ [Next]_vars =>
        [\A t \in Threads :
           last'[t] # last[t] =>
             LET policy == records[last'[t].flow].policy
             IN  policy # NoMatch => /\ last'[t].answer = policy
                                     /\ records'[last'[t].flow].policy = policy]_vars
  BY PolicyStep, Zenon
<1> QED
  BY <1>1, Invariant, PTL DEF Spec, PolicySticks

-----------------------------------------------------------------------------
(* The flow records in time *)

\* FlowHash of the packets of a record.
RecordHash(flow) == <<flow.protocol, {flow.sourcePort, flow.destPort}>>

\* flows refers to the last record of each flow; each record of a flow was made long
\* after the one before it was last found.
Dated ==
    /\ \A h \in Hashes :
         /\ flows[h] # 0 => RecordHash(records[flows[h]]) = h
         /\ \A i \in 1..Len(records) : RecordHash(records[i]) = h => i <= flows[h]
    /\ \A i \in 1..Len(records) :
         records[i].updated = records[i].found /\ records[i].created <= now
    /\ \A i, j \in 1..Len(records) :
         i < j /\ RecordHash(records[i]) = RecordHash(records[j])
         => records[j].created - records[i].found > MaxSilence

\* A record keeps its flow and its times.
SameTimes(old, new) ==
    /\ new.protocol = old.protocol
    /\ new.sourcePort = old.sourcePort /\ new.destPort = old.destPort
    /\ new.created = old.created /\ new.found = old.found /\ new.updated = old.updated

\* What a step of a call for packet p leaves in its record, when the call answers
\* this: the policy and what it was made for, or those of p.
Leaves(old, new, p, answer) ==
    /\ SameTimes(old, new)
    /\ answer # NoMatch => new.policy = answer
    /\ \/ new.policy = old.policy /\ new.trigger = old.trigger
       \/ /\ old.policy = NoMatch /\ new.trigger = p
          /\ new.policy \in RuleAnswers(p) /\ InForce(new.policy, p)

LEMMA SameHash ==
    ASSUME NEW old, NEW new, SameTimes(old, new)
    PROVE  RecordHash(new) = RecordHash(old)
  BY Zenon DEF SameTimes, RecordHash

\* The fields that locking and unlocking leave alone.
LEMMA LockedFields ==
    ASSUME NEW old \in FlowType
    PROVE  /\ [old EXCEPT !.mu = TRUE] \in FlowType
           /\ SameTimes(old, [old EXCEPT !.mu = TRUE])
           /\ [old EXCEPT !.mu = TRUE].policy = old.policy
           /\ [old EXCEPT !.mu = TRUE].trigger = old.trigger
  BY ZenonT(60) DEF FlowType, SameTimes

LEMMA CountedFields ==
    ASSUME NEW old \in FlowType
    PROVE  /\ SameTimes(old, Counted(old))
           /\ Counted(old).policy = old.policy /\ Counted(old).trigger = old.trigger
  BY DEF FlowType, SameTimes, Counted

LEMMA UnlockedFields ==
    ASSUME NEW old \in FlowType
    PROVE  /\ Unlock(old) \in FlowType /\ SameTimes(old, Unlock(old))
           /\ Unlock(old).policy = old.policy /\ Unlock(old).trigger = old.trigger
  BY ZenonT(60) DEF FlowType, SameTimes, Unlock

\* What Lock and Decide do to the record of the call and to the call.
Inspected(t) ==
    \E new \in FlowType, answer \in Answers :
      /\ records' = [records EXCEPT ![call[t].flow] = new]
      /\ Leaves(records[call[t].flow], new, call[t].packet, answer)
      /\ UNCHANGED <<load, now, rules, flows>>
      /\ \A u \in Threads : call'[u] # Idle =>
           call[u] # Idle /\ call'[u].flow = call[u].flow /\ call'[u].packet = call[u].packet
      /\ \A u \in Threads : last'[u] # last[u] =>
           /\ u = t /\ last'[u].flow = call[t].flow /\ last'[u].packet = call[t].packet
           /\ last'[u].answer = answer

LEMMA ReturnInspected ==
    ASSUME Typed, NEW t \in Threads, NEW flow \in FlowType, NEW answer \in Answers,
           Return(t, flow, answer), Leaves(records[call[t].flow], flow, call[t].packet, answer)
    PROVE  Inspected(t)
<1> DEFINE free == Unlock(flow)
           mine == [flow |-> call[t].flow, packet |-> call[t].packet, known |-> call[t].known,
                    answer |-> answer, seen |-> flow.numPackets]
<1>1. /\ records' = [records EXCEPT ![call[t].flow] = free] /\ last' = [last EXCEPT ![t] = mine]
      /\ call' = [call EXCEPT ![t] = Idle] /\ UNCHANGED <<load, now, rules, flows>>
  BY Zenon DEF Return
<1>2. /\ free \in FlowType /\ SameTimes(flow, free)
      /\ free.policy = flow.policy /\ free.trigger = flow.trigger
  BY UnlockedFields, Zenon
<1>3. mine.flow = call[t].flow /\ mine.packet = call[t].packet /\ mine.answer = answer
  BY Zenon
<1> HIDE DEF free, mine
<1>4. Leaves(records[call[t].flow], free, call[t].packet, answer)
  BY <1>2, ZenonT(60) DEF Leaves, SameTimes
<1>5. call'[t] = Idle /\ \A u \in Threads \ {t} : call'[u] = call[u]
  BY <1>1 DEF Typed
<1>6. last'[t] = mine /\ \A u \in Threads \ {t} : last'[u] = last[u]
  BY <1>1, SMTT(60) DEF Typed
<1>7. \A u \in Threads : call'[u] # Idle => call'[u] = call[u]
  BY <1>5, Zenon
<1>8. \A u \in Threads : last'[u] # last[u] => u = t /\ last'[u] = mine
  BY <1>6, SMTT(60)
<1>9. \A u \in Threads : call'[u] # Idle =>
        call[u] # Idle /\ call'[u].flow = call[u].flow /\ call'[u].packet = call[u].packet
  BY <1>7, Zenon
<1>10. \A u \in Threads : last'[u] # last[u] =>
         /\ u = t /\ last'[u].flow = call[t].flow /\ last'[u].packet = call[t].packet
         /\ last'[u].answer = answer
  BY <1>3, <1>8, Zenon
<1> QED
  BY <1>1, <1>2, <1>4, <1>9, <1>10, ZenonT(60) DEF Inspected

LEMMA LockInspected ==
    ASSUME Typed, NEW t \in Threads, Lock(t)
    PROVE  call[t] # Idle /\ Inspected(t)
<1> DEFINE old == records[call[t].flow]
           held == [old EXCEPT !.mu = TRUE]
           flow == Counted(held)
<1>1. call[t] # Idle /\ call[t].pc = "lock"
  BY DEF Lock, Idle
<1>2. call[t] \in CallType /\ call[t].flow <= Len(records) /\ records \in Seq(FlowType)
  BY <1>1 DEF Typed
<1>3. old \in FlowType
  BY <1>2 DEF CallType
<1>4. /\ held \in FlowType /\ SameTimes(old, held)
      /\ held.policy = old.policy /\ held.trigger = old.trigger
  BY <1>3, LockedFields, SMTT(60)
<1>5. /\ flow \in FlowType /\ SameTimes(held, flow)
      /\ flow.policy = held.policy /\ flow.trigger = held.trigger
  <2> HIDE DEF held
  <2>1. flow \in FlowType
    BY <1>4 DEF Counted, FlowType
  <2> QED
    BY <1>4, <2>1, CountedFields, Zenon
<1>6. \/ Return(t, flow, flow.policy)
      \/ Return(t, flow, NoMatch)
      \/ /\ records' = [records EXCEPT ![call[t].flow] = flow]
         /\ call' = [call EXCEPT ![t].pc = "rules"]
         /\ UNCHANGED <<load, now, rules, flows, calls, last>>
  BY SMTT(60) DEF Lock
<1> HIDE DEF held, flow
<1>7. flow.policy \in Answers /\ NoMatch \in Answers
  BY <1>5, Zenon DEF FlowType, Answers
<1>8. /\ Leaves(old, flow, call[t].packet, flow.policy)
      /\ Leaves(old, flow, call[t].packet, NoMatch)
  BY <1>4, <1>5, ZenonT(60) DEF Leaves, SameTimes
<1>9. CASE Return(t, flow, flow.policy) \/ Return(t, flow, NoMatch)
  BY <1>1, <1>5, <1>7, <1>8, <1>9, ReturnInspected, Zenon
<1>10. CASE /\ records' = [records EXCEPT ![call[t].flow] = flow]
            /\ call' = [call EXCEPT ![t].pc = "rules"]
            /\ UNCHANGED <<load, now, rules, flows, calls, last>>
  <2>1. /\ call'[t].flow = call[t].flow /\ call'[t].packet = call[t].packet
        /\ \A u \in Threads \ {t} : call'[u] = call[u]
    BY <1>2, <1>10 DEF Typed, CallType
  <2>2. \A u \in Threads : call'[u] # Idle =>
          call[u] # Idle /\ call'[u].flow = call[u].flow /\ call'[u].packet = call[u].packet
    BY <1>1, <2>1, ZenonT(60)
  <2>3. \A u \in Threads : last'[u] = last[u]
    BY <1>10
  <2> QED
    BY <1>1, <1>5, <1>7, <1>8, <1>10, <2>2, <2>3, ZenonT(60) DEF Inspected
<1> QED
  BY <1>6, <1>9, <1>10

LEMMA DecideInspected ==
    ASSUME IInv, NEW t \in Threads, Decide(t)
    PROVE  call[t] # Idle /\ Inspected(t)
<1> DEFINE old == records[call[t].flow]
           p == call[t].packet
           answer == RunRules(DirectionLocked(old, p), p)
           flow == [old EXCEPT !.policy = answer, !.ran = @ + 1, !.trigger = p]
<1>1. /\ call[t] # Idle /\ call[t] \in CallType /\ call[t].flow \in 1..Len(records)
      /\ DirectionLocked(old, p) \in Directions /\ answer \in Answers /\ flow \in FlowType
      /\ old.policy = NoMatch /\ flow.policy = answer /\ Return(t, flow, answer)
  BY DecideRecord, ZenonT(60)
<1>2. Typed /\ rules \in Seq(Rules) /\ records \in Seq(FlowType)
  BY Zenon DEF IInv, Typed
<1>3. old \in FlowType /\ p \in Packets
  BY <1>1, <1>2 DEF CallType
<1>4. answer \in RuleAnswers(p) /\ InForce(answer, p)
  BY <1>1, <1>2, <1>3, RunRulesAnswers
<1> HIDE DEF answer, old, p
<1>5. SameTimes(old, flow) /\ flow.trigger = p
  BY <1>3 DEF FlowType, SameTimes
<1> HIDE DEF flow
<1>6. Leaves(old, flow, p, answer)
  BY <1>1, <1>4, <1>5, ZenonT(60) DEF Leaves
<1> QED
  BY <1>1, <1>2, <1>6, ReturnInspected, ZenonT(60) DEF old, p

\* getFlow makes a record for packet p, whose flow has none or a stale one.
Makes(p) ==
    /\ flows[FlowHash(p)] = 0 \/ Stale(records[flows[FlowHash(p)]])
    /\ Len(records') = Len(records) + 1
    /\ \A i \in 1..Len(records) : records'[i] = records[i]
    /\ flows'[FlowHash(p)] = Len(records')
    /\ LET new == records'[Len(records')]
       IN  /\ RecordHash(new) = FlowHash(p)
           /\ new.created = now /\ new.found = now /\ new.updated = now
           /\ new.policy = NoMatch /\ new.trigger = p

\* getFlow finds the record of the flow of packet p.
Finds(p) ==
    LET at == flows[FlowHash(p)]
    IN  /\ at \in 1..Len(records) /\ flows'[FlowHash(p)] = at
        /\ Len(records') = Len(records)
        /\ \A i \in 1..Len(records) : i # at => records'[i] = records[i]
        /\ RecordHash(records'[at]) = RecordHash(records[at])
        /\ records'[at].found = now /\ records'[at].updated = now
        /\ records'[at].created = records[at].created
        /\ records'[at].policy = records[at].policy
        /\ records'[at].trigger = records[at].trigger

LEMMA GetFlowStep ==
    ASSUME Typed, NEW t \in Threads, NEW p \in Work.packets, GetFlow(t, p)
    PROVE  /\ FlowHash(p) \in Hashes /\ p \in Packets
           /\ UNCHANGED <<load, now, last>>
           /\ \A h \in Hashes : h # FlowHash(p) => flows'[h] = flows[h]
           /\ call'[t].flow = flows'[FlowHash(p)] /\ call'[t].packet = p
           /\ \A u \in Threads \ {t} : call'[u] = call[u]
           /\ Makes(p) \/ Finds(p)
<1> DEFINE fh == FlowHash(p)
           fresh == flows[fh] = 0 \/ Stale(records[flows[fh]])
           flow == IF fresh THEN Len(records) + 1 ELSE flows[fh]
           made == Touched(NewDPIFlow(p))
           found == [Touched(records[flow]) EXCEPT !.found = now]
           begun == [pc |-> "lock", flow |-> flow, packet |-> p, known |-> Len(rules)]
<1>1. /\ records' = IF fresh THEN Append(records, made) ELSE [records EXCEPT ![flow] = found]
      /\ flows' = [flows EXCEPT ![fh] = flow] /\ call' = [call EXCEPT ![t] = begun]
      /\ UNCHANGED <<load, now, last>>
  BY DEF GetFlow
<1>2. p \in Packets /\ fh \in Hashes
  BY WorkOK, SMTT(60) DEF Hashes
<1>3. /\ records \in Seq(FlowType) /\ now \in Nat
      /\ flows \in [Hashes -> Nat] /\ \A h \in Hashes : flows[h] <= Len(records)
      /\ call \in [Threads -> CallType \cup {Idle}]
  BY Zenon DEF Typed
<1>4. begun.flow = flow /\ begun.packet = p
  BY Zenon
<1>5. /\ RecordHash(made) = fh /\ made.created = now /\ made.found = now /\ made.updated = now
      /\ made.policy = NoMatch /\ made.trigger = p
  BY DEF RecordHash, FlowHash, Touched, NewDPIFlow
<1> HIDE DEF fh, fresh, made, begun, flow
<1>6. flows'[fh] = flow /\ \A h \in Hashes : h # fh => flows'[h] = flows[h]
  BY <1>1, <1>2, <1>3
<1>7. call'[t] = begun /\ \A u \in Threads \ {t} : call'[u] = call[u]
  BY <1>1, <1>3
<1>8. CASE fresh
  <2>1. flow = Len(records) + 1 /\ records' = Append(records, made)
    BY <1>1, <1>8 DEF flow
  <2>2. /\ Len(records') = Len(records) + 1 /\ records'[Len(records) + 1] = made
        /\ \A i \in 1..Len(records) : records'[i] = records[i]
    BY <1>3, <2>1
  <2>3. Makes(p)
    BY <1>5, <1>6, <1>8, <2>1, <2>2, ZenonT(60) DEF Makes, fh, fresh
  <2> QED
    BY <1>1, <1>2, <1>4, <1>6, <1>7, <2>3 DEF fh
<1>9. CASE ~fresh
  <2>1. flow = flows[fh] /\ records' = [records EXCEPT ![flow] = found]
    BY <1>1, <1>9 DEF flow
  <2>2. flow \in 1..Len(records)
    BY <1>2, <1>3, <1>9, <2>1, SMTT(60) DEF fresh
  <2>3. records[flow] \in FlowType
    BY <1>3, <2>2
  <2>4. /\ RecordHash(found) = RecordHash(records[flow]) /\ found.found = now
        /\ found.updated = now /\ found.created = records[flow].created
        /\ found.policy = records[flow].policy /\ found.trigger = records[flow].trigger
    BY <2>3, ZenonT(60) DEF FlowType, Touched, RecordHash
  <2> HIDE DEF found
  <2>5. /\ Len(records') = Len(records) /\ records'[flow] = found
        /\ \A i \in 1..Len(records) : i # flow => records'[i] = records[i]
    BY <1>3, <2>1, <2>2
  <2>6. Finds(p)
    BY <1>6, <2>1, <2>2, <2>4, <2>5, ZenonT(60) DEF Finds, fh
  <2> QED
    BY <1>1, <1>2, <1>4, <1>6, <1>7, <2>6, Zenon DEF fh
<1> QED
  BY <1>8, <1>9, Zenon

\* The times of the records are numbers.
LEMMA TimesTyped ==
    ASSUME Typed
    PROVE  /\ now \in Nat /\ Len(records) \in Nat /\ MaxSilence \in Nat
           /\ \A i \in 1..Len(records) : /\ records[i] \in FlowType /\ records[i].created \in Nat
                                         /\ records[i].found \in Nat /\ records[i].updated \in Nat
           /\ \A h \in Hashes : flows[h] \in 0..Len(records)
<1>1. now \in Nat /\ records \in Seq(FlowType) /\ Len(records) \in Nat /\ MaxSilence \in Nat
  <2>1. now \in Nat /\ records \in Seq(FlowType)
    BY Zenon DEF Typed
  <2> QED
    BY <2>1, EngineAssumption
<1>2. \A i \in 1..Len(records) : records[i] \in FlowType
  BY <1>1
<1>3. \A h \in Hashes : flows[h] \in 0..Len(records)
  BY <1>1 DEF Typed
<1> QED
  BY <1>1, <1>2, <1>3, ZenonT(60) DEF FlowType

\* A new record comes long after the others of its flow.
LEMMA DatedMakes ==
    ASSUME Typed, Dated, NEW p \in Packets, FlowHash(p) \in Hashes, Makes(p),
           UNCHANGED <<load, now>>,
           \A h \in Hashes : h # FlowHash(p) => flows'[h] = flows[h]
    PROVE  Dated'
<1> DEFINE fh == FlowHash(p)
           n == Len(records)
<1>1. /\ now \in Nat /\ n \in Nat /\ MaxSilence \in Nat
      /\ \A i \in 1..n : /\ records[i].created \in Nat /\ records[i].found \in Nat
                         /\ records[i].updated \in Nat
      /\ \A h \in Hashes : flows[h] \in 0..n
  BY TimesTyped, Zenon
<1>2. Hashes' = Hashes
  BY WorkOK, Zenon
<1>3. /\ flows[fh] = 0 \/ Stale(records[flows[fh]])
      /\ Len(records') = n + 1 /\ \A i \in 1..n : records'[i] = records[i]
      /\ flows'[fh] = n + 1
      /\ RecordHash(records'[n + 1]) = fh
      /\ records'[n + 1].created = now /\ records'[n + 1].found = now
      /\ records'[n + 1].updated = now
  BY Zenon DEF Makes
<1>4. /\ \A h \in Hashes : flows[h] # 0 => RecordHash(records[flows[h]]) = h
      /\ \A h \in Hashes : \A i \in 1..n : RecordHash(records[i]) = h => i <= flows[h]
      /\ \A i \in 1..n : records[i].updated = records[i].found /\ records[i].created <= now
      /\ \A i, j \in 1..n : i < j /\ RecordHash(records[i]) = RecordHash(records[j])
                            => records[j].created - records[i].found > MaxSilence
  BY ZenonT(60) DEF Dated
<1> HIDE DEF fh, n
<1>5. ASSUME NEW i \in 1..n, RecordHash(records[i]) = fh
      PROVE  now - records[i].found > MaxSilence
  <2>1. fh \in Hashes
    BY SMTT(60) DEF fh
  <2>2. i <= flows[fh] /\ flows[fh] \in 1..n
    BY <1>1, <1>4, <1>5, <2>1, SMTT(60)
  <2>3. now - records[flows[fh]].updated > MaxSilence
    BY <1>3, <2>2, SMTT(60) DEF Stale
  <2>4. CASE i = flows[fh]
    BY <1>4, <2>3, <2>4, Zenon
  <2>5. CASE i < flows[fh]
    <3>1. RecordHash(records[flows[fh]]) = fh
      BY <1>4, <2>1, <2>2, SMTT(60)
    <3>2. records[flows[fh]].created - records[i].found > MaxSilence
      BY <1>4, <1>5, <2>2, <2>5, <3>1, Zenon
    <3>3. records[flows[fh]].created <= now
      BY <1>4, <2>2, Zenon
    <3>4. records[flows[fh]].created \in Nat /\ records[i].found \in Nat
      BY <1>1, <2>2, Zenon
    <3> QED
      BY <1>1, <3>2, <3>3, <3>4, SMTT(60)
  <2> QED
    BY <1>1, <2>2, <2>4, <2>5, SMTT(60)
<1>6. ASSUME NEW h \in Hashes
      PROVE  /\ flows'[h] # 0 => RecordHash(records'[flows'[h]]) = h
             /\ \A i \in 1..(n + 1) : RecordHash(records'[i]) = h => i <= flows'[h]
  <2>1. CASE h = fh
    BY <1>1, <1>3, <2>1, SMTT(60)
  <2>2. CASE h # fh
    <3>1. flows'[h] = flows[h] /\ flows[h] \in 0..n
      BY <1>1, <2>2, Zenon DEF fh
    <3>2. flows'[h] # 0 => RecordHash(records'[flows'[h]]) = h
      BY <1>1, <1>3, <1>4, <3>1, SMTT(60)
    <3>3. ASSUME NEW i \in 1..(n + 1), RecordHash(records'[i]) = h PROVE i <= flows'[h]
      <4>1. i \in 1..n
        BY <1>1, <1>3, <2>2, <3>3, SMTT(60)
      <4> QED
        BY <1>3, <1>4, <3>1, <3>3, <4>1, Zenon
    <3> QED
      BY <3>2, <3>3, Zenon
  <2> QED
    BY <2>1, <2>2, Zenon
<1>7. \A i \in 1..(n + 1) : records'[i].updated = records'[i].found /\ records'[i].created <= now
  BY <1>1, <1>3, <1>4, SMTT(60)
<1>8. ASSUME NEW i \in 1..(n + 1), NEW j \in 1..(n + 1), i < j,
             RecordHash(records'[i]) = RecordHash(records'[j])
      PROVE  records'[j].created - records'[i].found > MaxSilence
  <2>1. i \in 1..n /\ records'[i] = records[i]
    BY <1>1, <1>3, <1>8, SMTT(60)
  <2>2. CASE j \in 1..n
    BY <1>3, <1>4, <1>8, <2>1, <2>2, Zenon
  <2>3. CASE j = n + 1
    BY <1>3, <1>5, <1>8, <2>1, <2>3, Zenon
  <2> QED
    BY <1>1, <2>2, <2>3
<1> QED
  BY <1>2, <1>3, <1>6, <1>7, <1>8, Zenon DEF Dated

\* Finding the last record of a flow is later than anything that was known of it.
LEMMA DatedFinds ==
    ASSUME Typed, Dated, NEW p \in Packets, FlowHash(p) \in Hashes, Finds(p),
           UNCHANGED <<load, now>>,
           \A h \in Hashes : h # FlowHash(p) => flows'[h] = flows[h]
    PROVE  Dated'
<1> DEFINE fh == FlowHash(p)
           at == flows[fh]
           n == Len(records)
<1>1. now \in Nat /\ n \in Nat /\ \A h \in Hashes : flows[h] \in 0..n
  BY TimesTyped, SMTT(60)
<1>2. Hashes' = Hashes
  BY WorkOK
<1>3. /\ at \in 1..n /\ flows'[fh] = at /\ Len(records') = n
      /\ \A i \in 1..n : i # at => records'[i] = records[i]
      /\ RecordHash(records'[at]) = RecordHash(records[at])
      /\ records'[at].found = now /\ records'[at].updated = now
      /\ records'[at].created = records[at].created
  BY ZenonT(60) DEF Finds
<1>4. /\ \A h \in Hashes : flows[h] # 0 => RecordHash(records[flows[h]]) = h
      /\ \A h \in Hashes : \A i \in 1..n : RecordHash(records[i]) = h => i <= flows[h]
      /\ \A i \in 1..n : records[i].updated = records[i].found /\ records[i].created <= now
      /\ \A i, j \in 1..n : i < j /\ RecordHash(records[i]) = RecordHash(records[j])
                            => records[j].created - records[i].found > MaxSilence
  BY ZenonT(60) DEF Dated
<1>5. fh \in Hashes
  BY SMTT(60)
<1>6. \A h \in Hashes : flows'[h] = flows[h]
  BY <1>3, Zenon
<1>7. RecordHash(records[at]) = fh /\ \A j \in 1..n : RecordHash(records[j]) = fh => j <= at
  BY <1>1, <1>3, <1>4, <1>5, SMTT(60)
<1> HIDE DEF fh, n, at
<1>8. \A i \in 1..n : RecordHash(records'[i]) = RecordHash(records[i])
                      /\ records'[i].created = records[i].created
  BY <1>3, Zenon
<1>9. \A h \in Hashes : /\ flows'[h] # 0 => RecordHash(records'[flows'[h]]) = h
                        /\ \A i \in 1..n : RecordHash(records'[i]) = h => i <= flows'[h]
  BY <1>1, <1>4, <1>6, <1>8, SMTT(60)
<1>10. \A i \in 1..n : records'[i].updated = records'[i].found /\ records'[i].created <= now
  BY <1>3, <1>4, <1>8, Zenon
<1>11. ASSUME NEW i \in 1..n, NEW j \in 1..n, i < j,
              RecordHash(records'[i]) = RecordHash(records'[j])
       PROVE  records'[j].created - records'[i].found > MaxSilence
  <2>1. RecordHash(records[i]) = RecordHash(records[j])
    BY <1>8, <1>11, Zenon
  <2>2. i # at
    BY <1>1, <1>3, <1>7, <1>11, <2>1, SMTT(60)
  <2> QED
    BY <1>3, <1>4, <1>8, <1>11, <2>1, <2>2, Zenon
<1> QED
  BY <1>2, <1>3, <1>9, <1>10, <1>11, Zenon DEF Dated, n

\* Records that keep their times stay in order while the clock goes on.
LEMMA DatedKept ==
    ASSUME Typed, Dated, UNCHANGED <<load, flows>>, now' \in Nat, now <= now',
           Len(records') = Len(records),
           \A i \in 1..Len(records) : SameTimes(records[i], records'[i])
    PROVE  Dated'
<1>1. /\ now \in Nat /\ Len(records) \in Nat /\ \A h \in Hashes : flows[h] \in 0..Len(records)
      /\ \A i \in 1..Len(records) : records[i].created \in Nat
  BY TimesTyped, Zenon
<1>2. Hashes' = Hashes
  BY WorkOK, Zenon
<1>3. \A i \in 1..Len(records) :
        /\ RecordHash(records'[i]) = RecordHash(records[i])
        /\ records'[i].created = records[i].created /\ records'[i].found = records[i].found
        /\ records'[i].updated = records[i].updated
  BY SameHash, ZenonT(60) DEF SameTimes
<1>4. \A h \in Hashes :
        /\ flows'[h] # 0 => RecordHash(records'[flows'[h]]) = h
        /\ \A i \in 1..Len(records') : RecordHash(records'[i]) = h => i <= flows'[h]
  <2>1. flows' = flows
    BY Zenon
  <2>2. \A h \in Hashes : flows[h] # 0 => flows[h] \in 1..Len(records)
    BY <1>1
  <2> QED
    BY <1>3, <2>1, <2>2, Zenon DEF Dated
<1>5. \A i \in 1..Len(records') :
        records'[i].updated = records'[i].found /\ records'[i].created <= now'
  <2> SUFFICES ASSUME NEW i \in 1..Len(records)
               PROVE  records'[i].updated = records'[i].found /\ records'[i].created <= now'
    BY Zenon
  <2>1. records[i].updated = records[i].found /\ records[i].created <= now
    BY Zenon DEF Dated
  <2>2. records[i].created <= now'
    BY <1>1, <2>1
  <2> QED
    BY <1>3, <2>1, <2>2, Zenon
<1>6. \A i, j \in 1..Len(records') :
        i < j /\ RecordHash(records'[i]) = RecordHash(records'[j])
        => records'[j].created - records'[i].found > MaxSilence
  BY <1>3, Zenon DEF Dated
<1> QED
  BY <1>2, <1>4, <1>5, <1>6, Zenon DEF Dated

\* What a step of a call of goroutine t does to the records: it leaves its record as
\* new, and what it answers, if it returns, is answer.
Rewrites(t, new, answer) ==
    /\ call[t].flow \in 1..Len(records) /\ Len(records') = Len(records)
    /\ records'[call[t].flow] = new
    /\ \A i \in 1..Len(records) : i # call[t].flow => records'[i] = records[i]
    /\ Leaves(records[call[t].flow], new, call[t].packet, answer)
    /\ \A u \in Threads : last'[u] # last[u] =>
         /\ u = t /\ last'[u].flow = call[t].flow /\ last'[u].packet = call[t].packet
         /\ last'[u].answer = answer

LEMMA InspectedRecords ==
    ASSUME Typed, NEW t \in Threads, call[t] # Idle, Inspected(t)
    PROVE  \E new \in FlowType, answer \in Answers : Rewrites(t, new, answer)
<1>1. PICK new \in FlowType, answer \in Answers :
        /\ records' = [records EXCEPT ![call[t].flow] = new]
        /\ Leaves(records[call[t].flow], new, call[t].packet, answer)
        /\ \A u \in Threads : last'[u] # last[u] =>
             /\ u = t /\ last'[u].flow = call[t].flow /\ last'[u].packet = call[t].packet
             /\ last'[u].answer = answer
  BY Zenon DEF Inspected
<1>2. /\ call[t] \in CallType /\ call[t].flow <= Len(records) /\ records \in Seq(FlowType)
  BY Zenon DEF Typed
<1>3. call[t].flow \in 1..Len(records)
  BY <1>2, SMTT(60) DEF CallType
<1>4. /\ Len(records') = Len(records) /\ records'[call[t].flow] = new
      /\ \A i \in 1..Len(records) : i # call[t].flow => records'[i] = records[i]
  BY <1>1, <1>2, <1>3, SMTT(60)
<1>5. Rewrites(t, new, answer)
  BY <1>1, <1>3, <1>4, Zenon DEF Rewrites
<1> QED
  BY <1>5, Zenon

LEMMA DatedInit == Init => Dated
<1> SUFFICES ASSUME Init PROVE Dated
  OBVIOUS
<1>1. Len(records) = 0 /\ \A h \in Hashes : flows[h] = 0
  BY SMTT(60) DEF Init
<1>2. 1..Len(records) = {}
  BY <1>1
<1> QED
  BY <1>1, <1>2, Zenon DEF Dated

LEMMA DatedStep ==
    ASSUME IInv, Dated, [Next]_vars
    PROVE  Dated'
<1>0. Typed /\ now \in Nat /\ Work.threads \subseteq Threads
  BY WorkOK, Zenon DEF IInv, Typed
<1>1. ASSUME UNCHANGED <<load, flows, records>>, now' = now \/ now' = now + 1
      PROVE  Dated'
  <2>1. \A i \in 1..Len(records) : SameTimes(records[i], records'[i])
    BY <1>1, SMTT(60) DEF SameTimes
  <2>2. now' \in Nat /\ now <= now'
    BY <1>0, <1>1
  <2> QED
    BY <1>0, <1>1, <2>1, <2>2, DatedKept, SMTT(60)
<1>2. CASE Elapse
  BY <1>1, <1>2 DEF Elapse
<1>3. CASE UNCHANGED vars
  BY <1>1, <1>3 DEF vars
<1>4. CASE \E rule \in Work.ruleSet : AddRule(rule)
  BY <1>1, <1>4, SMTT(60) DEF AddRule
<1>5. ASSUME NEW t \in Work.threads, NEW p \in Work.packets, InspectDissectFails(t, p)
      PROVE  Dated'
  BY <1>1, <1>5, SMTT(60) DEF InspectDissectFails
<1>6. ASSUME NEW t \in Threads, NEW p \in Work.packets, GetFlow(t, p)
      PROVE  Dated'
  <2>1. /\ FlowHash(p) \in Hashes /\ p \in Packets /\ UNCHANGED <<load, now>>
        /\ \A h \in Hashes : h # FlowHash(p) => flows'[h] = flows[h]
        /\ Makes(p) \/ Finds(p)
    BY <1>0, <1>6, GetFlowStep, Zenon
  <2> QED
    BY <1>0, <2>1, DatedMakes, DatedFinds, Zenon
<1>7. ASSUME NEW t \in Threads, Lock(t) \/ Decide(t)
      PROVE  Dated'
  <2>1. call[t] # Idle /\ Inspected(t)
    BY <1>0, <1>7, LockInspected, DecideInspected, SMTT(60)
  <2>2. UNCHANGED <<load, now, flows>>
    BY <2>1, Zenon DEF Inspected
  <2>3. /\ Len(records') = Len(records)
        /\ \A i \in 1..Len(records) : SameTimes(records[i], records'[i])
    <3>1. \A i \in 1..Len(records) : SameTimes(records[i], records[i])
      BY SMTT(60) DEF SameTimes
    <3>2. PICK new \in FlowType, answer \in Answers : Rewrites(t, new, answer)
      BY <1>0, <2>1, InspectedRecords, Zenon
    <3> QED
      BY <3>1, <3>2, Zenon DEF Rewrites, Leaves
  <2>4. now <= now'
    BY <1>0, <2>2
  <2> QED
    BY <1>0, <2>2, <2>3, <2>4, DatedKept, SMTT(60)
<1> QED
  BY <1>0, <1>2, <1>3, <1>4, <1>5, <1>6, <1>7, ZenonT(60) DEF Next, Inspect

\* getFlow, dpiengine.go:139: for every number of goroutines, packets and rules, a
\* record is only replaced after more than maxSilence without a packet of its flow.
THEOREM FlowsAreKept == Spec => []OnlySilentFlowsForgotten
<1>1. Typed /\ Dated => OnlySilentFlowsForgotten
  <2> SUFFICES ASSUME Typed, Dated, NEW i \in DOMAIN records, NEW j \in DOMAIN records, i < j,
                      records[i].protocol = records[j].protocol,
                      {records[i].sourcePort, records[i].destPort} =
                        {records[j].sourcePort, records[j].destPort}
               PROVE  records[j].created - records[i].found > MaxSilence
    BY ZenonT(60) DEF OnlySilentFlowsForgotten
  <2>1. RecordHash(records[i]) = RecordHash(records[j])
    BY Zenon DEF RecordHash
  <2>2. DOMAIN records = 1..Len(records)
    BY DEF Typed
  <2> QED
    BY <2>1, <2>2, Zenon DEF Dated
<1>2. IInv => Typed
  BY DEF IInv
<1>3. IInv /\ Dated /\ [Next]_vars => Dated'
  BY DatedStep
<1> QED
  BY <1>1, <1>2, <1>3, DatedInit, Invariant, PTL DEF Spec

-----------------------------------------------------------------------------
(* What the rules make up *)

\* The part of SpoofedContinuesStream that is about segment s and the packet p that
\* made a rule match.
Continues(s, p) ==
    /\ <<s.srcIP, s.srcPort>> = <<p.dstIP, p.dstPort>>
    /\ <<s.dstIP, s.dstPort>> = <<p.srcIP, p.srcPort>>
    /\ s.protocol = "TCP" => s.seq = p.ack
    /\ s.protocol = "UDP" =>
         DNSParseResponse(p.payload.dns, s.payload.dns).err # "server misbehaving"
    /\ FlowHash(s) = FlowHash(p)

Fits(answer, p) ==
    answer # NoMatch => \A i \in DOMAIN answer.spoofed : Continues(answer.spoofed[i], p)

\* The reflected packet goes back to where p comes from.
LEMMA ReflectedFields ==
    ASSUME NEW p, PacketFields \subseteq DOMAIN p
    PROVE  LET s == Reflected(p)
           IN  /\ DOMAIN s = DOMAIN p /\ s.protocol = p.protocol
               /\ s.srcIP = p.dstIP /\ s.srcPort = p.dstPort
               /\ s.dstIP = p.srcIP /\ s.dstPort = p.srcPort
  BY SMTT(60) DEF Reflected, PacketFields

LEMMA ReflectSegmentFields ==
    ASSUME NEW p, PacketFields \subseteq DOMAIN p, NEW flags, NEW payload
    PROVE  LET s == ReflectSegment(p, flags, payload)
           IN  /\ s.protocol = p.protocol /\ s.seq = p.ack
               /\ s.srcIP = p.dstIP /\ s.srcPort = p.dstPort
               /\ s.dstIP = p.srcIP /\ s.dstPort = p.srcPort
<1> DEFINE r == Reflected(p)
<1>1. /\ DOMAIN r = DOMAIN p /\ r.protocol = p.protocol
      /\ r.srcIP = p.dstIP /\ r.srcPort = p.dstPort
      /\ r.dstIP = p.srcIP /\ r.dstPort = p.srcPort
  BY ReflectedFields, Zenon
<1> HIDE DEF r
<1> QED
  BY <1>1, SMTT(60) DEF ReflectSegment, PacketFields, r

LEMMA ReflectDatagramFields ==
    ASSUME NEW p, PacketFields \subseteq DOMAIN p, NEW payload
    PROVE  LET s == ReflectDatagram(p, payload)
           IN  /\ s.protocol = p.protocol /\ s.payload = payload
               /\ s.srcIP = p.dstIP /\ s.srcPort = p.dstPort
               /\ s.dstIP = p.srcIP /\ s.dstPort = p.srcPort
<1> DEFINE r == Reflected(p)
<1>1. /\ DOMAIN r = DOMAIN p /\ r.protocol = p.protocol
      /\ r.srcIP = p.dstIP /\ r.srcPort = p.dstPort
      /\ r.dstIP = p.srcIP /\ r.dstPort = p.srcPort
  BY ReflectedFields, Zenon
<1> HIDE DEF r
<1> QED
  BY <1>1, SMTT(60) DEF ReflectDatagram, PacketFields, r

\* The two ports of a flow, whatever their order.
LEMMA HashReflected ==
    ASSUME NEW s, NEW p, s.protocol = p.protocol, s.srcPort = p.dstPort, s.dstPort = p.srcPort
    PROVE  FlowHash(s) = FlowHash(p)
<1>1. {s.srcPort, s.dstPort} = {p.srcPort, p.dstPort}
  BY Zenon
<1> QED
  BY <1>1, ZenonT(60) DEF FlowHash

\* A spoofed segment continues the stream.
LEMMA SegmentContinues ==
    ASSUME NEW p, PacketFields \subseteq DOMAIN p, p.protocol = "TCP", NEW flags, NEW payload
    PROVE  Continues(ReflectSegment(p, flags, payload), p)
<1> DEFINE s == ReflectSegment(p, flags, payload)
<1>1. /\ s.protocol = p.protocol /\ s.seq = p.ack
      /\ s.srcIP = p.dstIP /\ s.srcPort = p.dstPort
      /\ s.dstIP = p.srcIP /\ s.dstPort = p.srcPort
  BY ReflectSegmentFields, SMTT(60)
<1> HIDE DEF s
<1>2. FlowHash(s) = FlowHash(p)
  BY <1>1, HashReflected, Zenon
<1>3. s.protocol # "UDP"
  BY <1>1, Zenon
<1>4. Continues(s, p)
  BY <1>1, <1>2, <1>3, ZenonT(60) DEF Continues
<1> QED
  BY <1>4, SMTT(60) DEF s

\* DNSParseResponse takes the message that SpoofDNSResponse makes up.
LEMMA ResponseIsTaken ==
    ASSUME NEW query, MessageFields \subseteq DOMAIN query, NEW q0, NEW found, NEW rr
    PROVE  DNSParseResponse(query, NewResponse(query, q0, found, rr)).err # "server misbehaving"
<1> DEFINE reply == SetReply(query)
           resp == NewResponse(query, q0, found, rr)
<1>1. /\ DOMAIN reply = DOMAIN query /\ reply.id = query.id /\ reply.response = TRUE
      /\ reply.rcode = "success"
  BY SMTT(60) DEF SetReply, MessageFields
<1> HIDE DEF reply
<1>2. resp.id = query.id /\ resp.response = TRUE /\ resp.rcode \in {"success", "name error"}
  <2>1. CASE ~found
    <3>1. resp = [reply EXCEPT !.rcode = "name error"]
      BY <2>1 DEF NewResponse, SetRcode, reply
    <3> HIDE DEF resp
    <3> QED
      BY <1>1, <3>1, Zenon DEF MessageFields
  <2>2. CASE found
    <3>1. PICK answer : resp = [reply EXCEPT !.answer = answer]
      BY <2>2, Zenon DEF NewResponse, reply
    <3> HIDE DEF resp
    <3> QED
      BY <1>1, <3>1, Zenon DEF MessageFields
  <2> QED
    BY <2>1, <2>2, Zenon
<1> HIDE DEF resp
<1>3. RelatedResponse(query, resp)
  BY <1>2, ZenonT(60) DEF RelatedResponse
<1>4. Failed("no such host").err = "no such host" /\ Failed("no answer").err = "no answer"
  BY DEF Failed
<1>5. DNSParseResponse(query, resp).err \in {"no such host", "no answer", "nil"}
  BY <1>2, <1>3, <1>4, ZenonT(60) DEF DNSParseResponse
<1> QED
  BY <1>5, Zenon DEF resp

\* A spoofed response goes to who has asked, who takes it.
LEMMA DatagramContinues ==
    ASSUME NEW p, PacketFields \subseteq DOMAIN p, p.protocol = "UDP",
           MessageFields \subseteq DOMAIN p.payload.dns, NEW q0, NEW found, NEW rr
    PROVE  Continues(ReflectDatagram(p, DNS(NewResponse(p.payload.dns, q0, found, rr))), p)
<1> DEFINE resp == NewResponse(p.payload.dns, q0, found, rr)
           s == ReflectDatagram(p, DNS(resp))
<1>1. /\ s.protocol = p.protocol /\ s.payload = DNS(resp)
      /\ s.srcIP = p.dstIP /\ s.srcPort = p.dstPort
      /\ s.dstIP = p.srcIP /\ s.dstPort = p.srcPort
  BY ReflectDatagramFields, ZenonT(60)
<1>2. DNSParseResponse(p.payload.dns, resp).err # "server misbehaving"
  BY ResponseIsTaken, ZenonT(60)
<1> HIDE DEF s, resp
<1>3. s.payload.dns = resp
  BY <1>1, SMTT(60) DEF DNS
<1>4. FlowHash(s) = FlowHash(p)
  BY <1>1, HashReflected, Zenon
<1>5. s.protocol # "TCP"
  BY <1>1
<1>6. Continues(s, p)
  BY <1>1, <1>2, <1>3, <1>4, <1>5, ZenonT(60) DEF Continues
<1> QED
  BY <1>6, SMTT(60) DEF s, resp

\* Whatever a rule answers for a packet continues the stream of that packet.
LEMMA FilterFits ==
    ASSUME NEW r \in Rules, NEW d, NEW p \in Packets
    PROVE  Fits(Filter(r, d, p), p)
<1>1. /\ r.kind \in RuleKinds /\ PacketFields \subseteq DOMAIN p
      /\ p.payload.dns # NotDNS => MessageFields \subseteq DOMAIN p.payload.dns
  BY EngineAssumption, ZenonT(60) DEF Rules, Packets
<1>2. Fits(NoMatch, p)
  BY DEF Fits
<1>3. Fits(DropPolicy, p) /\ Fits(ThrottlePolicy(r), p)
  <2>1. DropPolicy.spoofed = <<>> /\ ThrottlePolicy(r).spoofed = <<>>
    BY DEF DropPolicy, ThrottlePolicy
  <2> QED
    BY <2>1, SMTT(60) DEF Fits
<1>4. ASSUME NEW s, Continues(s, p) PROVE Fits(SpoofPolicy(s), p)
  <2>1. SpoofPolicy(s).spoofed = <<s>>
    BY Zenon DEF SpoofPolicy
  <2> QED
    BY <1>4, <2>1, SMTT(60) DEF Fits
<1>5. ASSUME NEW flags, NEW payload, p.protocol = "TCP"
      PROVE  Fits(SpoofPolicy(ReflectSegment(p, flags, payload)), p)
  BY <1>1, <1>4, <1>5, SegmentContinues, Zenon
<1>6. OffendingSNI(r, d, p) => p.protocol = "TCP"
  BY DEF OffendingSNI
<1>7. /\ ForServer(r, p) => p.protocol = "TCP"
      /\ OffendingString(r, d, p) => p.protocol = "TCP"
  BY Zenon DEF OffendingString, ForServer, MatchesDestination
<1>8. ASSUME NEW match, NEW policy, match => Fits(policy, p) PROVE Fits(Answer(match, policy), p)
  BY <1>2, <1>8, Zenon DEF Answer
<1>9. /\ Fits(DropTrafficForServerEndpoint(r, d, p), p)
      /\ Fits(DropTrafficForTLSSNI(r, d, p), p)
      /\ Fits(DropTrafficForString(r, d, p), p)
  BY <1>3, <1>8, Zenon DEF DropTrafficForServerEndpoint, DropTrafficForTLSSNI, DropTrafficForString
<1>10. /\ Fits(ThrottleTrafficForTLSSNI(r, d, p), p)
       /\ Fits(ThrottleTrafficForTCPEndpoint(r, d, p), p)
  BY <1>3, <1>8, ZenonT(60) DEF ThrottleTrafficForTLSSNI, ThrottleTrafficForTCPEndpoint
<1>11. /\ Fits(ResetTrafficForTLSSNI(r, d, p), p)
       /\ Fits(ResetTrafficForString(r, d, p), p)
  BY <1>5, <1>6, <1>7, <1>8, ZenonT(60) DEF ResetTrafficForTLSSNI, ResetTrafficForString
<1>12. /\ Fits(CloseConnectionForTLSSNI(r, d, p), p)
       /\ Fits(CloseConnectionForServerEndpoint(r, d, p), p)
       /\ Fits(CloseConnectionForString(r, d, p), p)
  BY <1>5, <1>6, <1>7, <1>8, ZenonT(60)
     DEF CloseConnectionForTLSSNI, CloseConnectionForServerEndpoint, CloseConnectionForString
<1>13. Fits(SpoofBlockpageForString(r, d, p), p)
  BY <1>5, <1>7, <1>8, ZenonT(60) DEF SpoofBlockpageForString
<1>14. Fits(SpoofDNSResponse(r, d, p), p)
  <2> DEFINE s == ReflectDatagram(p, DNS(SpoofedResponse(r, p.payload.dns)))
  <2>1. ASSUME p.protocol = "UDP", OffendingDomain(r, p) PROVE Fits(SpoofPolicy(s), p)
    <3>1. MessageFields \subseteq DOMAIN p.payload.dns
      BY <1>1, <2>1, Zenon DEF OffendingDomain
    <3>2. Continues(s, p)
      BY <1>1, <2>1, <3>1, DatagramContinues, ZenonT(60) DEF SpoofedResponse
    <3> QED
      BY <1>4, <3>2, SMTT(60)
  <2> QED
    BY <1>8, <2>1, ZenonT(60) DEF SpoofDNSResponse
<1> QED
  BY <1>1, <1>9, <1>10, <1>11, <1>12, <1>13, <1>14, SMTT(60) DEF Filter, RuleKinds

\* The policy of a record is for its trigger, and that is a packet of the flow.
TracedRecord(flow) ==
    Fits(flow.policy, flow.trigger) /\ FlowHash(flow.trigger) = RecordHash(flow)

\* What a goroutine answered is the policy of the record of its packet's flow.
TracedLast(mine, flow) ==
    /\ FlowHash(mine.packet) = RecordHash(flow)
    /\ mine.answer # NoMatch => flow.policy = mine.answer

Traced ==
    /\ \A i \in 1..Len(records) : TracedRecord(records[i])
    /\ \A t \in Threads :
         /\ call[t] # Idle => FlowHash(call[t].packet) = RecordHash(records[call[t].flow])
         /\ last[t] # Never => TracedLast(last[t], records[last[t].flow])

\* What the goroutines refer to are records.
LEMMA ReferencesTyped ==
    ASSUME Typed
    PROVE  /\ Len(records) \in Nat
           /\ \A t \in Threads : call[t] # Idle => /\ call[t].flow \in 1..Len(records)
                                                   /\ call[t].packet \in Packets
           /\ \A t \in Threads : last[t] # Never => last[t].flow \in 1..Len(records)
<1>1. Len(records) \in Nat
  <2>1. records \in Seq(FlowType)
    BY Zenon DEF Typed
  <2> QED
    BY <2>1
<1>2. \A t \in Threads : call[t] # Idle => call[t] \in CallType /\ call[t].flow <= Len(records)
  BY Zenon DEF Typed
<1>3. \A t \in Threads : last[t] # Never => last[t] \in LastType /\ last[t].flow <= Len(records)
  BY Zenon DEF Typed
<1> QED
  BY <1>1, <1>2, <1>3, SMTT(60) DEF CallType, LastType

LEMMA TracedInit == Init => Traced
<1> SUFFICES ASSUME Init PROVE Traced
  OBVIOUS
<1>1. Len(records) = 0 /\ \A t \in Threads : call[t] = Idle /\ last[t] = Never
  BY SMTT(60) DEF Init
<1>2. 1..Len(records) = {}
  BY <1>1
<1> QED
  BY <1>1, <1>2, Zenon DEF Traced

LEMMA TracedMakes ==
    ASSUME Typed, Traced, NEW t \in Threads, NEW p \in Packets, Makes(p), UNCHANGED last,
           call'[t].flow = flows'[FlowHash(p)], call'[t].packet = p,
           \A u \in Threads \ {t} : call'[u] = call[u]
    PROVE  Traced'
<1> DEFINE n == Len(records)
<1>1. /\ n \in Nat
      /\ \A u \in Threads : call[u] # Idle => call[u].flow \in 1..n
      /\ \A u \in Threads : last[u] # Never => last[u].flow \in 1..n
  BY ReferencesTyped, ZenonT(60)
<1>2. /\ Len(records') = n + 1 /\ \A i \in 1..n : records'[i] = records[i]
      /\ flows'[FlowHash(p)] = n + 1 /\ RecordHash(records'[n + 1]) = FlowHash(p)
      /\ records'[n + 1].policy = NoMatch /\ records'[n + 1].trigger = p
  BY Zenon DEF Makes
<1> HIDE DEF n
<1>3. TracedRecord(records'[n + 1])
  BY <1>2, ZenonT(60) DEF TracedRecord, Fits
<1>4. \A i \in 1..(n + 1) : TracedRecord(records'[i])
  <2>1. \A i \in 1..n : TracedRecord(records'[i])
    BY <1>2, Zenon DEF Traced, n
  <2> QED
    BY <1>1, <1>3, <2>1, SMTT(60)
<1>5. ASSUME NEW u \in Threads, call'[u] # Idle
      PROVE  FlowHash(call'[u].packet) = RecordHash(records'[call'[u].flow])
  <2>1. CASE u = t
    BY <1>2, <2>1, Zenon
  <2>2. CASE u # t
    BY <1>1, <1>2, <1>5, <2>2, ZenonT(60) DEF Traced
  <2> QED
    BY <2>1, <2>2, Zenon
<1>6. ASSUME NEW u \in Threads, last'[u] # Never
      PROVE  TracedLast(last'[u], records'[last'[u].flow])
  BY <1>1, <1>2, <1>6, ZenonT(60) DEF Traced
<1> QED
  BY <1>2, <1>4, <1>5, <1>6, ZenonT(60) DEF Traced

LEMMA TracedFinds ==
    ASSUME Typed, Dated, Traced, NEW t \in Threads, NEW p \in Packets, FlowHash(p) \in Hashes,
           Finds(p), UNCHANGED last,
           call'[t].flow = flows'[FlowHash(p)], call'[t].packet = p,
           \A u \in Threads \ {t} : call'[u] = call[u]
    PROVE  Traced'
<1> DEFINE n == Len(records)
           at == flows[FlowHash(p)]
<1>1. /\ n \in Nat
      /\ \A u \in Threads : call[u] # Idle => call[u].flow \in 1..n
      /\ \A u \in Threads : last[u] # Never => last[u].flow \in 1..n
  BY ReferencesTyped, Zenon
<1>2. /\ at \in 1..n /\ flows'[FlowHash(p)] = at /\ Len(records') = n
      /\ \A i \in 1..n : i # at => records'[i] = records[i]
      /\ RecordHash(records'[at]) = RecordHash(records[at])
      /\ records'[at].policy = records[at].policy
      /\ records'[at].trigger = records[at].trigger
  BY Zenon DEF Finds
<1>3. RecordHash(records[at]) = FlowHash(p)
  <2>1. at # 0
    BY <1>1, <1>2
  <2> QED
    BY <2>1, Zenon DEF Dated
<1> HIDE DEF n, at
<1>4. \A i \in 1..n : /\ RecordHash(records'[i]) = RecordHash(records[i])
                      /\ records'[i].policy = records[i].policy
                      /\ records'[i].trigger = records[i].trigger
  BY <1>2, Zenon
<1>5. \A i \in 1..n : TracedRecord(records'[i])
  <2>1. \A i \in 1..n : TracedRecord(records[i])
    BY ZenonT(60) DEF Traced, n
  <2> QED
    BY <1>4, <2>1, ZenonT(60) DEF TracedRecord
<1>6. ASSUME NEW u \in Threads, call'[u] # Idle
      PROVE  FlowHash(call'[u].packet) = RecordHash(records'[call'[u].flow])
  <2>1. CASE u = t
    BY <1>2, <1>3, <2>1, Zenon
  <2>2. CASE u # t
    <3>1. call'[u] = call[u] /\ call[u] # Idle /\ call[u].flow \in 1..n
      BY <1>1, <1>6, <2>2, Zenon
    <3>2. FlowHash(call[u].packet) = RecordHash(records[call[u].flow])
      BY <3>1, Zenon DEF Traced
    <3> QED
      BY <1>4, <3>1, <3>2, Zenon
  <2> QED
    BY <2>1, <2>2, Zenon
<1>7. ASSUME NEW u \in Threads, last'[u] # Never
      PROVE  TracedLast(last'[u], records'[last'[u].flow])
  <2>1. last'[u] = last[u] /\ last[u].flow \in 1..n /\ TracedLast(last[u], records[last[u].flow])
    BY <1>1, <1>7, ZenonT(60) DEF Traced
  <2> QED
    BY <1>4, <2>1, ZenonT(60) DEF TracedLast
<1> QED
  BY <1>2, <1>5, <1>6, <1>7, ZenonT(60) DEF Traced

LEMMA TracedInspected ==
    ASSUME Typed, Traced, NEW t \in Threads, call[t] # Idle, Inspected(t)
    PROVE  Traced'
<1> DEFINE n == Len(records)
           at == call[t].flow
           p == call[t].packet
           old == records[at]
<1>1. /\ n \in Nat /\ at \in 1..n /\ p \in Packets
      /\ \A u \in Threads : call[u] # Idle => call[u].flow \in 1..n
      /\ \A u \in Threads : last[u] # Never => last[u].flow \in 1..n
  BY ReferencesTyped
<1>0. PICK new \in FlowType, answer \in Answers : Rewrites(t, new, answer)
  BY InspectedRecords, Zenon
<1>2. /\ Len(records') = n /\ records'[at] = new
      /\ \A i \in 1..n : i # at => records'[i] = records[i]
      /\ Leaves(old, new, p, answer)
      /\ \A u \in Threads : last'[u] # last[u] =>
           /\ u = t /\ last'[u].flow = at /\ last'[u].packet = p /\ last'[u].answer = answer
  BY <1>0, Zenon DEF Rewrites
<1>3. \A u \in Threads : call'[u] # Idle =>
        call[u] # Idle /\ call'[u].flow = call[u].flow /\ call'[u].packet = call[u].packet
  BY Zenon DEF Inspected
<1>4. FlowHash(p) = RecordHash(old)
  BY Zenon DEF Traced
<1>5. TracedRecord(old)
  BY <1>1, Zenon DEF Traced
<1> HIDE DEF n, at, p, old
<1>6. RecordHash(new) = RecordHash(old)
  BY <1>2, SameHash, Zenon DEF Leaves
<1>7. /\ answer # NoMatch => new.policy = answer
      /\ \/ new.policy = old.policy /\ new.trigger = old.trigger
         \/ old.policy = NoMatch /\ new.policy \in RuleAnswers(p) /\ new.trigger = p
  BY <1>2, Zenon DEF Leaves
<1>8. \A policy \in RuleAnswers(p) : Fits(policy, p)
  <2>1. Fits(NoMatch, p)
    BY DEF Fits
  <2>2. \A d \in Directions : \A policy \in AnswersFor(d, p) : Fits(policy, p)
    <3> SUFFICES ASSUME NEW d \in Directions, NEW policy \in AnswersFor(d, p)
                 PROVE  Fits(policy, p)
      BY Zenon
    <3>1. PICK r \in Rules : policy = Filter(r, d, p)
      BY Zenon DEF AnswersFor
    <3> QED
      BY <1>1, <3>1, FilterFits, Zenon
  <2> QED
    BY <2>1, <2>2, ZenonT(60) DEF RuleAnswers
<1>9. TracedRecord(new)
  BY <1>4, <1>5, <1>6, <1>7, <1>8, ZenonT(60) DEF TracedRecord
<1>10. \A i \in 1..n : RecordHash(records'[i]) = RecordHash(records[i])
  BY <1>2, <1>6, ZenonT(60) DEF old
<1>11. \A i \in 1..n : TracedRecord(records'[i])
  <2>1. \A i \in 1..n : TracedRecord(records[i])
    BY Zenon DEF Traced, n
  <2> QED
    BY <1>2, <1>9, <2>1, ZenonT(60)
<1>12. \A i \in 1..n : records[i].policy # NoMatch => records'[i].policy = records[i].policy
  BY <1>2, <1>7, ZenonT(60) DEF old
<1>13. ASSUME NEW u \in Threads, call'[u] # Idle
       PROVE  FlowHash(call'[u].packet) = RecordHash(records'[call'[u].flow])
  <2>1. FlowHash(call[u].packet) = RecordHash(records[call[u].flow])
    BY <1>3, <1>13, Zenon DEF Traced
  <2> QED
    BY <1>1, <1>3, <1>10, <1>13, <2>1, ZenonT(60)
<1>14. ASSUME NEW u \in Threads, last'[u] # Never
       PROVE  TracedLast(last'[u], records'[last'[u].flow])
  <2>1. CASE last'[u] = last[u]
    <3>1. last[u].flow \in 1..n /\ TracedLast(last[u], records[last[u].flow])
      BY <1>1, <1>14, <2>1, Zenon DEF Traced
    <3> QED
      BY <1>10, <1>12, <2>1, <3>1, ZenonT(60) DEF TracedLast
  <2>2. CASE last'[u] # last[u]
    <3>1. last'[u].flow = at /\ last'[u].packet = p /\ last'[u].answer = answer
      BY <1>2, <2>2, ZenonT(60)
    <3> QED
      BY <1>2, <1>4, <1>6, <1>7, <3>1, ZenonT(60) DEF TracedLast
  <2> QED
    BY <2>1, <2>2, Zenon
<1> QED
  BY <1>2, <1>11, <1>13, <1>14, ZenonT(60) DEF Traced, n

LEMMA TracedStep ==
    ASSUME IInv, Dated, Traced, [Next]_vars
    PROVE  Traced'
<1>0. Typed /\ Work.threads \subseteq Threads
  BY WorkOK, Zenon DEF IInv
<1>1. ASSUME UNCHANGED <<records, call, last>> PROVE Traced'
  BY <1>1, Zenon DEF Traced
<1>2. CASE Elapse
  BY <1>1, <1>2 DEF Elapse
<1>3. CASE UNCHANGED vars
  BY <1>1, <1>3, SMTT(60) DEF vars
<1>4. CASE \E rule \in Work.ruleSet : AddRule(rule)
  BY <1>1, <1>4, SMTT(60) DEF AddRule
<1>5. ASSUME NEW t \in Work.threads, NEW p \in Work.packets, InspectDissectFails(t, p)
      PROVE  Traced'
  BY <1>1, <1>5, Zenon DEF InspectDissectFails
<1>6. ASSUME NEW t \in Threads, NEW p \in Work.packets, GetFlow(t, p)
      PROVE  Traced'
  <2>1. /\ FlowHash(p) \in Hashes /\ p \in Packets /\ UNCHANGED last
        /\ call'[t].flow = flows'[FlowHash(p)] /\ call'[t].packet = p
        /\ \A u \in Threads \ {t} : call'[u] = call[u]
        /\ Makes(p) \/ Finds(p)
    BY <1>0, <1>6, GetFlowStep, Zenon
  <2> QED
    BY <1>0, <2>1, TracedMakes, TracedFinds, Zenon
<1>7. ASSUME NEW t \in Threads, Lock(t) \/ Decide(t)
      PROVE  Traced'
  <2>1. call[t] # Idle /\ Inspected(t)
    BY <1>0, <1>7, LockInspected, DecideInspected, Zenon
  <2> QED
    BY <1>0, <2>1, TracedInspected, SMTT(60)
<1> QED
  BY <1>0, <1>2, <1>3, <1>4, <1>5, <1>6, <1>7, Zenon DEF Next, Inspect

\* The rules and reflectSegment: for every number of goroutines and every mix of
\* rules and packets, what a call asks to spoof continues the stream of the packet
\* that made the rule match, which belongs to the flow of the packet of the call
\* (SpoofedContinuesStream), although another goroutine may have stored the policy.
THEOREM SpoofedSegmentsFit == Spec => []SpoofedContinuesStream
<1>1. Typed /\ Traced => SpoofedContinuesStream
  <2> SUFFICES ASSUME Typed, Traced, NEW t \in Threads, NEW s \in Spoofed(t)
               PROVE  /\ Continues(s, records[last[t].flow].trigger)
                      /\ FlowHash(s) = FlowHash(last[t].packet)
    BY ZenonT(60) DEF SpoofedContinuesStream, Continues
  <2> DEFINE flow == records[last[t].flow]
  <2>1. last[t] # Never /\ last[t].answer # NoMatch
    BY Zenon DEF Spoofed
  <2>2. PICK i \in DOMAIN last[t].answer.spoofed : s = last[t].answer.spoofed[i]
    BY <2>1, Zenon DEF Spoofed
  <2>3. last[t].flow \in 1..Len(records)
    BY <2>1, ReferencesTyped, Zenon
  <2>4. TracedRecord(flow) /\ TracedLast(last[t], flow)
    BY <2>1, <2>3, ZenonT(60) DEF Traced
  <2> HIDE DEF flow
  <2>5. flow.policy = last[t].answer /\ FlowHash(last[t].packet) = RecordHash(flow)
    BY <2>1, <2>4, ZenonT(60) DEF TracedLast
  <2>6. Continues(s, flow.trigger) /\ FlowHash(flow.trigger) = RecordHash(flow)
    BY <2>1, <2>2, <2>4, <2>5, ZenonT(60) DEF TracedRecord, Fits
  <2> QED
    BY <2>5, <2>6, ZenonT(60) DEF Continues, flow
<1>2. IInv => Typed
  BY DEF IInv
<1>3. IInv /\ Dated /\ [Next]_vars => Dated'
  BY DatedStep
<1>4. IInv /\ Dated /\ Traced /\ [Next]_vars => Traced'
  BY TracedStep
<1> QED
  BY <1>1, <1>2, <1>3, <1>4, DatedInit, TracedInit, Invariant, PTL DEF Spec

-----------------------------------------------------------------------------
(* Where a policy comes from *)

\* The policy of every record comes from a rule that was added.
Ruled == \A i \in 1..Len(records) : InForce(records[i].policy, records[i].trigger)

LEMMA RuledInit == Init => Ruled
<1> SUFFICES ASSUME Init PROVE Ruled
  OBVIOUS
<1>1. Len(records) = 0
  BY SMTT(60) DEF Init
<1>2. 1..Len(records) = {}
  BY <1>1
<1> QED
  BY <1>2, Zenon DEF Ruled

\* Rules are only ever added at the end of the list.
LEMMA RuledKept ==
    ASSUME Len(rules) \in Nat, Len(rules') \in Nat, Len(rules) <= Len(rules'),
           \A k \in 1..Len(rules) : rules'[k] = rules[k],
           NEW policy, NEW p, InForce(policy, p)
    PROVE  policy # NoMatch =>
             \E k \in 1..Len(rules') : \E d \in Directions : policy = Filter(rules'[k], d, p)
<1> SUFFICES ASSUME policy # NoMatch
             PROVE  \E k \in 1..Len(rules') : \E d \in Directions :
                      policy = Filter(rules'[k], d, p)
  OBVIOUS
<1>1. PICK k \in 1..Len(rules), d \in Directions : policy = Filter(rules[k], d, p)
  BY Zenon DEF InForce
<1>2. k \in 1..Len(rules')
  BY <1>1
<1> QED
  BY <1>1, <1>2, Zenon

LEMMA RuledStep ==
    ASSUME IInv, Ruled, [Next]_vars
    PROVE  Ruled'
<1>0. Typed /\ Work.threads \subseteq Threads /\ rules \in Seq(Rules)
  BY WorkOK, Zenon DEF IInv, Typed
<1>1. ASSUME UNCHANGED <<rules, records>> PROVE Ruled'
  BY <1>1, Zenon DEF Ruled, InForce
<1>2. CASE Elapse
  BY <1>1, <1>2, Zenon DEF Elapse
<1>3. CASE UNCHANGED vars
  BY <1>1, <1>3, SMTT(60) DEF vars
<1>4. ASSUME NEW rule \in Work.ruleSet, AddRule(rule) PROVE Ruled'
  <2>1. rules' = Append(rules, rule) /\ records' = records
    BY <1>4, Zenon DEF AddRule
  <2>2. /\ Len(rules) \in Nat /\ Len(rules') = Len(rules) + 1
        /\ \A k \in 1..Len(rules) : rules'[k] = rules[k]
    BY <1>0, <2>1
  <2>3. Len(rules') \in Nat /\ Len(rules) <= Len(rules')
    BY <2>2
  <2>4. ASSUME NEW i \in 1..Len(records)
        PROVE  records[i].policy # NoMatch =>
                 \E k \in 1..Len(rules') : \E d \in Directions :
                   records[i].policy = Filter(rules'[k], d, records[i].trigger)
    <3>1. InForce(records[i].policy, records[i].trigger)
      BY Zenon DEF Ruled
    <3>2. PICK policy, p : policy = records[i].policy /\ p = records[i].trigger
      BY Zenon
    <3>3. InForce(policy, p)
      BY <3>1, <3>2, Zenon
    <3>4. policy # NoMatch =>
            \E k \in 1..Len(rules') : \E d \in Directions : policy = Filter(rules'[k], d, p)
      BY <2>2, <2>3, <3>3, RuledKept, Zenon
    <3> QED
      BY <3>2, <3>4, Zenon
  <2> QED
    BY <2>1, <2>4, Zenon DEF Ruled, InForce
<1>5. ASSUME NEW t \in Work.threads, NEW p \in Work.packets, InspectDissectFails(t, p)
      PROVE  Ruled'
  BY <1>1, <1>5, Zenon DEF InspectDissectFails
<1>6. ASSUME NEW t \in Threads, NEW p \in Work.packets, GetFlow(t, p)
      PROVE  Ruled'
  <2>1. (Makes(p) \/ Finds(p)) /\ Len(records) \in Nat
    BY <1>0, <1>6, GetFlowStep, ReferencesTyped, Zenon
  <2>2. rules' = rules
    BY <1>6, Zenon DEF GetFlow
  <2>3. CASE Makes(p)
    <3>1. /\ Len(records') = Len(records) + 1
          /\ \A i \in 1..Len(records) : records'[i] = records[i]
          /\ records'[Len(records')].policy = NoMatch
      BY <2>3, Zenon DEF Makes
    <3>2. \A i \in 1..Len(records') : i \in 1..Len(records) \/ i = Len(records')
      BY <2>1, <3>1
    <3> QED
      BY <2>2, <3>1, <3>2, ZenonT(60) DEF Ruled, InForce
  <2>4. CASE Finds(p)
    <3>1. /\ Len(records') = Len(records)
          /\ \A i \in 1..Len(records) : /\ records'[i].policy = records[i].policy
                                        /\ records'[i].trigger = records[i].trigger
      BY <2>4, Zenon DEF Finds
    <3> QED
      BY <2>2, <3>1, ZenonT(60) DEF Ruled, InForce
  <2> QED
    BY <2>1, <2>3, <2>4, Zenon
<1>7. ASSUME NEW t \in Threads, Lock(t) \/ Decide(t)
      PROVE  Ruled'
  <2>1. call[t] # Idle /\ Inspected(t)
    BY <1>0, <1>7, LockInspected, DecideInspected, Zenon
  <2>2. rules' = rules
    BY <2>1, Zenon DEF Inspected
  <2>3. PICK new \in FlowType, answer \in Answers : Rewrites(t, new, answer)
    BY <1>0, <2>1, InspectedRecords, Zenon
  <2>4. /\ Len(records') = Len(records) /\ call[t].flow \in 1..Len(records)
        /\ records'[call[t].flow] = new
        /\ \A i \in 1..Len(records) : i # call[t].flow => records'[i] = records[i]
        /\ Leaves(records[call[t].flow], new, call[t].packet, answer)
    BY <2>3, Zenon DEF Rewrites
  <2>5. InForce(records[call[t].flow].policy, records[call[t].flow].trigger)
    BY <2>4, Zenon DEF Ruled
  <2>6. InForce(new.policy, new.trigger)
    BY <2>4, <2>5, Zenon DEF Leaves
  <2>7. \A i \in 1..Len(records') : InForce(records'[i].policy, records'[i].trigger)
    BY <2>4, <2>6, ZenonT(60) DEF Ruled
  <2> QED
    BY <2>2, <2>7, ZenonT(60) DEF Ruled, InForce
<1> QED
  BY <1>0, <1>2, <1>3, <1>4, <1>5, <1>6, <1>7, Zenon DEF Next, Inspect

\* What the last call of goroutine t answered is what a rule that was added answers
\* for a packet of the same flow, the one that made the rule match.
AnswerHasARule(t) ==
    last[t] # Never /\ last[t].answer # NoMatch =>
      LET p == records[last[t].flow].trigger
      IN  /\ FlowHash(p) = FlowHash(last[t].packet)
          /\ \E k \in 1..Len(rules) : \E d \in Directions :
               last[t].answer = Filter(rules[k], d, p)

\* inspect: whatever the goroutines do, a packet is only dropped, delayed or answered
\* because a rule that was added matches it or an earlier packet of its flow; the
\* counterpart of RulesAreApplied, which says that a rule that matches is applied.
THEOREM AnswersHaveRules == Spec => [](\A t \in Threads : AnswerHasARule(t))
<1>1. Typed /\ Traced /\ Ruled => \A t \in Threads : AnswerHasARule(t)
  <2> SUFFICES ASSUME Typed, Traced, Ruled, NEW t \in Threads, last[t] # Never,
                      last[t].answer # NoMatch
               PROVE  /\ FlowHash(records[last[t].flow].trigger) = FlowHash(last[t].packet)
                      /\ \E k \in 1..Len(rules) : \E d \in Directions :
                           last[t].answer = Filter(rules[k], d, records[last[t].flow].trigger)
    BY Zenon DEF AnswerHasARule
  <2>1. last[t].flow \in 1..Len(records)
    BY ReferencesTyped, Zenon
  <2>2. TracedRecord(records[last[t].flow]) /\ TracedLast(last[t], records[last[t].flow])
    BY <2>1, ZenonT(60) DEF Traced
  <2>3. /\ records[last[t].flow].policy = last[t].answer
        /\ FlowHash(records[last[t].flow].trigger) = FlowHash(last[t].packet)
    BY <2>2, ZenonT(60) DEF TracedRecord, TracedLast
  <2>4. InForce(records[last[t].flow].policy, records[last[t].flow].trigger)
    BY <2>1, Zenon DEF Ruled
  <2> QED
    BY <2>3, <2>4, Zenon DEF InForce
<1>2. IInv => Typed
  BY DEF IInv
<1>3. IInv /\ Dated /\ [Next]_vars => Dated'
  BY DatedStep
<1>4. IInv /\ Dated /\ Traced /\ [Next]_vars => Traced'
  BY TracedStep
<1>5. IInv /\ Ruled /\ [Next]_vars => Ruled'
  BY RuledStep
<1> QED
  BY <1>1, <1>2, <1>3, <1>4, <1>5, DatedInit, TracedInit, RuledInit, Invariant, PTL DEF Spec

-----------------------------------------------------------------------------
(* The server name in a segment: tlsparse.go *)

Byte == 0..255

\* The size of the record that the bytes begin, with its header, and whether all of
\* it is there.
RecordSize(s) == 5 + 256 * s[4] + s[5]
WholeRecord(s) == 5 <= Len(s) /\ RecordSize(s) <= Len(s)
\* The version is one of TLS and the content type is known.
KnownRecord(s) == 256 * s[2] + s[3] \in 769..772 /\ s[1] \in 20..23

\* ReadUint16 is big endian.
LEMMA ReadTwo ==
    ASSUME NEW s \in Seq(Byte), NEW b \in Nat, b + 2 <= Len(s)
    PROVE  /\ SubSeq(s, b + 1, b + 2) \in Seq(Byte)
           /\ Number(SubSeq(s, b + 1, b + 2)) = 256 * s[b + 1] + s[b + 2]
<1>1. /\ SubSeq(s, b + 1, b + 2) \in Seq(Byte)
      /\ Len(SubSeq(s, b + 1, b + 2)) = 2
      /\ SubSeq(s, b + 1, b + 2)[1] = s[b + 1]
      /\ SubSeq(s, b + 1, b + 2)[2] = s[b + 2]
  BY SubSeqProperties
<1> QED
  BY <1>1 DEF Number

\* What is left of the cursor.
LEMMA SkipProperties ==
    ASSUME NEW s \in Seq(Byte), NEW n \in Nat, n <= Len(s)
    PROVE  /\ Skip(s, n) \in Seq(Byte) /\ Len(Skip(s, n)) = Len(s) - n
           /\ \A i \in 1..(Len(s) - n) : Skip(s, n)[i] = s[n + i]
  BY SubSeqProperties DEF Skip

\* ReadUint16LengthPrefixed reads as many bytes as the first two say.
LEMMA PrefixedTwo ==
    ASSUME NEW s \in Seq(Byte)
    PROVE  ReadPrefixed(s, 2) =
             IF Len(s) < 2 THEN {} ELSE ReadBytes(Skip(s, 2), 256 * s[1] + s[2])
<1>1. CASE Len(s) < 2
  BY <1>1 DEF ReadPrefixed, ReadBytes
<1>2. CASE ~(Len(s) < 2)
  <2>1. Number(SubSeq(s, 1, 2)) = 256 * s[1] + s[2]
    <3>1. /\ SubSeq(s, 0 + 1, 0 + 2) \in Seq(Byte)
          /\ Number(SubSeq(s, 0 + 1, 0 + 2)) = 256 * s[0 + 1] + s[0 + 2]
      <4>1. Len(s) \in Nat /\ 0 + 2 <= Len(s)
        BY <1>2, LenProperties
      <4> QED
        BY ONLY <4>1, ReadTwo, s \in Seq(Byte), 0 \in Nat
    <3> QED
      BY <3>1
  <2> DEFINE size == [data |-> SubSeq(s, 1, 2), rest |-> Skip(s, 2)]
  <2>2. ReadBytes(s, 2) = {size}
    BY <1>2 DEF ReadBytes
  <2>4. size.data = SubSeq(s, 1, 2) /\ size.rest = Skip(s, 2)
    OBVIOUS
  <2> HIDE DEF size
  <2>5. ReadPrefixed(s, 2) = ReadBytes(size.rest, Number(size.data))
    BY <2>2 DEF ReadPrefixed
  <2>3. ReadPrefixed(s, 2) = ReadBytes(Skip(s, 2), Number(SubSeq(s, 1, 2)))
    BY <2>4, <2>5, Zenon
  <2> QED
    BY <1>2, <2>1, <2>3
<1> QED
  BY <1>1, <1>2

LEMMA SizeTyped ==
    ASSUME NEW s \in Seq(Byte), 5 <= Len(s)
    PROVE  /\ 256 * s[4] + s[5] \in Nat
           /\ RecordSize(s) = 5 + (256 * s[4] + s[5])
           /\ RecordSize(s) \in Nat /\ 5 <= RecordSize(s)
<1>1. s[4] \in Byte /\ s[5] \in Byte
  BY LenProperties, ElementOfSeq
<1>2. PICK a, b \in Byte : s[4] = a /\ s[5] = b
  BY <1>1
<1>3. 256 * a + b \in Nat /\ 5 + 256 * a + b = 5 + (256 * a + b)
  BY DEF Byte
<1> QED
  BY <1>2, <1>3 DEF RecordSize

\* The bytes read after two others are read are those of the segment.
LEMMA SkipSkip ==
    ASSUME NEW s \in Seq(Byte), NEW n \in Nat, NEW m \in Nat, n + m <= Len(s),
           NEW k \in Nat, n + m + k <= Len(s)
    PROVE  SubSeq(Skip(Skip(s, n), m), 1, k) = SubSeq(s, n + m + 1, n + m + k)
<1>1. /\ Skip(s, n) \in Seq(Byte) /\ Len(Skip(s, n)) = Len(s) - n
      /\ \A i \in 1..(Len(s) - n) : Skip(s, n)[i] = s[n + i]
  <2>1. n <= Len(s)
    BY LenProperties
  <2> QED
    BY <2>1, SkipProperties
<1>2. /\ Skip(Skip(s, n), m) \in Seq(Byte) /\ Len(Skip(Skip(s, n), m)) = Len(s) - n - m
      /\ \A i \in 1..(Len(s) - n - m) : Skip(Skip(s, n), m)[i] = s[n + m + i]
  <2>1. m <= Len(Skip(s, n)) /\ Len(s) \in Nat
    BY <1>1, LenProperties
  <2>2. /\ Skip(Skip(s, n), m) \in Seq(Byte)
        /\ Len(Skip(Skip(s, n), m)) = Len(Skip(s, n)) - m
        /\ \A i \in 1..(Len(Skip(s, n)) - m) : Skip(Skip(s, n), m)[i] = Skip(s, n)[m + i]
    BY <1>1, <2>1, SkipProperties, Zenon
  <2> QED
    BY <1>1, <2>1, <2>2
<1> DEFINE u == Skip(Skip(s, n), m)
           a == SubSeq(u, 1, k)
           b == SubSeq(s, n + m + 1, n + m + k)
<1>3. /\ u \in Seq(Byte) /\ Len(u) = Len(s) - n - m
      /\ \A i \in 1..(Len(s) - n - m) : u[i] = s[n + m + i]
  BY <1>2
<1> HIDE DEF u
<1>4. a \in Seq(Byte) /\ Len(a) = k /\ \A i \in 1..k : a[i] = u[i]
  BY <1>3, LenProperties, SubSeqProperties
<1>5. b \in Seq(Byte) /\ Len(b) = k /\ \A i \in 1..k : b[i] = s[n + m + i]
  <2> DEFINE low == n + m + 1
             top == n + m + k
  <2>1. low \in Int /\ top \in Int /\ b = SubSeq(s, low, top)
    OBVIOUS
  <2>2. \A i \in low..top : s[i] \in Byte
    BY LenProperties, ElementOfSeq
  <2>3. /\ (IF low <= top THEN top - low + 1 ELSE 0) = k /\ top - low + 1 = k
        /\ \A i \in 1..k : low + i - 1 = n + m + i
    OBVIOUS
  <2> HIDE DEF low, top, b
  <2>4. /\ SubSeq(s, low, top) \in Seq(Byte)
        /\ Len(SubSeq(s, low, top)) = IF low <= top THEN top - low + 1 ELSE 0
        /\ \A i \in 1..(top - low + 1) : SubSeq(s, low, top)[i] = s[low + i - 1]
    BY <2>1, <2>2, SubSeqProperties
  <2> QED
    BY <2>1, <2>3, <2>4, Zenon
<1>6. \A i \in 1..k : a[i] = b[i]
  BY <1>3, <1>4, <1>5, LenProperties
<1>7. a = b
  BY <1>4, <1>5, <1>6, SeqEqual
<1> QED
  BY <1>7 DEF u

\* UnmarshalTLSRecordHeader returns the body of the record that the bytes begin with,
\* and fails when the segment does not hold all of it.
LEMMA HeaderOf ==
    ASSUME NEW s \in Seq(Byte)
    PROVE  UnmarshalTLSRecordHeader(s) =
             IF WholeRecord(s) /\ KnownRecord(s) THEN {SubSeq(s, 6, RecordSize(s))} ELSE {}
<1>n. Len(s) \in Nat
  BY LenProperties
<1>1. CASE Len(s) < 3
  <2>1. ReadBytes(s, 3) = {}
    BY <1>1 DEF ReadBytes
  <2>2. UnmarshalTLSRecordHeader(s) = {}
    BY <2>1, ZenonT(60) DEF UnmarshalTLSRecordHeader
  <2> QED
    BY <1>1, <1>n, <2>2 DEF WholeRecord
<1>2. CASE 3 <= Len(s)
  <2> DEFINE g == [data |-> SubSeq(s, 1, 3), rest |-> Skip(s, 3)]
  <2>1. ReadBytes(s, 3) = {g}
    BY <1>2, <1>n DEF ReadBytes
  <2>2. Number(Tail(g.data)) = 256 * s[2] + s[3] /\ g.data[1] = s[1]
    <3>1. /\ SubSeq(s, 1, 3) \in Seq(Byte) /\ Len(SubSeq(s, 1, 3)) = 3
          /\ SubSeq(s, 1, 3)[1] = s[1] /\ SubSeq(s, 1, 3)[2] = s[2]
          /\ SubSeq(s, 1, 3)[3] = s[3]
      BY <1>2, <1>n, SubSeqProperties
    <3>2. ASSUME NEW w \in Seq(Byte), Len(w) = 3
          PROVE  Len(Tail(w)) = 2 /\ Tail(w)[1] = w[2] /\ Tail(w)[2] = w[3]
      <4>1. w # <<>>
        <5>1. Len(<<>>) = 0
          OBVIOUS
        <5>2. Len(w) # Len(<<>>)
          BY <3>2, <5>1
        <5> QED
          BY <5>2, Zenon
      <4>2. Len(Tail(w)) = Len(w) - 1 /\ \A i \in 1..Len(Tail(w)) : Tail(w)[i] = w[i + 1]
        BY <4>1, HeadTailProperties
      <4>3. Len(Tail(w)) = 2 /\ 1 \in 1..2 /\ 2 \in 1..2 /\ 1 + 1 = 2 /\ 2 + 1 = 3
        BY <3>2, <4>2
      <4> QED
        BY <4>2, <4>3
    <3>3. /\ Len(Tail(SubSeq(s, 1, 3))) = 2
          /\ Tail(SubSeq(s, 1, 3))[1] = s[2] /\ Tail(SubSeq(s, 1, 3))[2] = s[3]
      BY <3>1, <3>2, Zenon
    <3> QED
      BY <3>1, <3>3 DEF Number
  <2>3. g.rest = Skip(s, 3)
    OBVIOUS
  <2> HIDE DEF g
  <2>4. CASE ~KnownRecord(s)
    <3>1. ~(Number(Tail(g.data)) \in 769..772 /\ g.data[1] \in 20..23)
      BY <2>2, <2>4 DEF KnownRecord
    <3>2. UnmarshalTLSRecordHeader(s) = {}
      <4>1. {h \in ReadBytes(s, 3) : /\ Number(Tail(h.data)) \in 769..772
                                     /\ h.data[1] \in 20..23} = {}
        BY <2>1, <3>1
      <4> QED
        BY <4>1, ZenonT(60) DEF UnmarshalTLSRecordHeader
    <3> QED
      BY <2>4, <3>2
  <2>5. CASE KnownRecord(s)
    <3>1. Number(Tail(g.data)) \in 769..772 /\ g.data[1] \in 20..23
      BY <2>2, <2>5 DEF KnownRecord
    <3>2. UnmarshalTLSRecordHeader(s) = {r.data : r \in ReadPrefixed(Skip(s, 3), 2)}
      <4>1. {h \in ReadBytes(s, 3) : /\ Number(Tail(h.data)) \in 769..772
                                     /\ h.data[1] \in 20..23} = {g}
        BY <2>1, <3>1
      <4>2. UNION {ReadPrefixed(h.rest, 2) : h \in {g}} = ReadPrefixed(Skip(s, 3), 2)
        BY <2>3, Zenon
      <4> QED
        BY <4>1, <4>2, Zenon DEF UnmarshalTLSRecordHeader
    <3>3. /\ Skip(s, 3) \in Seq(Byte) /\ Len(Skip(s, 3)) = Len(s) - 3
          /\ \A i \in 1..(Len(s) - 3) : Skip(s, 3)[i] = s[3 + i]
      BY <1>2, <1>n, SkipProperties
    <3>4. ReadPrefixed(Skip(s, 3), 2) =
            IF Len(s) - 3 < 2 THEN {}
            ELSE ReadBytes(Skip(Skip(s, 3), 2), 256 * Skip(s, 3)[1] + Skip(s, 3)[2])
      BY <3>3, PrefixedTwo
    <3>5. CASE Len(s) < 5
      <4>1. ReadPrefixed(Skip(s, 3), 2) = {}
        BY <3>4, <3>5, <1>n
      <4>2. ~WholeRecord(s)
        BY <3>5, <1>n DEF WholeRecord
      <4> QED
        BY <3>2, <4>1, <4>2, Zenon
    <3>6. CASE 5 <= Len(s)
      <4> DEFINE k == 256 * s[4] + s[5]
      <4>1. Skip(s, 3)[1] = s[4] /\ Skip(s, 3)[2] = s[5]
        <5>1. 1 \in 1..(Len(s) - 3) /\ 2 \in 1..(Len(s) - 3) /\ 3 + 1 = 4 /\ 3 + 2 = 5
          BY <3>6, <1>n
        <5>2. Skip(s, 3)[1] = s[3 + 1] /\ Skip(s, 3)[2] = s[3 + 2]
          BY <3>3, <5>1, Zenon
        <5> QED
          BY <5>1, <5>2, Zenon
      <4>2. k \in Nat
        BY <3>6, <1>n, SizeTyped
      <4>3. RecordSize(s) = 5 + k
        BY <3>6, <1>n, SizeTyped
      <4>4. ReadPrefixed(Skip(s, 3), 2) = ReadBytes(Skip(Skip(s, 3), 2), k)
        BY <3>4, <3>6, <1>n, <4>1
      <4> HIDE DEF k
      <4>5. Len(Skip(Skip(s, 3), 2)) = Len(s) - 5
        BY <3>3, <3>6, <1>n, SkipProperties
      <4>6. CASE Len(s) < 5 + k
        <5>1. ReadBytes(Skip(Skip(s, 3), 2), k) = {}
          BY <4>2, <4>5, <4>6, <1>n DEF ReadBytes
        <5>2. ~WholeRecord(s)
          BY <4>2, <4>3, <4>6, <1>n DEF WholeRecord
        <5> QED
          BY <3>2, <4>4, <5>1, <5>2, Zenon
      <4>7. CASE 5 + k <= Len(s)
        <5>1. ~(Len(Skip(Skip(s, 3), 2)) < k)
          BY <4>2, <4>5, <4>7, <1>n
        <5>2. ReadBytes(Skip(Skip(s, 3), 2), k) =
                {[data |-> SubSeq(Skip(Skip(s, 3), 2), 1, k),
                  rest |-> Skip(Skip(Skip(s, 3), 2), k)]}
          BY <5>1, Zenon DEF ReadBytes
        <5>3. SubSeq(Skip(Skip(s, 3), 2), 1, k) = SubSeq(s, 3 + 2 + 1, 3 + 2 + k)
          BY <4>2, <4>7, <1>n, SkipSkip
        <5>4. 3 + 2 + 1 = 6 /\ 3 + 2 + k = RecordSize(s)
          BY <4>2, <4>3
        <5>5. UnmarshalTLSRecordHeader(s) = {SubSeq(Skip(Skip(s, 3), 2), 1, k)}
          <6> DEFINE one == [data |-> SubSeq(Skip(Skip(s, 3), 2), 1, k),
                             rest |-> Skip(Skip(Skip(s, 3), 2), k)]
          <6>1. one.data = SubSeq(Skip(Skip(s, 3), 2), 1, k)
            BY Zenon
          <6>2. ReadPrefixed(Skip(s, 3), 2) = {one}
            BY <4>4, <5>2, Zenon
          <6> HIDE DEF one
          <6>3. UnmarshalTLSRecordHeader(s) = {one.data}
            BY <3>2, <6>2
          <6> QED
            BY <6>1, <6>3, Zenon
        <5>6. WholeRecord(s)
          BY <4>2, <4>3, <4>7, <3>6, <1>n DEF WholeRecord
        <5>7. UnmarshalTLSRecordHeader(s) = {SubSeq(s, 6, RecordSize(s))}
          BY <5>3, <5>4, <5>5, Zenon
        <5> QED
          BY <5>6, <5>7, <2>5
      <4> QED
        BY <4>2, <4>6, <4>7, <1>n
    <3> QED
      BY <3>5, <3>6, <1>n
  <2> QED
    BY <2>4, <2>5
<1> QED
  BY <1>1, <1>2, <1>n

LEMMA NoRecordNoName ==
    ASSUME NEW s, UnmarshalTLSRecordHeader(s) = {}
    PROVE  ExtractTLSServerName(s) = {}
  BY Zenon DEF ExtractTLSServerName

\* ExtractTLSServerName, tlsparse.go:336: a segment that ends before the record that
\* it begins, wherever it ends, has no server name; what it lacks is never made up
\* from what it has.
THEOREM RecordMustBeWhole ==
    ASSUME NEW s \in Seq(Byte), ~WholeRecord(s)
    PROVE  ExtractTLSServerName(s) = {}
  BY HeaderOf, NoRecordNoName

\* UnmarshalTLSRecordHeader: the server name that a segment has is that of its first
\* record, whatever bytes follow the record in the segment.
THEOREM OnlyTheRecordCounts ==
    ASSUME NEW s \in Seq(Byte), WholeRecord(s)
    PROVE  ExtractTLSServerName(SubSeq(s, 1, RecordSize(s))) = ExtractTLSServerName(s)
<1> DEFINE n == RecordSize(s)
           u == SubSeq(s, 1, n)
<1>1. Len(s) \in Nat /\ 5 <= Len(s) /\ n <= Len(s)
  BY LenProperties DEF WholeRecord
<1>2. n \in Nat /\ 5 <= n
  BY <1>1, SizeTyped
<1> HIDE DEF n
<1>3. u \in Seq(Byte) /\ Len(u) = n /\ \A i \in 1..n : u[i] = s[i]
  BY <1>1, <1>2, SubSeqProperties
<1> HIDE DEF u
<1>4. u[1] = s[1] /\ u[2] = s[2] /\ u[3] = s[3] /\ u[4] = s[4] /\ u[5] = s[5]
  BY <1>2, <1>3
<1>5. RecordSize(u) = n /\ (KnownRecord(u) <=> KnownRecord(s))
  <2>1. n = RecordSize(s)
    BY DEF n
  <2> QED
    BY <1>4, <2>1 DEF RecordSize, KnownRecord
<1>6. WholeRecord(u)
  BY <1>2, <1>3, <1>5 DEF WholeRecord
<1>7. SubSeq(u, 6, n) = SubSeq(s, 6, n)
  <2>1. /\ SubSeq(u, 6, n) \in Seq(Byte) /\ Len(SubSeq(u, 6, n)) = n - 5
        /\ \A i \in 1..(n - 5) : SubSeq(u, 6, n)[i] = u[5 + i]
    BY <1>2, <1>3, SubSeqProperties
  <2>2. /\ SubSeq(s, 6, n) \in Seq(Byte) /\ Len(SubSeq(s, 6, n)) = n - 5
        /\ \A i \in 1..(n - 5) : SubSeq(s, 6, n)[i] = s[5 + i]
    BY <1>1, <1>2, SubSeqProperties
  <2>3. \A i \in 1..(n - 5) : u[5 + i] = s[5 + i]
    BY <1>2, <1>3
  <2> QED
    BY <2>1, <2>2, <2>3, SeqEqual
<1>8. UnmarshalTLSRecordHeader(u) = UnmarshalTLSRecordHeader(s)
  <2>1. UnmarshalTLSRecordHeader(u) =
          IF WholeRecord(u) /\ KnownRecord(u) THEN {SubSeq(u, 6, RecordSize(u))} ELSE {}
    BY <1>3, HeaderOf
  <2>2. UnmarshalTLSRecordHeader(s) =
          IF WholeRecord(s) /\ KnownRecord(s) THEN {SubSeq(s, 6, n)} ELSE {}
    BY HeaderOf DEF n
  <2> QED
    BY <2>1, <2>2, <1>5, <1>6, <1>7, Zenon
<1>9. ExtractTLSServerName(u) = ExtractTLSServerName(s)
  BY <1>8, Zenon DEF ExtractTLSServerName
<1> QED
  BY <1>9 DEF u, n

\* The rules that match on the server name.
NameRules ==
    {"DropTrafficForTLSSNI", "ThrottleTrafficForTLSSNI", "ResetTrafficForTLSSNI",
     "CloseConnectionForTLSSNI"}

\* The Filter methods of the rules for a server name: inspect looks at one packet at a
\* time, so none of the four matches a packet that does not hold a whole record,
\* whatever the name, the direction and the other fields of the packet.
THEOREM NameRulesNeedTheRecord ==
    ASSUME NEW r, r.kind \in NameRules, NEW d, NEW p, p.payload.bytes \in Seq(Byte),
           ~WholeRecord(p.payload.bytes)
    PROVE  Filter(r, d, p) = NoMatch
<1>1. ~OffendingSNI(r, d, p)
  <2>1. ExtractTLSServerName(p.payload.bytes) = {}
    BY RecordMustBeWhole
  <2> QED
    BY <2>1, Zenon DEF OffendingSNI, HasServerName
<1>2. CASE r.kind = "DropTrafficForTLSSNI"
  <2>1. Filter(r, d, p) = DropTrafficForTLSSNI(r, d, p)
    BY <1>2 DEF Filter
  <2> QED
    BY <1>1, <2>1, Zenon DEF DropTrafficForTLSSNI, Answer
<1>3. CASE r.kind = "ThrottleTrafficForTLSSNI"
  <2>1. Filter(r, d, p) = ThrottleTrafficForTLSSNI(r, d, p)
    BY <1>3 DEF Filter
  <2> QED
    BY <1>1, <2>1, Zenon DEF ThrottleTrafficForTLSSNI, Answer
<1>4. CASE r.kind = "ResetTrafficForTLSSNI"
  <2>1. Filter(r, d, p) = ResetTrafficForTLSSNI(r, d, p)
    BY <1>4 DEF Filter
  <2> QED
    BY <1>1, <2>1, Zenon DEF ResetTrafficForTLSSNI, Answer
<1>5. CASE r.kind = "CloseConnectionForTLSSNI"
  <2>1. Filter(r, d, p) = CloseConnectionForTLSSNI(r, d, p)
    BY <1>5 DEF Filter
  <2> QED
    BY <1>1, <2>1, Zenon DEF CloseConnectionForTLSSNI, Answer
<1> QED
  BY <1>2, <1>3, <1>4, <1>5, Zenon DEF NameRules

\* With no other rules than those, what a call answers is for a whole record.
NeedsARecord(t) ==
    /\ last[t] # Never /\ last[t].answer # NoMatch
    /\ \A k \in 1..Len(rules) : rules[k].kind \in NameRules
    => WholeRecord(records[last[t].flow].trigger.payload.bytes)

\* inspect with rules for server names only: for every number of goroutines and every
\* mix of packets, a packet is only interfered with if it, or an earlier packet of its
\* flow, holds a whole record.  This is the part of OnlyOffendingHelloDropped that
\* does not look into the record, without its bounds.
THEOREM NamesNeedRecords == Spec => [](\A t \in Threads : NeedsARecord(t))
<1>1. Typed /\ (\A t \in Threads : AnswerHasARule(t)) => \A t \in Threads : NeedsARecord(t)
  <2> SUFFICES ASSUME Typed, NEW t \in Threads, AnswerHasARule(t), last[t] # Never,
                      last[t].answer # NoMatch,
                      \A k \in 1..Len(rules) : rules[k].kind \in NameRules
               PROVE  WholeRecord(records[last[t].flow].trigger.payload.bytes)
    BY Zenon DEF NeedsARecord
  <2>1. PICK p : p = records[last[t].flow].trigger
    BY Zenon
  <2>2. PICK k \in 1..Len(rules), d \in Directions : last[t].answer = Filter(rules[k], d, p)
    BY <2>1, Zenon DEF AnswerHasARule
  <2>3. p \in Packets
    <3>1. last[t].flow \in 1..Len(records)
      BY ReferencesTyped, Zenon
    <3>2. records[last[t].flow] \in FlowType
      BY <3>1, SMTT(60) DEF Typed
    <3> QED
      BY <2>1, <3>2, Zenon DEF FlowType
  <2>4. p.payload.bytes \in Seq(Byte)
    BY <2>3, EngineAssumption, ZenonT(60) DEF Packets, Byte
  <2>5. Filter(rules[k], d, p) # NoMatch /\ rules[k].kind \in NameRules
    BY <2>2, Zenon
  <2>6. WholeRecord(p.payload.bytes)
    BY <2>4, <2>5, NameRulesNeedTheRecord, Zenon
  <2> QED
    BY <2>1, <2>6, Zenon
<1>2. IInv => Typed
  BY DEF IInv
<1> QED
  BY <1>1, <1>2, AnswersHaveRules, Invariant, PTL
=============================================================================
