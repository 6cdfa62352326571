------------------------- MODULE LinkFwdFullProofs -------------------------
(***************************************************************************)
(* Proofs about LinkFwdFull, for any set of frames, any lengths, delays,   *)
(* loss rates, policies and size of the TX buffer.                         *)
(***************************************************************************)
EXTENDS LinkFwdFull, SequenceTheorems, FiniteSetTheorems,
        WellFoundedInduction, TLAPS

-----------------------------------------------------------------------------
(* The sort: linkFwdSortFrameSliceInPlace. *)

\* The order of sort.SliceStable is total.
LEMMA SortedBeforeIsTotal ==
    ASSUME NEW s, NEW n \in Nat, DOMAIN s = 1..n, \A i \in 1..n : s[i].deadline \in Int
    PROVE  /\ \A i \in 1..n : SortedBefore(s, i, i)
           /\ \A i, j \in 1..n : SortedBefore(s, i, j) \/ SortedBefore(s, j, i)
           /\ \A i, j \in 1..n : SortedBefore(s, i, j) /\ SortedBefore(s, j, i) => i = j
           /\ \A i, j, k \in 1..n :
                SortedBefore(s, i, j) /\ SortedBefore(s, j, k) => SortedBefore(s, i, k)
<1> DEFINE d == [i \in 1..n |-> s[i].deadline]
<1>1. \A i \in 1..n : d[i] \in Int /\ d[i] = s[i].deadline
  OBVIOUS
<1>2. \A i, j \in 1..n : SortedBefore(s, i, j) <=> d[i] < d[j] \/ (d[i] = d[j] /\ i <= j)
  BY <1>1 DEF SortedBefore
<1> HIDE DEF d
<1> QED
  BY <1>1, <1>2, SMTT(60)

\* A frame that is sorted before another gets a smaller position.
LEMMA SortedIndexIsMonotonic ==
    ASSUME NEW s, NEW n \in Nat, DOMAIN s = 1..n, \A i \in 1..n : s[i].deadline \in Int
    PROVE  /\ \A i \in 1..n : SortedIndex(s, i) \in 1..n
           /\ \A i, j \in 1..n :
                SortedBefore(s, i, j) /\ i # j => SortedIndex(s, i) < SortedIndex(s, j)
<1> DEFINE B(i) == {j \in 1..n : SortedBefore(s, j, i)}
<1>0. \A i \in 1..n : SortedIndex(s, i) = Cardinality(B(i))
  BY DEF SortedIndex
<1>1. IsFiniteSet(1..n) /\ Cardinality(1..n) = n
  BY FS_Interval
<1>2. \A i \in 1..n : IsFiniteSet(B(i)) /\ Cardinality(B(i)) \in Nat /\ Cardinality(B(i)) <= n
  BY <1>1, FS_Subset, FS_CardinalityType
<1>3. \A i \in 1..n : i \in B(i)
  BY SortedBeforeIsTotal
<1>4. ASSUME NEW i \in 1..n PROVE SortedIndex(s, i) \in 1..n
  <2>1. Cardinality(B(i)) # 0
    BY <1>2, <1>3, FS_EmptySet, ZenonT(60)
  <2> HIDE DEF B
  <2>2. Cardinality(B(i)) \in Nat /\ Cardinality(B(i)) <= n /\ SortedIndex(s, i) = Cardinality(B(i))
    BY <1>0, <1>2
  <2> QED
    BY <2>1, <2>2
<1>5. ASSUME NEW i \in 1..n, NEW j \in 1..n, SortedBefore(s, i, j), i # j
      PROVE  SortedIndex(s, i) < SortedIndex(s, j)
  <2>1. B(i) \subseteq B(j) /\ j \notin B(i)
    BY <1>5, SortedBeforeIsTotal
  <2>2. B(i) # B(j)
    BY <1>3, <2>1
  <2>3. Cardinality(B(i)) <= Cardinality(B(j)) /\ Cardinality(B(i)) # Cardinality(B(j))
    BY <1>2, <2>1, <2>2, FS_Subset, ZenonT(60)
  <2> HIDE DEF B
  <2>4. /\ Cardinality(B(i)) \in Nat /\ Cardinality(B(j)) \in Nat
        /\ SortedIndex(s, i) = Cardinality(B(i)) /\ SortedIndex(s, j) = Cardinality(B(j))
    BY <1>0, <1>2
  <2> QED
    BY <2>3, <2>4
<1> QED
  BY <1>4, <1>5

\* linkFwdSortFrameSliceInPlace permutes the slice, and the permutation lists the
\* positions in the order of sort.SliceStable.
LEMMA SortIsPermutation ==
    ASSUME NEW s, NEW n \in Nat, DOMAIN s = 1..n, \A i \in 1..n : s[i].deadline \in Int
    PROVE  \E p \in Bijection(1..n, 1..n) :
             /\ SortFrames(s) = [k \in 1..n |-> s[p[k]]]
             /\ \A k, l \in 1..n : k < l => SortedBefore(s, p[k], p[l])
<1> DEFINE f == [i \in 1..n |-> SortedIndex(s, i)]
           p == [k \in 1..n |-> CHOOSE i \in 1..n : SortedIndex(s, i) = k]
<1>1. f \in [1..n -> 1..n]
  BY SortedIndexIsMonotonic
<1>2. ASSUME NEW i \in 1..n, NEW j \in 1..n, f[i] = f[j] PROVE i = j
  <2>1. f[i] = SortedIndex(s, i) /\ f[j] = SortedIndex(s, j)
    OBVIOUS
  <2>2. SortedBefore(s, i, j) \/ SortedBefore(s, j, i)
    BY SortedBeforeIsTotal
  <2> QED
    BY <1>2, <2>1, <2>2, SortedIndexIsMonotonic
<1>3. f \in Injection(1..n, 1..n)
  BY <1>1, <1>2, Zenon DEF Injection, IsInjective
<1>4. f \in Surjection(1..n, 1..n)
  BY <1>3, FS_Injection, FS_Interval
<1>5. \A k \in 1..n : \E i \in 1..n : SortedIndex(s, i) = k
  BY <1>4, Zenon DEF Surjection
<1>6. \A k \in 1..n : p[k] \in 1..n /\ f[p[k]] = k
  BY <1>5, ZenonT(60)
<1>7. SortFrames(s) = [k \in 1..n |-> s[p[k]]]
  BY DEF SortFrames
<1>8. ASSUME NEW k \in 1..n, NEW l \in 1..n, k < l PROVE SortedBefore(s, p[k], p[l])
  <2>1. p[k] \in 1..n /\ p[l] \in 1..n /\ f[p[k]] = k /\ f[p[l]] = l
    BY <1>6, Zenon
  <2>2. SortedIndex(s, p[k]) = k /\ SortedIndex(s, p[l]) = l
    BY <2>1
  <2>3. ~(SortedBefore(s, p[l], p[k]) /\ p[l] # p[k])
    <3> HIDE DEF p, f
    <3>1. SortedBefore(s, p[l], p[k]) /\ p[l] # p[k] => l < k
      BY <2>1, <2>2, SortedIndexIsMonotonic, ZenonT(60)
    <3> QED
      BY <1>8, <3>1
  <2> HIDE DEF p, f
  <2> QED
    BY <2>1, <2>2, <2>3, <1>8, SortedBeforeIsTotal, Zenon
<1>9. p \in Bijection(1..n, 1..n)
  <2> HIDE DEF p
  <2>0. p \in [1..n -> 1..n]
    BY <1>6, ZenonT(60) DEF p
  <2> HIDE DEF f
  <2>1. \A k, l \in 1..n : p[k] = p[l] => k = l
    BY <1>6
  <2>2. \A i \in 1..n : \E k \in 1..n : p[k] = i
    <3> TAKE i \in 1..n
    <3>1. f[i] \in 1..n /\ p[f[i]] \in 1..n /\ f[p[f[i]]] = f[i]
      BY <1>1, <1>6
    <3>2. p[f[i]] = i
      BY <1>2, <3>1
    <3> QED
      BY <3>1, <3>2
  <2> QED
    BY <2>0, <2>1, <2>2, ZenonT(60) DEF Bijection, Injection, Surjection, IsInjective
<1> HIDE DEF p
<1> QED
  BY <1>7, <1>8, <1>9

-----------------------------------------------------------------------------
(* What the goroutine keeps true. *)

QueuedFrames == [id : Frames, deadline : Int, flags : SUBSET Flags, spoofed : Seq(STRING)]
Deliveries == [id : Frames, at : Nat, flags : SUBSET Flags, spoofed : Seq(STRING)]

Typed ==
    /\ config \in DOMAIN Configs /\ now \in Nat /\ queuedBytes \in Int
    /\ source \in Seq(Frames)
    /\ outgoing \in Seq(QueuedFrames) /\ inflight \in Seq(QueuedFrames)
    /\ delivered \in Seq(Deliveries)
    /\ lost \subseteq Frames /\ tailDropped \subseteq Frames
    /\ readAt \in [Frames -> Nat \cup {Never}]
    /\ verdict \in [Frames -> cfg.policies \cup {NoMatch}]

\* No frame is twice in a slice.
OneEach(s) == \A i, j \in DOMAIN s : s[i].id = s[j].id => i = j

\* A frame waits in the NIC until it is read, and leaves the TX buffer once.
Placed ==
    /\ \A i \in DOMAIN source : readAt[source[i]] = Never
    /\ \A i, j \in DOMAIN source : source[i] = source[j] => i = j
    /\ OneEach(outgoing) /\ OneEach(inflight)
    /\ Ids(outgoing) \cap (Ids(inflight) \cup Ids(delivered) \cup lost) = {}
    /\ \A f \in Ids(outgoing) \cup Ids(inflight) \cup Ids(delivered) \cup lost \cup tailDropped :
         readAt[f] # Never

\* What the answer v of the DPI amounts to on a link with configuration c.
Extra(v) == IF v = NoMatch THEN 0 ELSE v.delay
Rate(c, v) == IF v = NoMatch THEN c.PLR ELSE c.PLR + v.plr
Asked(v) == IF v = NoMatch THEN {} ELSE v.flags
MayLose(c, v) == Rate(c, v) > 0 \/ FrameFlagDrop \in Asked(v)

\* A frame x in flight that was read at time t and got the answer v is due no
\* earlier than its delays ask for and carries the answer, with the drop flag
\* exactly where the answer or the draw of a loss put it.
Carries(c, x, v, t) ==
    /\ x.deadline >= t + c.OneWayDelay + Extra(v)
    /\ FrameFlagDrop \notin x.flags => x.flags = Asked(v) /\ Rate(c, v) < 100
    /\ FrameFlagDrop \in x.flags => MayLose(c, v)
    /\ v # NoMatch => x.spoofed = v.spoofed

\* So does a delivered frame.
Honours(c, d, v, t) ==
    /\ d.at >= t + c.OneWayDelay + Extra(v)
    /\ d.flags = Asked(v) /\ FrameFlagDrop \notin Asked(v) /\ Rate(c, v) < 100
    /\ v # NoMatch => d.spoofed = v.spoofed

Faithful ==
    /\ \A x \in Range(outgoing) : x.flags = {} /\ readAt[x.id] <= now
    /\ \A x \in Range(inflight) : Carries(cfg, x, verdict[x.id], readAt[x.id])
    /\ \A d \in Range(delivered) : Honours(cfg, d, verdict[d.id], readAt[d.id])
    /\ \A f \in lost : MayLose(cfg, verdict[f])

IInv == Typed /\ Placed /\ Faithful

-----------------------------------------------------------------------------
(* The operations on a slice of frames that are all different. *)

\* A queued frame has an identity, a deadline and flags.
LEMMA QueuedFrameFields ==
    ASSUME NEW x \in QueuedFrames
    PROVE  x.id \in Frames /\ x.deadline \in Int /\ x.flags \in SUBSET Flags
           /\ x.spoofed \in Seq(STRING)
  BY DEF QueuedFrames

\* What the transmitter queues is a frame with its deadline and no flags.
LEMMA QueuedFrameType ==
    ASSUME NEW f \in Frames, NEW d \in Int
    PROVE  /\ QueuedFrame(f, d) \in QueuedFrames
           /\ QueuedFrame(f, d).id = f /\ QueuedFrame(f, d).flags = {}
<1>1. <<>> \in Seq(STRING) /\ {} \in SUBSET Flags
  OBVIOUS
<1> QED
  BY <1>1 DEF QueuedFrame, QueuedFrames

\* The identities of a slice are those of its elements.
LEMMA IdsOfRange ==
    ASSUME NEW s, NEW t, Range(s) = Range(t)
    PROVE  Ids(s) = Ids(t)
<1>1. \A u : Ids(u) = {x.id : x \in Range(u)}
  BY DEF Ids, Range
<1> QED
  BY <1>1

\* A sort keeps the frames of a slice and puts in front one that is due first.
LEMMA SortedSlice ==
    ASSUME NEW s \in Seq(QueuedFrames), OneEach(s)
    PROVE  LET t == SortFrames(s) IN
           /\ t \in Seq(QueuedFrames) /\ OneEach(t)
           /\ Range(t) = Range(s) /\ Ids(t) = Ids(s)
           /\ s = <<>> <=> t = <<>>
           /\ s # <<>> => \E i \in DOMAIN s : /\ t[1] = s[i]
                                              /\ \A j \in DOMAIN s : SortedBefore(s, i, j)
<1> DEFINE n == Len(s)
           t == SortFrames(s)
<1>1. n \in Nat /\ DOMAIN s = 1..n /\ \A i \in 1..n : s[i] \in QueuedFrames /\ s[i].deadline \in Int
  BY LenProperties, ElementOfSeq, QueuedFrameFields
<1> HIDE DEF n
<1>2. PICK p \in Bijection(1..n, 1..n) :
             /\ t = [k \in 1..n |-> s[p[k]]]
             /\ \A k, l \in 1..n : k < l => SortedBefore(s, p[k], p[l])
  BY <1>1, SortIsPermutation, ZenonT(60)
<1> HIDE DEF t
<1>3. /\ \A k \in 1..n : p[k] \in 1..n
      /\ \A k, l \in 1..n : p[k] = p[l] => k = l
      /\ \A i \in 1..n : \E k \in 1..n : p[k] = i
  BY Zenon DEF Bijection, Injection, Surjection, IsInjective
<1>4. DOMAIN t = 1..n /\ \A k \in 1..n : t[k] = s[p[k]] /\ t[k] \in QueuedFrames
  BY <1>1, <1>2, <1>3
<1>5. t \in Seq(QueuedFrames) /\ Len(t) = n
  <2>1. t \in [1..n -> QueuedFrames]
    BY <1>2, <1>4
  <2> QED
    BY <1>1, <2>1
<1>6. OneEach(t)
  <2> SUFFICES ASSUME NEW k \in 1..n, NEW l \in 1..n, t[k].id = t[l].id PROVE k = l
    BY <1>4 DEF OneEach
  <2>1. p[k] \in DOMAIN s /\ p[l] \in DOMAIN s /\ t[k] = s[p[k]] /\ t[l] = s[p[l]]
    BY <1>1, <1>3, <1>4
  <2>2. p[k] = p[l]
    BY <2>1 DEF OneEach
  <2> QED
    BY <1>3, <2>2
<1>7. Range(t) = Range(s)
  <2>1. \A k \in DOMAIN t : t[k] \in Range(s)
    <3> TAKE k \in DOMAIN t
    <3>1. p[k] \in DOMAIN s /\ t[k] = s[p[k]]
      BY <1>1, <1>3, <1>4, Zenon
    <3> QED
      BY <3>1 DEF Range
  <2>2. \A i \in DOMAIN s : s[i] \in Range(t)
    <3> TAKE i \in DOMAIN s
    <3>1. PICK k \in 1..n : p[k] = i
      BY <1>1, <1>3, ZenonT(60)
    <3>2. k \in DOMAIN t /\ t[k] = s[i]
      BY <1>4, <3>1
    <3> QED
      BY <3>2 DEF Range
  <2> QED
    BY <2>1, <2>2 DEF Range
<1>8. Ids(t) = Ids(s)
  BY <1>7, IdsOfRange
<1>9. s = <<>> <=> t = <<>>
  BY <1>1, <1>5 DEF n
<1>10. ASSUME s # <<>>
       PROVE  \E i \in DOMAIN s : t[1] = s[i] /\ \A j \in DOMAIN s : SortedBefore(s, i, j)
  <2>1. 1 \in 1..n
    BY <1>1, <1>10, EmptySeq DEF n
  <2>2. p[1] \in DOMAIN s /\ t[1] = s[p[1]]
    BY <1>1, <1>3, <1>4, <2>1, Zenon
  <2>3. ASSUME NEW j \in DOMAIN s PROVE SortedBefore(s, p[1], j)
    <3>1. PICK k \in 1..n : p[k] = j
      BY <1>1, <1>3, Zenon
    <3>2. CASE k = 1
      BY <1>1, <3>1, <3>2 DEF SortedBefore
    <3>3. CASE k # 1
      <4>1. 1 < k
        BY <3>3
      <4> QED
        BY <1>2, <2>1, <3>1, <4>1
    <3> QED
      BY <3>2, <3>3
  <2> QED
    BY <2>2, <2>3
<1> QED
  BY <1>5, <1>6, <1>7, <1>8, <1>9, <1>10 DEF t

\* Dequeuing takes out the frame in front and no other.
LEMMA DequeuedSlice ==
    ASSUME NEW s \in Seq(QueuedFrames), OneEach(s), s # <<>>
    PROVE  /\ s[1] \in QueuedFrames /\ s[1] \in Range(s)
           /\ Tail(s) \in Seq(QueuedFrames) /\ OneEach(Tail(s))
           /\ Range(Tail(s)) \subseteq Range(s)
           /\ Ids(Tail(s)) = Ids(s) \ {s[1].id}
<1> DEFINE n == Len(s)
           t == Tail(s)
<1>1. n \in Nat \ {0} /\ DOMAIN s = 1..n /\ \A i \in 1..n : s[i] \in QueuedFrames
  BY LenProperties, ElementOfSeq, EmptySeq
<1>2. t \in Seq(QueuedFrames) /\ Len(t) = n - 1 /\ \A i \in 1..(n - 1) : t[i] = s[i + 1]
  BY HeadTailProperties
<1>3. DOMAIN t = 1..(n - 1)
  BY <1>2, LenProperties
<1> HIDE DEF n, t
<1>4. \A i \in DOMAIN t : i + 1 \in DOMAIN s /\ t[i] = s[i + 1] /\ i \in Int /\ i + 1 # 1
  BY <1>1, <1>2, <1>3
<1>5. \A j \in DOMAIN s : j # 1 => j - 1 \in DOMAIN t /\ t[j - 1] = s[j]
  <2> TAKE j \in DOMAIN s
  <2> HAVE j # 1
  <2>1. j - 1 \in 1..(n - 1) /\ (j - 1) + 1 = j
    BY <1>1
  <2> QED
    BY <1>2, <1>3, <2>1
<1>6. OneEach(t)
  <2> SUFFICES ASSUME NEW i \in DOMAIN t, NEW j \in DOMAIN t, t[i].id = t[j].id PROVE i = j
    BY DEF OneEach
  <2>1. i + 1 = j + 1
    BY <1>4 DEF OneEach
  <2> QED
    BY <1>4, <2>1
<1>7. Range(t) \subseteq Range(s)
  BY <1>4 DEF Range
<1>8. 1 \in DOMAIN s /\ s[1] \in QueuedFrames /\ s[1] \in Range(s)
  BY <1>1 DEF Range
<1>9. Ids(t) = Ids(s) \ {s[1].id}
  <2>1. \A i \in DOMAIN t : t[i].id \in Ids(s) /\ t[i].id # s[1].id
    BY <1>4, <1>8 DEF Ids, OneEach
  <2>2. \A j \in DOMAIN s : s[j].id # s[1].id => s[j].id \in Ids(t)
    BY <1>5 DEF Ids
  <2> QED
    BY <2>1, <2>2, ZenonT(60) DEF Ids
<1> QED
  BY <1>2, <1>6, <1>7, <1>8, <1>9 DEF t

\* Appending adds one frame.
LEMMA AppendedSlice ==
    ASSUME NEW S, NEW s \in Seq(S), NEW x \in S
    PROVE  /\ Append(s, x) \in Seq(S)
           /\ Range(Append(s, x)) = Range(s) \cup {x}
           /\ Ids(Append(s, x)) = Ids(s) \cup {x.id}
           /\ OneEach(s) /\ x.id \notin Ids(s) => OneEach(Append(s, x))
<1> DEFINE t == Append(s, x)
           n == Len(s)
<1>1. n \in Nat /\ DOMAIN s = 1..n
  BY LenProperties
<1>2. t \in Seq(S) /\ Len(t) = n + 1 /\ (\A i \in 1..n : t[i] = s[i]) /\ t[n + 1] = x
  BY AppendProperties
<1>3. DOMAIN t = 1..(n + 1)
  BY <1>2, LenProperties
<1> HIDE DEF t, n
<1>4. DOMAIN t = DOMAIN s \cup {n + 1} /\ n + 1 \notin DOMAIN s
  BY <1>1, <1>3
<1>5. \A i \in DOMAIN s : t[i] = s[i]
  BY <1>1, <1>2
<1>6. Range(t) = Range(s) \cup {x}
  BY <1>2, <1>4, <1>5 DEF Range
<1>7. Ids(t) = Ids(s) \cup {x.id}
  BY <1>2, <1>4, <1>5 DEF Ids
<1>8. ASSUME OneEach(s), x.id \notin Ids(s) PROVE OneEach(t)
  <2>1. \A i \in DOMAIN s : s[i].id # x.id
    BY <1>8 DEF Ids
  <2> QED
    BY <1>2, <1>4, <1>5, <1>8, <2>1 DEF OneEach
<1> QED
  BY <1>2, <1>6, <1>7, <1>8, Zenon DEF t

-----------------------------------------------------------------------------
(* The receiver. *)

\* What is delivered for a frame that is taken out of flight.
Delivery(x) == [id |-> x.id, at |-> now, flags |-> x.flags, spoofed |-> x.spoofed]

\* What happens to the frame that leaves, when one does: it is due, no other frame
\* is due earlier, and it is delivered or dropped as its flags say.
Leaves(flying, i) ==
    /\ \A j \in DOMAIN flying : SortedBefore(flying, i, j)
    /\ flying[i].deadline <= now
    /\ Range(inflight') \subseteq Range(flying)
    /\ Ids(inflight') = Ids(flying) \ {flying[i].id}
    /\ \/ /\ FrameFlagDrop \notin flying[i].flags
          /\ delivered' = Append(delivered, Delivery(flying[i])) /\ lost' = lost
       \/ /\ FrameFlagDrop \in flying[i].flags
          /\ lost' = lost \cup {flying[i].id} /\ delivered' = delivered

\* A tick of the receiver sorts the frames in flight and takes at most one out.
LEMMA ReceiveEffect ==
    ASSUME Typed, NEW flying \in Seq(QueuedFrames), OneEach(flying), Receive(flying)
    PROVE  /\ inflight' \in Seq(QueuedFrames) /\ OneEach(inflight')
           /\ \/ /\ Range(inflight') = Range(flying) /\ Ids(inflight') = Ids(flying)
                 /\ delivered' = delivered /\ lost' = lost
              \/ flying # <<>> /\ \E i \in DOMAIN flying : Leaves(flying, i)
<1> DEFINE sorted == SortFrames(flying)
<1>1. /\ sorted \in Seq(QueuedFrames) /\ OneEach(sorted)
      /\ Range(sorted) = Range(flying) /\ Ids(sorted) = Ids(flying)
      /\ flying = <<>> <=> sorted = <<>>
      /\ flying # <<>> => \E i \in DOMAIN flying :
                            /\ sorted[1] = flying[i]
                            /\ \A j \in DOMAIN flying : SortedBefore(flying, i, j)
  BY SortedSlice, Zenon
<1>2. \/ inflight' = sorted /\ delivered' = delivered /\ lost' = lost
      \/ /\ flying # <<>> /\ ~(sorted[1].deadline > now) /\ inflight' = Tail(sorted)
         /\ DeliveryOrDrop(sorted[1])
  BY DEF Receive, Pending, Dequeued
<1> HIDE DEF sorted
<1>3. CASE inflight' = sorted /\ delivered' = delivered /\ lost' = lost
  BY <1>1, <1>3
<1>4. CASE /\ flying # <<>> /\ ~(sorted[1].deadline > now) /\ inflight' = Tail(sorted)
           /\ DeliveryOrDrop(sorted[1])
  <2>1. PICK i \in DOMAIN flying : /\ sorted[1] = flying[i]
                                   /\ \A j \in DOMAIN flying : SortedBefore(flying, i, j)
    BY <1>1, <1>4, Zenon
  <2>2. /\ sorted[1] \in QueuedFrames
        /\ inflight' \in Seq(QueuedFrames) /\ OneEach(inflight')
        /\ Range(inflight') \subseteq Range(sorted) /\ Ids(inflight') = Ids(sorted) \ {sorted[1].id}
    BY <1>1, <1>4, DequeuedSlice, Zenon
  <2>3. sorted[1].deadline \in Int /\ now \in Nat
    BY <2>2, QueuedFrameFields, Zenon DEF Typed
  <2>4. sorted[1].deadline <= now
    BY <1>4, <2>3
  <2>5. \/ /\ FrameFlagDrop \notin flying[i].flags
           /\ delivered' = Append(delivered, Delivery(flying[i])) /\ lost' = lost
        \/ /\ FrameFlagDrop \in flying[i].flags
           /\ lost' = lost \cup {flying[i].id} /\ delivered' = delivered
    BY <1>4, <2>1, ZenonT(60) DEF DeliveryOrDrop, ToDrop, Delivery
  <2>6. Leaves(flying, i)
    BY <1>1, <2>1, <2>2, <2>4, <2>5, ZenonT(60) DEF Leaves
  <2> QED
    BY <1>4, <2>2, <2>6
<1> QED
  BY <1>2, <1>3, <1>4, Zenon

\* What is delivered is a delivery of the frame.
LEMMA DeliveryFields ==
    ASSUME now \in Nat, NEW x \in QueuedFrames
    PROVE  /\ Delivery(x) \in Deliveries
           /\ Delivery(x).id = x.id /\ Delivery(x).at = now
           /\ Delivery(x).flags = x.flags /\ Delivery(x).spoofed = x.spoofed
<1>1. x.id \in Frames /\ x.flags \in SUBSET Flags /\ x.spoofed \in Seq(STRING)
  BY QueuedFrameFields
<1> QED
  BY <1>1, ZenonT(60) DEF Delivery, Deliveries

\* A frame that was not to be dropped and whose time has come is delivered as its
\* verdict asks.
LEMMA DeliveryHonours ==
    ASSUME now \in Nat, NEW x \in QueuedFrames, NEW c, NEW v, NEW t,
           t + c.OneWayDelay + Extra(v) \in Int,
           Carries(c, x, v, t), FrameFlagDrop \notin x.flags, x.deadline <= now
    PROVE  Honours(c, Delivery(x), v, t)
<1> DEFINE due == t + c.OneWayDelay + Extra(v)
           d == Delivery(x)
<1>1. d.at = now /\ d.flags = x.flags /\ d.spoofed = x.spoofed
  BY DeliveryFields, Zenon
<1>2. due \in Int /\ x.deadline \in Int /\ x.deadline >= due
  BY QueuedFrameFields, Zenon DEF Carries
<1>3. x.flags = Asked(v) /\ Rate(c, v) < 100 /\ (v # NoMatch => x.spoofed = v.spoofed)
  BY DEF Carries
<1> HIDE DEF due, d
<1>4. d.at >= due
  BY <1>1, <1>2, SMTT(60)
<1> QED
  BY <1>1, <1>3, <1>4 DEF Honours, due, d

\* The receiver keeps every frame, in flight, delivered or lost, true to the verdicts
\* "answers", which are those that hold once the tick is over.
LEMMA ReceiveKeeps ==
    ASSUME Typed, NEW flying \in Seq(QueuedFrames), OneEach(flying), Receive(flying),
           NEW answers,
           \A f \in Frames : readAt[f] + cfg.OneWayDelay + Extra(answers[f]) \in Int,
           \A x \in Range(flying) : Carries(cfg, x, answers[x.id], readAt[x.id]),
           \A d \in Range(delivered) : Honours(cfg, d, answers[d.id], readAt[d.id]),
           \A f \in lost : MayLose(cfg, answers[f])
    PROVE  /\ inflight' \in Seq(QueuedFrames) /\ OneEach(inflight')
           /\ delivered' \in Seq(Deliveries) /\ lost' \subseteq Frames
           /\ Ids(inflight') \cup Ids(delivered') \cup lost'
                = Ids(flying) \cup Ids(delivered) \cup lost
           /\ \A x \in Range(inflight') : Carries(cfg, x, answers[x.id], readAt[x.id])
           /\ \A d \in Range(delivered') : Honours(cfg, d, answers[d.id], readAt[d.id])
           /\ \A f \in lost' : MayLose(cfg, answers[f])
<1>0. now \in Nat /\ delivered \in Seq(Deliveries) /\ lost \subseteq Frames
  BY Zenon DEF Typed
<1>1. /\ inflight' \in Seq(QueuedFrames) /\ OneEach(inflight')
      /\ \/ /\ Range(inflight') = Range(flying) /\ Ids(inflight') = Ids(flying)
            /\ delivered' = delivered /\ lost' = lost
         \/ flying # <<>> /\ \E i \in DOMAIN flying : Leaves(flying, i)
  BY ReceiveEffect, Zenon
<1>2. CASE /\ Range(inflight') = Range(flying) /\ Ids(inflight') = Ids(flying)
           /\ delivered' = delivered /\ lost' = lost
  BY <1>0, <1>1, <1>2, Zenon
<1>3. ASSUME NEW i \in DOMAIN flying, Leaves(flying, i)
      PROVE  /\ delivered' \in Seq(Deliveries) /\ lost' \subseteq Frames
             /\ Ids(inflight') \cup Ids(delivered') \cup lost'
                  = Ids(flying) \cup Ids(delivered) \cup lost
             /\ \A x \in Range(inflight') : Carries(cfg, x, answers[x.id], readAt[x.id])
             /\ \A d \in Range(delivered') : Honours(cfg, d, answers[d.id], readAt[d.id])
             /\ \A f \in lost' : MayLose(cfg, answers[f])
  <2>1. PICK x \in QueuedFrames : x = flying[i]
    BY <1>3, ElementOfSeq, LenProperties, Zenon
  <2>2. x \in Range(flying) /\ x.id \in Ids(flying) /\ x.id \in Frames
    BY <2>1, QueuedFrameFields, Zenon DEF Range, Ids
  <2>3. /\ x.deadline <= now /\ Range(inflight') \subseteq Range(flying)
        /\ Ids(inflight') = Ids(flying) \ {x.id}
        /\ \/ /\ FrameFlagDrop \notin x.flags
              /\ delivered' = Append(delivered, Delivery(x)) /\ lost' = lost
           \/ /\ FrameFlagDrop \in x.flags
              /\ lost' = lost \cup {x.id} /\ delivered' = delivered
    BY <1>3, <2>1, Zenon DEF Leaves
  <2>4. Carries(cfg, x, answers[x.id], readAt[x.id])
    BY <2>2, Zenon
  <2>5. \A y \in Range(inflight') : Carries(cfg, y, answers[y.id], readAt[y.id])
    BY <2>3, Zenon
  <2>6. CASE /\ FrameFlagDrop \notin x.flags
             /\ delivered' = Append(delivered, Delivery(x)) /\ lost' = lost
    <3>1. PICK d \in Deliveries : d = Delivery(x) /\ d.id = x.id
      BY <1>0, DeliveryFields, Zenon
    <3>2. /\ delivered' \in Seq(Deliveries) /\ Range(delivered') = Range(delivered) \cup {d}
          /\ Ids(delivered') = Ids(delivered) \cup {x.id}
      BY <1>0, <2>6, <3>1, AppendedSlice, SMTT(60)
    <3>3. Honours(cfg, d, answers[d.id], readAt[d.id])
      BY <1>0, <2>2, <2>3, <2>4, <2>6, <3>1, DeliveryHonours, Zenon
    <3> QED
      BY <1>0, <2>2, <2>3, <2>5, <2>6, <3>2, <3>3, SMTT(60)
  <2>7. CASE /\ FrameFlagDrop \in x.flags
             /\ lost' = lost \cup {x.id} /\ delivered' = delivered
    <3>1. MayLose(cfg, answers[x.id])
      BY <2>4, <2>7, Zenon DEF Carries
    <3> QED
      BY <1>0, <2>2, <2>3, <2>5, <2>7, <3>1, ZenonT(60)
  <2> QED
    BY <2>3, <2>6, <2>7, Zenon
<1> QED
  BY <1>1, <1>2, <1>3, Zenon

-----------------------------------------------------------------------------
(* The transmitter. *)

\* The types of a configuration and of the answers of its DPI engine.
LEMMA ConfigTypes ==
    ASSUME Typed
    PROVE  /\ cfg.OneWayDelay \in Nat /\ cfg.PLR \in Nat
           /\ cfg.jitters \subseteq Nat /\ cfg.draws \subseteq 0..99
           /\ \A v \in cfg.policies \cup {NoMatch} :
                /\ Extra(v) \in Nat /\ Rate(cfg, v) \in Nat /\ Asked(v) \in SUBSET Flags
                /\ v # NoMatch => v.spoofed \in Seq(STRING)
<1>0. config \in DOMAIN Configs /\ cfg = Configs[config]
  BY DEF Typed, cfg
<1>1. /\ cfg.OneWayDelay \in Nat /\ cfg.PLR \in 0..100
      /\ cfg.jitters \subseteq Nat /\ cfg.draws \subseteq 0..99
  <2>1. \A c \in DOMAIN Configs : Configs[c].OneWayDelay \in Nat /\ Configs[c].PLR \in 0..100
    BY FullAssumption, ZenonT(60)
  <2>2. \A c \in DOMAIN Configs :
          Configs[c].jitters \subseteq Nat /\ Configs[c].draws \subseteq 0..99
    BY FullAssumption, ZenonT(60)
  <2> QED
    BY <1>0, <2>1, <2>2, ZenonT(60)
<1>2. \A v \in cfg.policies : /\ v.delay \in Nat /\ v.flags \in SUBSET Flags
                              /\ v.plr \in 0..100 /\ v.spoofed \in Seq(STRING)
  <2>1. cfg.policies \subseteq [delay : Nat, flags : SUBSET Flags, plr : 0..100,
                                spoofed : Seq(STRING)]
    BY <1>0, FullAssumption, Zenon
  <2> QED
    BY <2>1, Zenon
<1>3. cfg.PLR \in Nat /\ \A v \in cfg.policies : v.plr \in Nat
  <2>1. \A n \in 0..100 : n \in Nat
    OBVIOUS
  <2> QED
    BY <1>1, <1>2, <2>1, ZenonT(60)
<1>4. ASSUME NEW v \in cfg.policies \cup {NoMatch}
      PROVE  /\ Extra(v) \in Nat /\ Rate(cfg, v) \in Nat /\ Asked(v) \in SUBSET Flags
             /\ v # NoMatch => v.spoofed \in Seq(STRING)
  <2>1. CASE v = NoMatch
    <3>1. Extra(v) = 0 /\ Rate(cfg, v) = cfg.PLR /\ Asked(v) = {}
      BY <2>1 DEF Extra, Rate, Asked
    <3> QED
      BY <1>3, <2>1, <3>1
  <2>2. CASE v # NoMatch
    <3>1. v \in cfg.policies
      BY <2>2
    <3>2. Extra(v) = v.delay /\ Rate(cfg, v) = cfg.PLR + v.plr /\ Asked(v) = v.flags
      BY <2>2 DEF Extra, Rate, Asked
    <3>3. v.delay \in Nat /\ v.flags \in SUBSET Flags /\ v.spoofed \in Seq(STRING)
      BY <1>2, <3>1, ZenonT(60)
    <3>4. cfg.PLR + v.plr \in Nat
      BY <1>3, <3>1, SMTT(60)
    <3> QED
      BY <3>2, <3>3, <3>4, ZenonT(60)
  <2> QED
    BY <2>1, <2>2, ZenonT(60)
<1> QED
  BY <1>1, <1>3, <1>4, ZenonT(60)

\* The frame put in flight is the transmitted one, with the DPI's answer and the
\* drawn loss applied, and due after the delays that they ask for.
LEMMA TransmittedCarries ==
    ASSUME Typed, NEW frame \in QueuedFrames, frame.flags = {}, readAt[frame.id] \in Nat,
           readAt[frame.id] <= now, NEW answer \in cfg.policies \cup {NoMatch},
           NEW j \in cfg.jitters, NEW r \in cfg.draws
    PROVE  LET x == Transmitted(frame, answer, j, r) IN
           /\ x \in QueuedFrames /\ x.id = frame.id
           /\ Carries(cfg, x, answer, readAt[frame.id])
<1> DEFINE x == Transmitted(frame, answer, j, r)
           t == readAt[frame.id]
           jitter == j * Microsecond
           due == now + cfg.OneWayDelay + jitter + Extra(answer)
           kept == Asked(answer)
           flags == IF r < Rate(cfg, answer) THEN kept \cup {FrameFlagDrop} ELSE kept
           spoofed == IF answer # NoMatch THEN answer.spoofed ELSE frame.spoofed
<1>1. /\ cfg.OneWayDelay \in Nat /\ j \in Nat /\ r \in 0..99
      /\ Extra(answer) \in Nat /\ Rate(cfg, answer) \in Nat /\ Asked(answer) \in SUBSET Flags
      /\ answer # NoMatch => answer.spoofed \in Seq(STRING)
  BY ConfigTypes, ZenonT(60)
<1>2. frame.id \in Frames /\ frame.spoofed \in Seq(STRING) /\ now \in Nat
  BY QueuedFrameFields, Zenon DEF Typed
<1>3. jitter \in Nat
  <2>1. \A a, b \in Nat : a * b \in Nat
    OBVIOUS
  <2> QED
    BY <1>1, <2>1, FullAssumption, Zenon
<1>4. x = [id |-> frame.id, deadline |-> due, flags |-> flags, spoofed |-> spoofed]
  BY ZenonT(60) DEF Transmitted, Extra, Rate, Asked
<1> HIDE DEF x, jitter
<1>5. due \in Int /\ due >= t + cfg.OneWayDelay + Extra(answer)
  <2>1. \A n, o, k, e, u \in Nat : u <= n => n + o + k + e \in Int /\ n + o + k + e >= u + o + e
    OBVIOUS
  <2> QED
    BY <1>1, <1>2, <1>3, <2>1, ZenonT(60)
<1>6. flags \in SUBSET Flags /\ spoofed \in Seq(STRING)
  BY <1>1, <1>2, Zenon DEF Flags
<1>7. /\ FrameFlagDrop \notin flags => flags = Asked(answer) /\ Rate(cfg, answer) < 100
      /\ FrameFlagDrop \in flags => MayLose(cfg, answer)
  <2>1. \A n \in Nat, k \in 0..99 : k < n => n > 0
    OBVIOUS
  <2>2. \A n \in Nat, k \in 0..99 : ~(k < n) => n < 100
    OBVIOUS
  <2>3. Rate(cfg, answer) \in Nat /\ r \in 0..99
    BY <1>1, ZenonT(60)
  <2>4. CASE r < Rate(cfg, answer)
    <3>1. flags = kept \cup {FrameFlagDrop} /\ Rate(cfg, answer) > 0
      BY <2>1, <2>3, <2>4, ZenonT(60)
    <3> QED
      BY <3>1, ZenonT(60) DEF MayLose
  <2>5. CASE ~(r < Rate(cfg, answer))
    <3>1. flags = kept /\ Rate(cfg, answer) < 100
      BY <2>2, <2>3, <2>5, ZenonT(60)
    <3> QED
      BY <3>1, ZenonT(60) DEF MayLose
  <2> QED
    BY <2>4, <2>5, ZenonT(60)
<1> HIDE DEF due, flags, spoofed
<1>8. x.id = frame.id /\ x.deadline = due /\ x.flags = flags /\ x.spoofed = spoofed
  BY <1>4, Zenon
<1>9. x \in QueuedFrames
  BY <1>2, <1>4, <1>5, <1>6, ZenonT(60) DEF QueuedFrames
<1>10. Carries(cfg, x, answer, t)
  BY <1>5, <1>7, <1>8, Zenon DEF Carries, spoofed
<1> QED
  BY <1>8, <1>9, <1>10, Zenon DEF x

-----------------------------------------------------------------------------
(* The invariant. *)

LEMMA FullInit == Init => IInv
<1> SUFFICES ASSUME Init PROVE IInv
  OBVIOUS
<1>0. /\ config \in DOMAIN Configs /\ now = 0 /\ queuedBytes = 0
      /\ source = <<>> /\ outgoing = <<>> /\ inflight = <<>> /\ delivered = <<>>
      /\ tailDropped = {} /\ lost = {}
      /\ readAt = [f \in Frames |-> Never] /\ verdict = [f \in Frames |-> NoMatch]
  BY Zenon DEF Init
<1>1. Typed
  BY <1>0 DEF Typed
<1>2. /\ Ids(outgoing) = {} /\ Ids(inflight) = {} /\ Ids(delivered) = {}
      /\ Range(outgoing) = {} /\ Range(inflight) = {} /\ Range(delivered) = {}
  BY <1>0 DEF Ids, Range
<1>3. Placed
  BY <1>0, <1>2 DEF Placed, OneEach
<1>4. Faithful
  BY <1>0, <1>2, Zenon DEF Faithful
<1> QED
  BY <1>1, <1>3, <1>4 DEF IInv

\* The clock, the closing of the NIC, the return of the goroutine and a read that
\* fails move no frame.
LEMMA FullIdle ==
    ASSUME IInv, Pass \/ CloseReader \/ StackClosed \/ ReadFails \/ UNCHANGED vars
    PROVE  IInv'
<1>1. /\ UNCHANGED <<config, source, outgoing, queuedBytes, readAt, tailDropped,
                     inflight, delivered, lost, verdict>>
      /\ now' = now \/ now' = now + 1
  BY Zenon DEF Pass, CloseReader, StackClosed, ReadFails, vars, nicVars, txVars, rxVars
<1>2. Typed'
  BY <1>1 DEF IInv, Typed, cfg
<1>3. Placed'
  BY <1>1, Zenon DEF IInv, Placed
<1>4. Faithful'
  <2>1. \A x \in Range(outgoing) : readAt[x.id] <= now => readAt[x.id] <= now'
    <3> TAKE x \in Range(outgoing)
    <3>1. x \in QueuedFrames
      BY RangeOfSeq DEF IInv, Typed
    <3>2. readAt[x.id] \in Int /\ now \in Int
      BY <3>1, QueuedFrameFields DEF IInv, Typed, Never
    <3> QED
      BY <1>1, <3>2
  <2>2. cfg' = cfg
    BY <1>1 DEF cfg
  <2> QED
    BY <1>1, <2>1, <2>2, Zenon DEF IInv, Faithful
<1> QED
  BY <1>2, <1>3, <1>4 DEF IInv

\* The reader NIC gets a frame that is new.
LEMMA FullEmit ==
    ASSUME IInv, NEW f \in Frames, Emit(f)
    PROVE  IInv'
<1>1. /\ UNCHANGED <<config, now, outgoing, queuedBytes, readAt, tailDropped,
                     inflight, delivered, lost, verdict>>
      /\ readAt[f] = Never /\ \A i \in DOMAIN source : source[i] # f
      /\ source' = Append(source, f)
  BY Zenon DEF Emit, txVars, rxVars
<1>2. /\ source \in Seq(Frames) /\ source' \in Seq(Frames)
      /\ Len(source) \in Nat /\ DOMAIN source = 1..Len(source)
      /\ DOMAIN source' = 1..(Len(source) + 1)
      /\ \A i \in 1..Len(source) : source'[i] = source[i]
      /\ source'[Len(source) + 1] = f
  BY <1>1, AppendProperties, LenProperties, SMTT(60) DEF IInv, Typed
<1>3. Typed'
  BY <1>1, <1>2, Zenon DEF IInv, Typed, cfg
<1>4. Placed'
  <2>1. \A i \in DOMAIN source' : i \in DOMAIN source \/ i = Len(source) + 1
    BY <1>2, SMTT(60)
  <2>2. \A i \in DOMAIN source' : readAt[source'[i]] = Never
    BY <1>1, <1>2, <2>1, SMTT(60) DEF IInv, Placed
  <2>3. \A i, j \in DOMAIN source' : source'[i] = source'[j] => i = j
    BY <1>1, <1>2, <2>1, SMTT(60) DEF IInv, Placed
  <2> QED
    BY <1>1, <2>2, <2>3, Zenon DEF IInv, Placed
<1>5. Faithful'
  BY <1>1, Zenon DEF IInv, Faithful, cfg
<1> QED
  BY <1>3, <1>4, <1>5 DEF IInv

\* Reading a frame stamps it, which changes the time of no frame that was read before.
LEMMA ReadEffect ==
    ASSUME IInv, NEW f \in Frames, ReadFrame(f)
    PROVE  /\ source' \in Seq(Frames)
           /\ readAt[f] = Never /\ readAt'[f] = now /\ now # Never
           /\ \A g \in Frames : g # f => readAt'[g] = readAt[g]
           /\ readAt' \in [Frames -> Nat \cup {Never}]
           /\ \A i \in DOMAIN source' : readAt'[source'[i]] = Never
           /\ \A i, j \in DOMAIN source' : source'[i] = source'[j] => i = j
           /\ f \notin Ids(outgoing) \cup Ids(inflight) \cup Ids(delivered)
                         \cup lost \cup tailDropped
<1>1. /\ source # <<>> /\ f = Head(source) /\ source' = Tail(source)
      /\ readAt' = [readAt EXCEPT ![f] = now]
  BY SMTT(60) DEF ReadFrame
<1>2. /\ source \in Seq(Frames) /\ now \in Nat /\ readAt \in [Frames -> Nat \cup {Never}]
      /\ \A i \in DOMAIN source : readAt[source[i]] = Never
      /\ \A i, j \in DOMAIN source : source[i] = source[j] => i = j
      /\ \A g \in Ids(outgoing) \cup Ids(inflight) \cup Ids(delivered) \cup lost \cup tailDropped :
           readAt[g] # Never
  BY Zenon DEF IInv, Typed, Placed
<1>3. /\ DOMAIN source = 1..Len(source) /\ Len(source) \in Nat \ {0} /\ f = source[1]
      /\ source' \in Seq(Frames) /\ DOMAIN source' = 1..(Len(source) - 1)
      /\ \A i \in DOMAIN source' : source'[i] = source[i + 1]
  BY <1>1, <1>2, HeadTailProperties, LenProperties, EmptySeq, SMTT(60)
<1>4. readAt[f] = Never
  BY <1>2, <1>3
<1>5. /\ readAt'[f] = now /\ (\A g \in Frames : g # f => readAt'[g] = readAt[g])
      /\ readAt' \in [Frames -> Nat \cup {Never}] /\ now # Never
  BY <1>1, <1>2, SMTT(60) DEF Never
<1>6. \A i \in DOMAIN source' : /\ i + 1 \in DOMAIN source /\ source'[i] = source[i + 1]
                                /\ source'[i] # f /\ source'[i] \in Frames
  <2> TAKE i \in DOMAIN source'
  <2>1. i + 1 \in DOMAIN source /\ 1 \in DOMAIN source /\ i + 1 # 1
    BY <1>3, SMTT(60)
  <2> QED
    BY <1>2, <1>3, <2>1, ElementOfSeq, SMTT(60)
<1>7. \A i \in DOMAIN source' : readAt'[source'[i]] = Never
  BY <1>2, <1>5, <1>6, SMTT(60)
<1>8. \A i, j \in DOMAIN source' : source'[i] = source'[j] => i = j
  <2> TAKE i, j \in DOMAIN source'
  <2>1. source'[i] = source'[j] => i + 1 = j + 1
    BY <1>2, <1>6, Zenon
  <2> QED
    BY <1>3, <2>1
<1> QED
  BY <1>2, <1>3, <1>4, <1>5, <1>7, <1>8, Zenon

\* The identities of the frames in a slice are frames.
LEMMA IdsAreFrames ==
    ASSUME Typed
    PROVE  /\ Ids(outgoing) \subseteq Frames /\ Ids(inflight) \subseteq Frames
           /\ Ids(delivered) \subseteq Frames
           /\ \A x \in Range(outgoing) : x.id \in Ids(outgoing) /\ x \in QueuedFrames
           /\ \A x \in Range(inflight) : x.id \in Ids(inflight) /\ x \in QueuedFrames
           /\ \A x \in Range(delivered) : x.id \in Ids(delivered)
<1>1. /\ \A i \in DOMAIN outgoing : outgoing[i].id \in Frames /\ outgoing[i] \in QueuedFrames
      /\ \A i \in DOMAIN inflight : inflight[i].id \in Frames /\ inflight[i] \in QueuedFrames
  BY ElementOfSeq, LenProperties, QueuedFrameFields, Zenon DEF Typed
<1>2. \A i \in DOMAIN delivered : delivered[i].id \in Frames
  <2>1. \A d \in Deliveries : d.id \in Frames
    BY SMTT(60) DEF Deliveries
  <2> QED
    BY <2>1, ElementOfSeq, LenProperties DEF Typed
<1> QED
  BY <1>1, <1>2, Zenon DEF Ids, Range

\* What is true of the frames that were read stays true when another one is.
LEMMA FaithfulFrame ==
    ASSUME IInv, NEW f \in Frames, ReadFrame(f), UNCHANGED <<config, now, rxVars>>
    PROVE  /\ \A x \in Range(outgoing) : x.flags = {} /\ readAt'[x.id] <= now
           /\ \A x \in Range(inflight) : Carries(cfg', x, verdict'[x.id], readAt'[x.id])
           /\ \A d \in Range(delivered) : Honours(cfg', d, verdict'[d.id], readAt'[d.id])
           /\ \A g \in lost : MayLose(cfg', verdict'[g])
           /\ \A g \in Ids(outgoing) \cup Ids(inflight) \cup Ids(delivered) \cup lost \cup tailDropped :
                readAt'[g] # Never
<1>1. cfg' = cfg /\ verdict' = verdict
  BY SMTT(60) DEF cfg, rxVars
<1>2. \A g \in Ids(outgoing) \cup Ids(inflight) \cup Ids(delivered) \cup lost \cup tailDropped :
        readAt'[g] = readAt[g] /\ readAt[g] # Never
  BY ReadEffect, IdsAreFrames DEF IInv, Typed, Placed
<1>3. /\ \A x \in Range(outgoing) : x.id \in Ids(outgoing)
      /\ \A x \in Range(inflight) : x.id \in Ids(inflight)
      /\ \A x \in Range(delivered) : x.id \in Ids(delivered)
  BY IdsAreFrames, Zenon DEF IInv
<1>4. /\ \A x \in Range(outgoing) : x.flags = {} /\ readAt[x.id] <= now
      /\ \A x \in Range(inflight) : Carries(cfg, x, verdict[x.id], readAt[x.id])
      /\ \A d \in Range(delivered) : Honours(cfg, d, verdict[d.id], readAt[d.id])
      /\ \A g \in lost : MayLose(cfg, verdict[g])
  BY Zenon DEF IInv, Faithful
<1> QED
  BY <1>1, <1>2, <1>3, <1>4, Zenon

\* A frame that does not fit in the TX buffer is dropped.
LEMMA FullDropTail ==
    ASSUME IInv, DropTail
    PROVE  IInv'
<1>1. PICK f \in Frames : /\ ReadFrame(f) /\ tailDropped' = tailDropped \cup {f}
                          /\ UNCHANGED <<config, now, outgoing, queuedBytes, rxVars>>
  BY DEF DropTail
<1>2. UNCHANGED <<inflight, delivered, lost, verdict>> /\ cfg' = cfg
  BY <1>1, SMTT(60) DEF rxVars, cfg
<1>3. /\ source' \in Seq(Frames) /\ readAt'[f] = now /\ now # Never
      /\ readAt' \in [Frames -> Nat \cup {Never}]
      /\ \A i \in DOMAIN source' : readAt'[source'[i]] = Never
      /\ \A i, j \in DOMAIN source' : source'[i] = source'[j] => i = j
  BY <1>1, ReadEffect, Zenon
<1>4. /\ \A x \in Range(outgoing) : x.flags = {} /\ readAt'[x.id] <= now
      /\ \A x \in Range(inflight) : Carries(cfg', x, verdict'[x.id], readAt'[x.id])
      /\ \A d \in Range(delivered) : Honours(cfg', d, verdict'[d.id], readAt'[d.id])
      /\ \A g \in lost : MayLose(cfg', verdict'[g])
      /\ \A g \in Ids(outgoing) \cup Ids(inflight) \cup Ids(delivered) \cup lost \cup tailDropped :
           readAt'[g] # Never
  BY <1>1, FaithfulFrame, Zenon
<1>5. Typed'
  BY <1>1, <1>2, <1>3, Zenon DEF IInv, Typed
<1>6. Placed'
  BY <1>1, <1>2, <1>3, <1>4, Zenon DEF IInv, Placed
<1>7. Faithful'
  BY <1>1, <1>2, <1>4, ZenonT(60) DEF Faithful
<1> QED
  BY <1>5, <1>6, <1>7 DEF IInv

\* The time to send some bytes is a number of nanoseconds.
LEMMA TxTimeType ==
    ASSUME NEW b \in Int
    PROVE  TxTime(b) \in Int
  BY FullAssumption DEF TxTime

\* A frame that fits is queued with the time at which it is to be transmitted.
LEMMA FullEnqueue ==
    ASSUME IInv, Enqueue
    PROVE  IInv'
<1>1. PICK f \in Frames : /\ ReadFrame(f)
                          /\ outgoing' = Append(outgoing, QueuedFrame(f, now + TxTime(queuedBytes)))
                          /\ queuedBytes' = queuedBytes + PayloadLen[f]
                          /\ UNCHANGED <<config, now, tailDropped, rxVars>>
  BY DEF Enqueue
<1>2. UNCHANGED <<inflight, delivered, lost, verdict>> /\ cfg' = cfg
  BY <1>1, SMTT(60) DEF rxVars, cfg
<1>3. /\ source' \in Seq(Frames) /\ readAt'[f] = now /\ now # Never
      /\ readAt' \in [Frames -> Nat \cup {Never}]
      /\ \A i \in DOMAIN source' : readAt'[source'[i]] = Never
      /\ \A i, j \in DOMAIN source' : source'[i] = source'[j] => i = j
      /\ f \notin Ids(outgoing) \cup Ids(inflight) \cup Ids(delivered) \cup lost \cup tailDropped
  BY <1>1, ReadEffect, Zenon
<1>4. /\ \A x \in Range(outgoing) : x.flags = {} /\ readAt'[x.id] <= now
      /\ \A x \in Range(inflight) : Carries(cfg', x, verdict'[x.id], readAt'[x.id])
      /\ \A d \in Range(delivered) : Honours(cfg', d, verdict'[d.id], readAt'[d.id])
      /\ \A g \in lost : MayLose(cfg', verdict'[g])
      /\ \A g \in Ids(outgoing) \cup Ids(inflight) \cup Ids(delivered) \cup lost \cup tailDropped :
           readAt'[g] # Never
  BY <1>1, FaithfulFrame, Zenon
<1>5. now \in Nat /\ queuedBytes \in Int /\ PayloadLen[f] \in Int
      /\ outgoing \in Seq(QueuedFrames) /\ OneEach(outgoing)
  <2>1. now \in Nat /\ queuedBytes \in Int /\ outgoing \in Seq(QueuedFrames)
    BY ZenonT(60) DEF IInv, Typed
  <2>2. OneEach(outgoing)
    BY ZenonT(60) DEF IInv, Placed
  <2>3. PayloadLen[f] \in Int
    BY FullAssumption, SMTT(60)
  <2> QED
    BY <2>1, <2>2, <2>3, ZenonT(60)
<1>6. PICK x \in QueuedFrames : /\ x = QueuedFrame(f, now + TxTime(queuedBytes))
                                /\ x.id = f /\ x.flags = {}
  <2>1. now + TxTime(queuedBytes) \in Int
    BY <1>5, TxTimeType, SMTT(60)
  <2> QED
    BY <2>1, QueuedFrameType, Zenon
<1>7. /\ outgoing' \in Seq(QueuedFrames) /\ OneEach(outgoing')
      /\ Range(outgoing') = Range(outgoing) \cup {x} /\ Ids(outgoing') = Ids(outgoing) \cup {f}
  BY <1>1, <1>3, <1>5, <1>6, AppendedSlice, SMTT(60)
<1>8. Typed'
  BY <1>1, <1>2, <1>3, <1>5, <1>7, SMTT(60) DEF IInv, Typed
<1>9. Placed'
  <2>1. Ids(outgoing') \cap (Ids(inflight) \cup Ids(delivered) \cup lost) = {}
    BY <1>3, <1>7, SMTT(60) DEF IInv, Placed
  <2> QED
    BY <1>1, <1>2, <1>3, <1>4, <1>7, <2>1, ZenonT(60) DEF IInv, Placed
<1>10. Faithful'
  <2>1. \A y \in Range(outgoing') : y.flags = {} /\ readAt'[y.id] <= now
    BY <1>3, <1>4, <1>5, <1>6, <1>7, SMTT(60)
  <2> QED
    BY <1>1, <1>2, <1>4, <2>1, Zenon DEF Faithful
<1> QED
  BY <1>8, <1>9, <1>10, SMTT(60) DEF IInv

\* A tick that finds the front of the TX buffer still pending only sorts it.
LEMMA FullTickWasted ==
    ASSUME IInv, TickWasted
    PROVE  IInv'
<1>1. /\ outgoing' = SortFrames(outgoing)
      /\ UNCHANGED <<config, now, source, queuedBytes, readAt, tailDropped,
                     inflight, delivered, lost, verdict>>
  BY Zenon DEF TickWasted, nicVars, rxVars
<1>2. outgoing \in Seq(QueuedFrames) /\ OneEach(outgoing)
  BY Zenon DEF IInv, Typed, Placed
<1>3. /\ outgoing' \in Seq(QueuedFrames) /\ OneEach(outgoing')
      /\ Range(outgoing') = Range(outgoing) /\ Ids(outgoing') = Ids(outgoing)
  BY <1>1, <1>2, SortedSlice, Zenon
<1>4. Typed'
  BY <1>1, <1>3, Zenon DEF IInv, Typed, cfg
<1>5. Placed'
  BY <1>1, <1>3, Zenon DEF IInv, Placed
<1>6. Faithful'
  BY <1>1, <1>3, Zenon DEF IInv, Faithful, cfg
<1> QED
  BY <1>4, <1>5, <1>6, SMTT(60) DEF IInv

\* The sums of times that the receiver compares are integers.
LEMMA DueTypes ==
    ASSUME Typed, NEW f \in Frames, NEW v \in cfg.policies \cup {NoMatch}
    PROVE  readAt[f] + cfg.OneWayDelay + Extra(v) \in Int
<1>1. readAt[f] \in Int /\ cfg.OneWayDelay \in Int /\ Extra(v) \in Int
  BY ConfigTypes, SMTT(60) DEF Typed, Never
<1> QED
  BY <1>1, SMTT(60)

\* A tick with an empty TX buffer only runs the receiver.
LEMMA FullTickReceive ==
    ASSUME IInv, TickReceive
    PROVE  IInv'
<1>1. /\ Receive(inflight)
      /\ UNCHANGED <<config, now, source, outgoing, queuedBytes, readAt, tailDropped, verdict>>
  BY SMTT(60) DEF TickReceive, nicVars, txVars
<1>2. Typed /\ inflight \in Seq(QueuedFrames) /\ OneEach(inflight)
  BY Zenon DEF IInv, Typed, Placed
<1>3. \A f \in Frames : readAt[f] + cfg.OneWayDelay + Extra(verdict[f]) \in Int
  BY <1>2, DueTypes, Zenon DEF Typed
<1>4. PICK flying \in Seq(QueuedFrames) : flying = inflight
  BY <1>2
<1>5. PICK answers : answers = verdict
  BY SMTT(60)
<1>6. /\ inflight' \in Seq(QueuedFrames) /\ OneEach(inflight')
      /\ delivered' \in Seq(Deliveries) /\ lost' \subseteq Frames
      /\ Ids(inflight') \cup Ids(delivered') \cup lost'
           = Ids(inflight) \cup Ids(delivered) \cup lost
      /\ \A x \in Range(inflight') : Carries(cfg, x, verdict[x.id], readAt[x.id])
      /\ \A d \in Range(delivered') : Honours(cfg, d, verdict[d.id], readAt[d.id])
      /\ \A f \in lost' : MayLose(cfg, verdict[f])
  <2>1. /\ \A x \in Range(flying) : Carries(cfg, x, answers[x.id], readAt[x.id])
        /\ \A d \in Range(delivered) : Honours(cfg, d, answers[d.id], readAt[d.id])
        /\ \A f \in lost : MayLose(cfg, answers[f])
    BY <1>4, <1>5, ZenonT(60) DEF IInv, Faithful
  <2> QED
    BY <1>1, <1>2, <1>3, <1>4, <1>5, <2>1, ReceiveKeeps, ZenonT(60)
<1>7. cfg' = cfg
  BY <1>1 DEF cfg
<1>8. Typed'
  BY <1>1, <1>6, <1>7, ZenonT(60) DEF IInv, Typed
<1>9. Placed'
  BY <1>1, <1>6, ZenonT(60) DEF IInv, Placed
<1>10. Faithful'
  BY <1>1, <1>6, <1>7, ZenonT(60) DEF IInv, Faithful
<1> QED
  BY <1>8, <1>9, <1>10 DEF IInv

\* What a transmission does: the frame that is due first leaves the TX buffer, gets
\* an answer of the DPI and joins the frames in flight.
LEMMA TransmitEffect ==
    ASSUME IInv, TickTransmit
    PROVE  \E i \in DOMAIN outgoing, x \in QueuedFrames, answer \in cfg.policies \cup {NoMatch} :
             /\ x.id = outgoing[i].id /\ x.id \in Ids(outgoing) /\ x.id \notin Ids(inflight)
             /\ \A j \in DOMAIN outgoing : SortedBefore(outgoing, i, j)
             /\ Carries(cfg, x, answer, readAt[x.id])
             /\ outgoing' \in Seq(QueuedFrames) /\ OneEach(outgoing')
             /\ Range(outgoing') \subseteq Range(outgoing)
             /\ Ids(outgoing') = Ids(outgoing) \ {x.id}
             /\ queuedBytes' = queuedBytes - PayloadLen[x.id]
             /\ verdict' = [verdict EXCEPT ![x.id] = answer]
             /\ Receive(Append(inflight, x))
             /\ UNCHANGED <<config, now, source, readAt, tailDropped>>
<1>0. Typed /\ outgoing \in Seq(QueuedFrames) /\ OneEach(outgoing) /\ now \in Nat
  BY Zenon DEF IInv, Typed, Placed
<1> DEFINE sorted == SortFrames(outgoing)
<1>1. /\ outgoing # <<>> /\ outgoing' = Tail(sorted)
      /\ queuedBytes' = queuedBytes - PayloadLen[sorted[1].id]
      /\ UNCHANGED <<config, now, source, readAt, tailDropped>>
      /\ \E answer \in cfg.policies \cup {NoMatch}, j \in cfg.jitters, r \in cfg.draws :
           /\ verdict' = [verdict EXCEPT ![sorted[1].id] = answer]
           /\ Receive(Append(inflight, Transmitted(sorted[1], answer, j, r)))
  BY ZenonT(60) DEF TickTransmit, Dequeued, Released, nicVars
<1>2. /\ sorted \in Seq(QueuedFrames) /\ OneEach(sorted) /\ sorted # <<>>
      /\ Range(sorted) = Range(outgoing) /\ Ids(sorted) = Ids(outgoing)
      /\ \E i \in DOMAIN outgoing : /\ sorted[1] = outgoing[i]
                                    /\ \A j \in DOMAIN outgoing : SortedBefore(outgoing, i, j)
  BY <1>0, <1>1, SortedSlice, Zenon
<1> HIDE DEF sorted
<1>3. PICK i \in DOMAIN outgoing : /\ sorted[1] = outgoing[i]
                                   /\ \A j \in DOMAIN outgoing : SortedBefore(outgoing, i, j)
  BY <1>2, SMTT(60)
<1>4. /\ sorted[1] \in QueuedFrames /\ sorted[1] \in Range(outgoing)
      /\ outgoing' \in Seq(QueuedFrames) /\ OneEach(outgoing')
      /\ Range(outgoing') \subseteq Range(outgoing)
      /\ Ids(outgoing') = Ids(outgoing) \ {sorted[1].id}
  BY <1>1, <1>2, DequeuedSlice, Zenon
<1>5. PICK frame \in QueuedFrames : frame = sorted[1]
  BY <1>4, Zenon
<1>6. /\ frame.id \in Frames /\ frame.id \in Ids(outgoing) /\ frame.id \notin Ids(inflight)
      /\ frame.flags = {} /\ readAt[frame.id] <= now
      /\ readAt[frame.id] \in Nat
  <2>1. frame.id \in Frames /\ frame.id \in Ids(outgoing)
    BY <1>0, <1>4, <1>5, IdsAreFrames, QueuedFrameFields, SMTT(60)
  <2>2. frame.flags = {} /\ readAt[frame.id] <= now
    BY <1>4, <1>5, Zenon DEF IInv, Faithful
  <2>3. readAt[frame.id] # Never /\ frame.id \notin Ids(inflight)
    BY <2>1, Zenon DEF IInv, Placed
  <2> QED
    BY <2>1, <2>2, <2>3, Zenon DEF IInv, Typed
<1>7. PICK answer \in cfg.policies \cup {NoMatch}, j \in cfg.jitters, r \in cfg.draws :
           /\ verdict' = [verdict EXCEPT ![frame.id] = answer]
           /\ Receive(Append(inflight, Transmitted(frame, answer, j, r)))
  BY <1>1, <1>5, ZenonT(60)
<1>8. PICK x \in QueuedFrames : x = Transmitted(frame, answer, j, r) /\ x.id = frame.id
                                /\ Carries(cfg, x, answer, readAt[x.id])
  <2>1. /\ Transmitted(frame, answer, j, r) \in QueuedFrames
        /\ Transmitted(frame, answer, j, r).id = frame.id
        /\ Carries(cfg, Transmitted(frame, answer, j, r), answer, readAt[frame.id])
    BY <1>0, <1>6, TransmittedCarries, ZenonT(60)
  <2> QED
    BY <2>1, ZenonT(60)
<1>9. /\ x.id = outgoing[i].id /\ x.id \in Ids(outgoing) /\ x.id \notin Ids(inflight)
      /\ Ids(outgoing') = Ids(outgoing) \ {x.id}
      /\ queuedBytes' = queuedBytes - PayloadLen[x.id]
      /\ verdict' = [verdict EXCEPT ![x.id] = answer]
      /\ Receive(Append(inflight, x))
  BY <1>1, <1>3, <1>4, <1>5, <1>6, <1>7, <1>8, ZenonT(60)
<1> QED
  BY <1>1, <1>3, <1>4, <1>8, <1>9, ZenonT(60)

\* A tick that transmits also runs the receiver, on the frames in flight and the one
\* that has just joined them.
LEMMA FullTickTransmit ==
    ASSUME IInv, TickTransmit
    PROVE  IInv'
<1>0. /\ Typed /\ inflight \in Seq(QueuedFrames) /\ OneEach(inflight)
      /\ verdict \in [Frames -> cfg.policies \cup {NoMatch}]
      /\ Ids(outgoing) \cap (Ids(inflight) \cup Ids(delivered) \cup lost) = {}
      /\ \A f \in Ids(outgoing) \cup Ids(inflight) \cup Ids(delivered) \cup lost \cup tailDropped :
           readAt[f] # Never
  BY Zenon DEF IInv, Typed, Placed
<1>1. PICK i \in DOMAIN outgoing, x \in QueuedFrames, answer \in cfg.policies \cup {NoMatch} :
        /\ x.id \in Ids(outgoing) /\ x.id \notin Ids(inflight)
        /\ Carries(cfg, x, answer, readAt[x.id])
        /\ outgoing' \in Seq(QueuedFrames) /\ OneEach(outgoing')
        /\ Range(outgoing') \subseteq Range(outgoing)
        /\ Ids(outgoing') = Ids(outgoing) \ {x.id}
        /\ queuedBytes' = queuedBytes - PayloadLen[x.id]
        /\ verdict' = [verdict EXCEPT ![x.id] = answer]
        /\ Receive(Append(inflight, x))
        /\ UNCHANGED <<config, now, source, readAt, tailDropped>>
  BY TransmitEffect, Zenon
<1>2. x.id \in Frames
  BY QueuedFrameFields, Zenon
<1>3. PICK flying \in Seq(QueuedFrames) :
        /\ flying = Append(inflight, x) /\ OneEach(flying)
        /\ Range(flying) = Range(inflight) \cup {x} /\ Ids(flying) = Ids(inflight) \cup {x.id}
  <2>1. /\ Append(inflight, x) \in Seq(QueuedFrames) /\ OneEach(Append(inflight, x))
        /\ Range(Append(inflight, x)) = Range(inflight) \cup {x}
        /\ Ids(Append(inflight, x)) = Ids(inflight) \cup {x.id}
    BY <1>0, <1>1, AppendedSlice, SMTT(60)
  <2> QED
    BY <2>1, ZenonT(60)
<1>4. PICK answers \in [Frames -> cfg.policies \cup {NoMatch}] :
        /\ answers = verdict' /\ answers[x.id] = answer
        /\ \A f \in Frames : f # x.id => answers[f] = verdict[f]
  <2>1. /\ verdict' \in [Frames -> cfg.policies \cup {NoMatch}] /\ verdict'[x.id] = answer
        /\ \A f \in Frames : f # x.id => verdict'[f] = verdict[f]
    BY <1>0, <1>1, <1>2, ZenonT(60)
  <2> QED
    BY <2>1, Zenon
<1>5. /\ \A y \in Range(inflight) : y.id \in Ids(inflight) /\ y.id \in Frames
      /\ \A d \in Range(delivered) : d.id \in Ids(delivered) /\ d.id \in Frames
      /\ lost \subseteq Frames
  BY <1>0, IdsAreFrames, Zenon DEF Typed
<1>6. /\ \A y \in Range(inflight) : Carries(cfg, y, verdict[y.id], readAt[y.id])
      /\ \A d \in Range(delivered) : Honours(cfg, d, verdict[d.id], readAt[d.id])
      /\ \A f \in lost : MayLose(cfg, verdict[f])
  BY ZenonT(60) DEF IInv, Faithful
<1>7. /\ \A y \in Range(flying) : Carries(cfg, y, answers[y.id], readAt[y.id])
      /\ \A d \in Range(delivered) : Honours(cfg, d, answers[d.id], readAt[d.id])
      /\ \A f \in lost : MayLose(cfg, answers[f])
  <2>0. x.id \notin Ids(inflight) /\ x.id \notin Ids(delivered) /\ x.id \notin lost
    BY <1>0, <1>1, ZenonT(60)
  <2>1. \A y \in Range(inflight) : answers[y.id] = verdict[y.id]
    BY <1>4, <1>5, <2>0, ZenonT(60)
  <2>2. \A d \in Range(delivered) : answers[d.id] = verdict[d.id]
    BY <1>4, <1>5, <2>0, ZenonT(60)
  <2>3. \A f \in lost : answers[f] = verdict[f]
    BY <1>4, <1>5, <2>0, ZenonT(60)
  <2>4. \A y \in Range(inflight) : Carries(cfg, y, answers[y.id], readAt[y.id])
    BY <1>6, <2>1, ZenonT(60)
  <2>5. Carries(cfg, x, answers[x.id], readAt[x.id])
    BY <1>1, <1>4, ZenonT(60)
  <2>6. \A y \in Range(flying) : Carries(cfg, y, answers[y.id], readAt[y.id])
    BY <1>3, <2>4, <2>5, ZenonT(60)
  <2> QED
    BY <1>6, <2>2, <2>3, <2>6, ZenonT(60)
<1>8. \A f \in Frames : readAt[f] + cfg.OneWayDelay + Extra(answers[f]) \in Int
  BY <1>0, <1>4, DueTypes, Zenon
<1>9. /\ inflight' \in Seq(QueuedFrames) /\ OneEach(inflight')
      /\ delivered' \in Seq(Deliveries) /\ lost' \subseteq Frames
      /\ Ids(inflight') \cup Ids(delivered') \cup lost'
           = Ids(flying) \cup Ids(delivered) \cup lost
      /\ \A y \in Range(inflight') : Carries(cfg, y, answers[y.id], readAt[y.id])
      /\ \A d \in Range(delivered') : Honours(cfg, d, answers[d.id], readAt[d.id])
      /\ \A f \in lost' : MayLose(cfg, answers[f])
  BY <1>0, <1>1, <1>3, <1>7, <1>8, ReceiveKeeps, ZenonT(60)
<1>10. cfg' = cfg
  BY <1>1, ZenonT(60) DEF cfg
<1>11. Typed'
  <2>1. queuedBytes' \in Int
    <3>1. PayloadLen[x.id] \in Int
      BY <1>2, FullAssumption, SMTT(60)
    <3>2. queuedBytes \in Int
      BY <1>0, ZenonT(60) DEF Typed
    <3>3. queuedBytes' = queuedBytes - PayloadLen[x.id]
      BY <1>1, ZenonT(60)
    <3>4. \A m, n \in Int : m - n \in Int
      OBVIOUS
    <3> QED
      BY <3>1, <3>2, <3>3, <3>4, Zenon
  <2>2. config' \in DOMAIN Configs /\ now' \in Nat /\ source' \in Seq(Frames)
    BY <1>0, <1>1, ZenonT(60) DEF Typed
  <2>3. tailDropped' \subseteq Frames /\ readAt' \in [Frames -> Nat \cup {Never}]
    BY <1>0, <1>1, Zenon DEF Typed
  <2>4. verdict' \in [Frames -> cfg'.policies \cup {NoMatch}]
    BY <1>4, <1>10, Zenon
  <2> QED
    BY <1>1, <1>9, <2>1, <2>2, <2>3, <2>4, ZenonT(60) DEF Typed
<1>12. Placed'
  <2>1. Ids(outgoing') \cap (Ids(inflight') \cup Ids(delivered') \cup lost') = {}
    BY <1>0, <1>1, <1>3, <1>9, ZenonT(60)
  <2>2. \A f \in Ids(outgoing') \cup Ids(inflight') \cup Ids(delivered') \cup lost' \cup tailDropped :
          readAt[f] # Never
    BY <1>0, <1>1, <1>3, <1>9, ZenonT(60)
  <2>3. /\ \A k \in DOMAIN source : readAt[source[k]] = Never
        /\ \A k, l \in DOMAIN source : source[k] = source[l] => k = l
    BY Zenon DEF IInv, Placed
  <2> QED
    BY <1>1, <1>9, <2>1, <2>2, <2>3, ZenonT(60) DEF Placed
<1>13. Faithful'
  <2>1. \A y \in Range(outgoing') : y.flags = {} /\ readAt[y.id] <= now
    BY <1>1, ZenonT(60) DEF IInv, Faithful
  <2> QED
    BY <1>1, <1>4, <1>9, <1>10, <2>1, ZenonT(60) DEF Faithful
<1> QED
  BY <1>11, <1>12, <1>13, Zenon DEF IInv

\* Every step keeps the invariant.
LEMMA FullStep == IInv /\ [Next]_vars => IInv'
  BY SMTT(60), FullIdle, FullEmit, FullDropTail, FullEnqueue, FullTickWasted, FullTickTransmit,
     FullTickReceive DEF Next, FrameAvailable, Ticker

LEMMA FullInvariant == Spec => []IInv
  BY FullInit, FullStep, PTL DEF Spec

-----------------------------------------------------------------------------
\* linkfwdfull.go:121-181 and linkFwdDeliveryOrDrop: whatever the delays, the jitter
\* and the DPI's answers, no frame is delivered before its delays are over.
THEOREM NoFrameIsEarly == Spec => []NeverEarly
<1>1. IInv => NeverEarly
  <2> SUFFICES ASSUME IInv, NEW i \in DOMAIN delivered
               PROVE  LET f == delivered[i].id
                      IN  delivered[i].at >= readAt[f] + cfg.OneWayDelay + Extra(verdict[f])
    BY Zenon DEF NeverEarly, Extra
  <2>1. delivered[i] \in Range(delivered)
    BY Zenon DEF Range
  <2> QED
    BY <2>1, ZenonT(60) DEF IInv, Faithful, Honours
<1> QED
  BY <1>1, FullInvariant, PTL

\* linkfwdfull.go:140-154: for every set of policies and loss rates, what the DPI
\* answered is what happens to the frame.
THEOREM VerdictsAreHonoured == Spec => []VerdictHonoured
<1>1. IInv => VerdictHonoured
  <2> SUFFICES ASSUME IInv PROVE VerdictHonoured
    OBVIOUS
  <2>1. ASSUME NEW f \in lost PROVE Rate(cfg, verdict[f]) > 0 \/ FrameFlagDrop \in Asked(verdict[f])
    BY ZenonT(60) DEF IInv, Faithful, MayLose
  <2>2. ASSUME NEW i \in DOMAIN delivered
        PROVE  LET d == delivered[i]
                   v == verdict[d.id]
               IN  /\ Rate(cfg, v) < 100 /\ d.flags = Asked(v) /\ FrameFlagDrop \notin Asked(v)
                   /\ v # NoMatch => d.spoofed = v.spoofed
    <3>1. delivered[i] \in Range(delivered)
      BY DEF Range
    <3> QED
      BY <3>1, ZenonT(60) DEF IInv, Faithful, Honours
  <2> QED
    BY <2>1, <2>2, Zenon DEF VerdictHonoured, Rate, Asked
<1> QED
  BY <1>1, FullInvariant, PTL

-----------------------------------------------------------------------------
(* The order in which frames leave. *)

\* A frame that is due first leaves, and only that one.
LEMMA OnlyTheFirstLeaves ==
    ASSUME NEW s, NEW t, NEW i \in DOMAIN s, OneEach(s),
           \A j \in DOMAIN s : SortedBefore(s, i, j),
           Ids(s) \ {s[i].id} \subseteq Ids(t)
    PROVE  \A k, j \in DOMAIN s : s[k].id \notin Ids(t) => SortedBefore(s, k, j)
<1> TAKE k, j \in DOMAIN s
<1> HAVE s[k].id \notin Ids(t)
<1>1. s[k].id \in Ids(s)
  BY Zenon DEF Ids
<1>2. k = i
  BY <1>1, Zenon DEF OneEach
<1> QED
  BY <1>2, Zenon

\* The order of two frames in flight does not depend on the frames behind them.
LEMMA SortedBeforeOfAppend ==
    ASSUME NEW S, NEW s \in Seq(S), NEW x \in S, NEW i \in DOMAIN s, NEW j \in DOMAIN s
    PROVE  SortedBefore(Append(s, x), i, j) <=> SortedBefore(s, i, j)
<1>1. Append(s, x)[i] = s[i] /\ Append(s, x)[j] = s[j]
  BY LenProperties, AppendProperties, SMTT(60)
<1> QED
  BY <1>1, Zenon DEF SortedBefore

\* What the receiver takes out of flight.
LEMMA ReceiverOrder ==
    ASSUME Typed, NEW flying \in Seq(QueuedFrames), OneEach(flying), Receive(flying)
    PROVE  \A k, j \in DOMAIN flying :
             flying[k].id \notin Ids(inflight') => SortedBefore(flying, k, j)
<1>1. \/ Ids(inflight') = Ids(flying)
      \/ \E i \in DOMAIN flying : Leaves(flying, i)
  BY ReceiveEffect, Zenon
<1>2. CASE Ids(inflight') = Ids(flying)
  BY <1>2, ZenonT(60) DEF Ids
<1>3. ASSUME NEW i \in DOMAIN flying, Leaves(flying, i)
      PROVE  \A k, j \in DOMAIN flying :
               flying[k].id \notin Ids(inflight') => SortedBefore(flying, k, j)
  <2>1. /\ \A j \in DOMAIN flying : SortedBefore(flying, i, j)
        /\ Ids(flying) \ {flying[i].id} \subseteq Ids(inflight')
    BY <1>3, Zenon DEF Leaves
  <2>2. PICK t : t = inflight'
    OBVIOUS
  <2> QED
    BY <2>1, <2>2, OnlyTheFirstLeaves, ZenonT(60)
<1> QED
  BY <1>1, <1>2, <1>3, Zenon

\* linkFwdSortFrameSliceInPlace before each of the two dequeues, linkfwdfull.go:119
\* and 166: for any jitter and any delays, the frame that leaves the TX buffer, or
\* the air, is the one that is due first.
THEOREM FirstDueLeavesFirst == Spec => EarliestFirst
<1> DEFINE Ordered(q, r) == \A i, j \in DOMAIN q :
                              q[i].id \notin Ids(r) /\ ~(q[j].id \notin Ids(r)) => SortedBefore(q, i, j)
<1>1. ASSUME IInv, [Next]_vars PROVE Ordered(outgoing, outgoing')
  <2>0. outgoing \in Seq(QueuedFrames) /\ OneEach(outgoing)
    BY <1>1, Zenon DEF IInv, Typed, Placed
  <2>1. CASE Ids(outgoing) \subseteq Ids(outgoing')
    BY <2>1, Zenon DEF Ids
  <2>2. CASE TickTransmit
    <3>1. PICK i \in DOMAIN outgoing :
            /\ \A j \in DOMAIN outgoing : SortedBefore(outgoing, i, j)
            /\ Ids(outgoing) \ {outgoing[i].id} \subseteq Ids(outgoing')
      BY <1>1, <2>2, TransmitEffect, Zenon
    <3>2. PICK t : t = outgoing'
      OBVIOUS
    <3> QED
      BY <2>0, <3>1, <3>2, OnlyTheFirstLeaves, Zenon
  <2>3. CASE Enqueue
    <3>1. PICK f \in Frames : outgoing' = Append(outgoing, QueuedFrame(f, now + TxTime(queuedBytes)))
      BY <2>3, Zenon DEF Enqueue
    <3>2. now + TxTime(queuedBytes) \in Int
      BY <1>1, TxTimeType, SMTT(60) DEF IInv, Typed
    <3>3. QueuedFrame(f, now + TxTime(queuedBytes)) \in QueuedFrames
      BY <3>2, QueuedFrameType, Zenon
    <3>4. Ids(outgoing) \subseteq Ids(outgoing')
      BY <2>0, <3>1, <3>3, AppendedSlice, SMTT(60)
    <3> QED
      BY <2>1, <3>4, Zenon
  <2>4. CASE TickWasted
    <3>1. Ids(outgoing') = Ids(outgoing)
      BY <2>0, <2>4, SortedSlice, Zenon DEF TickWasted
    <3> QED
      BY <2>1, <3>1, Zenon
  <2>5. CASE UNCHANGED outgoing
    BY <2>1, <2>5, Zenon
  <2>6. UNCHANGED outgoing \/ TickTransmit \/ Enqueue \/ TickWasted
    BY <1>1, Zenon DEF Next, Pass, CloseReader, Emit, StackClosed, FrameAvailable, ReadFails, DropTail,
                Ticker, TickReceive, vars, txVars
  <2> QED
    BY <2>2, <2>3, <2>4, <2>5, <2>6, SMTT(60)
<1>2. ASSUME IInv, [Next]_vars PROVE Ordered(inflight, inflight')
  <2>0. Typed /\ inflight \in Seq(QueuedFrames) /\ OneEach(inflight)
    BY <1>2, Zenon DEF IInv, Typed, Placed
  <2>1. CASE TickTransmit
    <3>1. PICK x \in QueuedFrames : x.id \notin Ids(inflight) /\ Receive(Append(inflight, x))
      BY <1>2, <2>1, TransmitEffect, Zenon
    <3>2. Append(inflight, x) \in Seq(QueuedFrames) /\ OneEach(Append(inflight, x))
      BY <2>0, <3>1, AppendedSlice, Zenon
    <3>3. PICK flying \in Seq(QueuedFrames) : flying = Append(inflight, x)
      BY <3>2, ZenonT(60)
    <3>4. \A k, j \in DOMAIN flying :
             flying[k].id \notin Ids(inflight') => SortedBefore(flying, k, j)
      BY <2>0, <3>1, <3>2, <3>3, ReceiverOrder, ZenonT(60)
    <3>5. \A k \in DOMAIN inflight : k \in DOMAIN flying /\ flying[k] = inflight[k]
      BY <2>0, <3>3, LenProperties, AppendProperties, SMTT(60)
    <3>6. \A k, j \in DOMAIN inflight : SortedBefore(flying, k, j) => SortedBefore(inflight, k, j)
      BY <2>0, <3>3, SortedBeforeOfAppend, Zenon
    <3> QED
      BY <3>4, <3>5, <3>6, Zenon
  <2>2. CASE TickReceive
    <3>1. PICK flying \in Seq(QueuedFrames) : flying = inflight
      BY <2>0
    <3> QED
      BY <2>0, <2>2, <3>1, ReceiverOrder, Zenon DEF TickReceive
  <2>3. CASE UNCHANGED inflight
    BY <2>3, Zenon DEF Ids
  <2>4. UNCHANGED inflight \/ TickTransmit \/ TickReceive
    BY <1>2, Zenon DEF Next, Pass, CloseReader, Emit, StackClosed, FrameAvailable, ReadFails, DropTail,
                Enqueue, Ticker, TickWasted, vars, rxVars
  <2> QED
    BY <2>1, <2>2, <2>3, <2>4, Zenon
<1>3. IInv /\ [Next]_vars => [LET leaves(q, i) == q[i].id \notin Ids(q')
                                  first(q) == \A i, j \in DOMAIN q :
                                      leaves(q, i) /\ ~leaves(q, j) => SortedBefore(q, i, j)
                              IN  first(outgoing) /\ first(inflight)]_vars
  BY <1>1, <1>2, Zenon
<1> QED
  BY <1>3, FullInvariant, PTL DEF Spec, EarliestFirst

-----------------------------------------------------------------------------
(* The refinement of LossyLink. *)

\* A tick of the receiver is a step of the abstract link: a frame is delivered, or
\* lost, or nothing can be seen.  "waiting" are the frames left in the TX buffer.
LEMMA ReceiveRefines ==
    ASSUME Typed, NEW flying \in Seq(QueuedFrames), OneEach(flying), Receive(flying),
           Ids(outgoing') \cap Ids(flying) = {},
           Ids(outgoing') \cup Ids(flying) = Ids(outgoing) \cup Ids(inflight),
           tailDropped' = tailDropped
    PROVE  [Lossy!Next]_(Lossy!vars)
<1>1. \/ Ids(inflight') = Ids(flying) /\ delivered' = delivered /\ lost' = lost
      \/ \E i \in DOMAIN flying : Leaves(flying, i)
  BY ReceiveEffect, Zenon
<1>2. CASE Ids(inflight') = Ids(flying) /\ delivered' = delivered /\ lost' = lost
  BY <1>2, Zenon DEF Lossy!vars
<1>3. ASSUME NEW i \in DOMAIN flying, Leaves(flying, i) PROVE Lossy!Next
  <2>1. PICK x \in QueuedFrames : x = flying[i]
    BY <1>3, ElementOfSeq, LenProperties, SMTT(60)
  <2>2. x.id \in Ids(flying) /\ x.id \in Frames
    BY <2>1, QueuedFrameFields, Zenon DEF Ids
  <2>3. /\ Ids(inflight') = Ids(flying) \ {x.id}
        /\ \/ delivered' = Append(delivered, Delivery(x)) /\ lost' = lost
           \/ lost' = lost \cup {x.id} /\ delivered' = delivered
    BY <1>3, <2>1, Zenon DEF Leaves
  <2>4. /\ x.id \in Ids(outgoing) \cup Ids(inflight)
        /\ Ids(outgoing') \cup Ids(inflight') = (Ids(outgoing) \cup Ids(inflight)) \ {x.id}
    BY <2>2, <2>3, Zenon
  <2>5. CASE delivered' = Append(delivered, Delivery(x)) /\ lost' = lost
    <3>1. PICK d \in Deliveries : d = Delivery(x) /\ d.id = x.id
      BY DeliveryFields, Zenon DEF Typed
    <3>2. Ids(delivered') = Ids(delivered) \cup {x.id}
      BY <2>5, <3>1, AppendedSlice, SMTT(60) DEF Typed
    <3>3. Lossy!Deliver(x.id)
      BY <2>4, <2>5, <3>2, Zenon DEF Lossy!Deliver
    <3> QED
      BY <2>2, <3>3, Zenon DEF Lossy!Next
  <2>6. CASE lost' = lost \cup {x.id} /\ delivered' = delivered
    <3>1. lost' \cup tailDropped' = (lost \cup tailDropped) \cup {x.id}
      BY <2>6, Zenon
    <3>2. Ids(delivered') = Ids(delivered)
      BY <2>6, Zenon
    <3>3. Lossy!Lose(x.id)
      BY <2>4, <3>1, <3>2, Zenon DEF Lossy!Lose
    <3> QED
      BY <2>2, <3>3, Zenon DEF Lossy!Next
  <2> QED
    BY <2>3, <2>5, <2>6, Zenon
<1> QED
  BY <1>1, <1>2, <1>3, Zenon

\* linkfwdfull.go:19-194: the goroutine implements LossyLink: it delivers at most
\* once what it has read, in any order, and never what it has dropped.
THEOREM FullImplementsLossy == Spec => ImplementsLossyLink
<1>1. Init => Lossy!Init
  BY DEF Init, Lossy!Init, Ids
<1>2. ASSUME IInv, [Next]_vars PROVE [Lossy!Next]_(Lossy!vars)
  <2>0. /\ Typed /\ outgoing \in Seq(QueuedFrames) /\ OneEach(outgoing)
        /\ inflight \in Seq(QueuedFrames) /\ OneEach(inflight)
        /\ Ids(outgoing) \cap (Ids(inflight) \cup Ids(delivered) \cup lost) = {}
    BY <1>2, Zenon DEF IInv, Typed, Placed
  <2>1. CASE DropTail
    <3>1. PICK f \in Frames : /\ ReadFrame(f) /\ tailDropped' = tailDropped \cup {f}
                              /\ UNCHANGED <<outgoing, rxVars>>
      BY <2>1, Zenon DEF DropTail
    <3>2. f \notin Ids(outgoing) \cup Ids(inflight) \cup Ids(delivered) \cup lost \cup tailDropped
      BY <1>2, <3>1, ReadEffect, Zenon
    <3>3. UNCHANGED <<inflight, delivered, lost>>
      BY <3>1 DEF rxVars
    <3>4. lost' \cup tailDropped' = (lost \cup tailDropped) \cup {f}
      BY <3>1, <3>3, SMTT(60)
    <3>5. /\ Ids(outgoing') = Ids(outgoing) /\ Ids(inflight') = Ids(inflight)
          /\ Ids(delivered') = Ids(delivered)
      BY <3>1, <3>3, Zenon
    <3>6. Lossy!Refuse(f)
      BY <3>2, <3>4, <3>5, Zenon DEF Lossy!Refuse, Lossy!Fresh
    <3> QED
      BY <3>6 DEF Lossy!Next
  <2>2. CASE Enqueue
    <3>1. PICK f \in Frames : /\ ReadFrame(f)
                              /\ outgoing' = Append(outgoing, QueuedFrame(f, now + TxTime(queuedBytes)))
                              /\ UNCHANGED <<tailDropped, rxVars>>
      BY <2>2, Zenon DEF Enqueue
    <3>2. f \notin Ids(outgoing) \cup Ids(inflight) \cup Ids(delivered) \cup lost \cup tailDropped
      BY <1>2, <3>1, ReadEffect, Zenon
    <3>3. UNCHANGED <<inflight, delivered, lost, tailDropped>>
      BY <3>1, SMTT(60) DEF rxVars
    <3>4. now + TxTime(queuedBytes) \in Int
      BY <2>0, TxTimeType, SMTT(60) DEF Typed
    <3>5. /\ QueuedFrame(f, now + TxTime(queuedBytes)) \in QueuedFrames
          /\ QueuedFrame(f, now + TxTime(queuedBytes)).id = f
      BY <3>4, QueuedFrameType, Zenon
    <3>6. Ids(outgoing') = Ids(outgoing) \cup {f}
      BY <2>0, <3>1, <3>5, AppendedSlice, SMTT(60)
    <3>7. /\ Ids(outgoing') \cup Ids(inflight') = (Ids(outgoing) \cup Ids(inflight)) \cup {f}
          /\ Ids(delivered') = Ids(delivered) /\ lost' \cup tailDropped' = lost \cup tailDropped
      BY <3>3, <3>6, Zenon
    <3>8. Lossy!Enter(f)
      BY <3>2, <3>7, Zenon DEF Lossy!Enter, Lossy!Fresh
    <3> QED
      BY <3>8 DEF Lossy!Next
  <2>3. CASE TickWasted
    <3>1. /\ Ids(outgoing') = Ids(outgoing)
          /\ UNCHANGED <<inflight, delivered, lost, tailDropped>>
      BY <2>0, <2>3, SortedSlice, Zenon DEF TickWasted, rxVars
    <3> QED
      BY <3>1, Zenon DEF Lossy!vars
  <2>4. CASE TickTransmit
    <3>1. PICK x \in QueuedFrames :
            /\ x.id \in Ids(outgoing) /\ x.id \notin Ids(inflight)
            /\ Ids(outgoing') = Ids(outgoing) \ {x.id}
            /\ Receive(Append(inflight, x)) /\ tailDropped' = tailDropped
      BY <1>2, <2>4, TransmitEffect, ZenonT(60)
    <3>2. /\ Append(inflight, x) \in Seq(QueuedFrames) /\ OneEach(Append(inflight, x))
          /\ Ids(Append(inflight, x)) = Ids(inflight) \cup {x.id}
      BY <2>0, <3>1, AppendedSlice
    <3>3. PICK flying \in Seq(QueuedFrames) : flying = Append(inflight, x)
      BY <3>2, ZenonT(60)
    <3>4. /\ Ids(outgoing') \cap Ids(flying) = {}
          /\ Ids(outgoing') \cup Ids(flying) = Ids(outgoing) \cup Ids(inflight)
      BY <2>0, <3>1, <3>2, <3>3, Zenon
    <3> QED
      BY <2>0, <3>1, <3>2, <3>3, <3>4, ReceiveRefines, ZenonT(60)
  <2>5. CASE TickReceive
    <3>1. Receive(inflight) /\ UNCHANGED <<outgoing, tailDropped>>
      BY <2>5, Zenon DEF TickReceive, txVars
    <3>2. PICK flying \in Seq(QueuedFrames) : flying = inflight
      BY <2>0, Zenon
    <3>3. /\ Ids(outgoing') \cap Ids(flying) = {}
          /\ Ids(outgoing') \cup Ids(flying) = Ids(outgoing) \cup Ids(inflight)
      BY <2>0, <3>1, <3>2, Zenon
    <3> QED
      BY <2>0, <3>1, <3>2, <3>3, ReceiveRefines, Zenon
  <2>6. CASE UNCHANGED <<outgoing, inflight, delivered, lost, tailDropped>>
    BY <2>6, Zenon DEF Lossy!vars
  <2>7. \/ DropTail \/ Enqueue \/ TickWasted \/ TickTransmit \/ TickReceive
        \/ UNCHANGED <<outgoing, inflight, delivered, lost, tailDropped>>
    BY <1>2, ZenonT(60) DEF Next, Pass, CloseReader, Emit, StackClosed, FrameAvailable, ReadFails, Ticker,
                vars, txVars, rxVars
  <2> QED
    BY <2>1, <2>2, <2>3, <2>4, <2>5, <2>6, <2>7, SMTT(60)
<1>3. IInv /\ [Next]_vars => [Lossy!Next]_(Lossy!vars)
  BY <1>2
<1> QED
  BY <1>1, <1>3, FullInvariant, PTL DEF Spec, ImplementsLossyLink, Lossy!Spec

-----------------------------------------------------------------------------
(* The accounting of the TX buffer. *)

\* g gives each subset of S the sum of the lengths of its members.
Additive(g, S, len) ==
    /\ g \in [SUBSET S -> Nat] /\ g[{}] = 0 /\ \A x \in S : len[x] \in Nat
    /\ \A T \in SUBSET S : \A x \in T : g[T] = len[x] + g[T \ {x}]

\* What is inductive: queuedBytes is the sum over the frames in the buffer, in
\* whatever order the sort has put them.
Accounted ==
    \E g : Additive(g, Ids(outgoing), PayloadLen) /\ g[Ids(outgoing)] = queuedBytes

LEMMA AdditiveAdds ==
    ASSUME NEW S, NEW f, f \notin S, NEW len, len[f] \in Nat, NEW g, Additive(g, S, len)
    PROVE  \E h : Additive(h, S \cup {f}, len) /\ h[S \cup {f}] = g[S] + len[f]
<1> DEFINE R == S \cup {f}
           Part(T) == IF f \in T THEN len[f] ELSE 0
           h == [T \in SUBSET R |-> g[T \ {f}] + Part(T)]
<1>1. \A T \in SUBSET R : T \ {f} \in SUBSET S /\ g[T \ {f}] \in Nat /\ Part(T) \in Nat
  BY Zenon DEF Additive
<1>2. h \in [SUBSET R -> Nat]
  <2> HIDE DEF Part
  <2> QED
    BY <1>1
<1>3. h[{}] = 0
  <2>1. {} \in SUBSET R /\ {} \ {f} = {} /\ f \notin {}
    BY Zenon
  <2> QED
    BY <2>1, SMTT(60) DEF Additive
<1>4. ASSUME NEW T \in SUBSET R, NEW x \in T PROVE h[T] = len[x] + h[T \ {x}]
  <2>0. T \ {x} \in SUBSET R /\ h[T] = g[T \ {f}] + Part(T) /\ h[T \ {x}] = g[(T \ {x}) \ {f}] + Part(T \ {x})
    BY ZenonT(60)
  <2>1. CASE x = f
    <3>1. (T \ {x}) \ {f} = T \ {f} /\ Part(T) = len[f] /\ Part(T \ {x}) = 0
      BY <2>1, Zenon
    <3>2. g[T \ {f}] \in Nat
      BY <1>1, Zenon
    <3>3. \A l, k \in Nat : k + l = l + (k + 0)
      BY SMTT(60)
    <3>4. g[T \ {f}] + len[f] = len[f] + (g[T \ {f}] + 0)
      BY <3>2, <3>3, Zenon
    <3>5. h[T] = g[T \ {f}] + len[f] /\ h[T \ {x}] = g[T \ {f}] + 0
      BY <2>0, <3>1, ZenonT(60)
    <3> HIDE DEF h, Part
    <3> QED
      BY <2>1, <3>4, <3>5, ZenonT(60)
  <2>2. CASE x # f
    <3>1. x \in T \ {f} /\ (T \ {x}) \ {f} = (T \ {f}) \ {x} /\ Part(T \ {x}) = Part(T)
      BY <2>2, Zenon
    <3>2. g[T \ {f}] = len[x] + g[(T \ {f}) \ {x}]
      BY <1>1, <3>1, ZenonT(60) DEF Additive
    <3>3. g[T \ {f}] \in Nat /\ g[(T \ {f}) \ {x}] \in Nat /\ Part(T) \in Nat
      BY <1>1, <2>0, <3>1, ZenonT(60)
    <3>4. len[x] \in Nat
      BY <2>2, Zenon DEF Additive
    <3>5. \A l, k, p \in Nat : (l + k) + p = l + (k + p)
      OBVIOUS
    <3> HIDE DEF h, Part
    <3> QED
      BY <2>0, <3>1, <3>2, <3>3, <3>4, <3>5, SMTT(60)
  <2> QED
    BY <2>1, <2>2, ZenonT(60)
<1>5. h[R] = g[S] + len[f]
  <2>1. R \in SUBSET R /\ R \ {f} = S /\ f \in R
    BY Zenon
  <2> QED
    BY <2>1, ZenonT(60)
<1>6. \A x \in R : len[x] \in Nat
  BY Zenon DEF Additive
<1> HIDE DEF h
<1> QED
  BY <1>2, <1>3, <1>4, <1>5, <1>6, ZenonT(60) DEF Additive
\* A set of natural numbers that has an element has a least one.
LEMMA Least ==
    ASSUME NEW S \in SUBSET Nat, S # {}
    PROVE  \E i \in S : \A j \in S : i <= j
<1> DEFINE Less == OpToRel(<, Nat)
<1>1. IsWellFoundedOn(Less, Nat)
  BY NatLessThanWellFounded, ZenonT(60)
<1>2. \A i, j \in Nat : <<j, i>> \in Less <=> j < i
  BY DEF OpToRel
<1> HIDE DEF Less
<1>3. PICK i \in S : \A j \in S : ~ (<<j, i>> \in Less)
  BY <1>1, WFMin, ZenonT(60)
<1>4. ASSUME NEW j \in S PROVE i <= j
  <2>1. i \in Nat /\ j \in Nat
    OBVIOUS
  <2>2. ~ (j < i)
    BY <1>2, <1>3, <2>1, ZenonT(60)
  <2> QED
    BY <2>1, <2>2
<1> QED
  BY <1>4

LEMMA AdditiveRemoves ==
    ASSUME NEW S, NEW f \in S, NEW len, NEW g, Additive(g, S, len)
    PROVE  \E h : Additive(h, S \ {f}, len) /\ h[S \ {f}] = g[S] - len[f]
<1> DEFINE R == S \ {f}
           h == [T \in SUBSET R |-> g[T]]
<1>1. SUBSET R \subseteq SUBSET S /\ R \in SUBSET R /\ {} \in SUBSET R /\ S \in SUBSET S
  BY Zenon
<1>2. h \in [SUBSET R -> Nat] /\ h[{}] = 0 /\ \A x \in R : len[x] \in Nat
  BY <1>1, Zenon DEF Additive
<1>3. ASSUME NEW T \in SUBSET R, NEW x \in T PROVE h[T] = len[x] + h[T \ {x}]
  <2>1. T \in SUBSET S /\ T \ {x} \in SUBSET R
    BY Zenon
  <2> QED
    BY <2>1, Zenon DEF Additive
<1>4. h[R] = g[S] - len[f]
  <2>1. g[S] = len[f] + g[R] /\ g[R] \in Nat /\ len[f] \in Nat
    BY <1>1, Zenon DEF Additive
  <2>2. \A l, k \in Nat : k = (l + k) - l
    BY SMTT(60)
  <2> QED
    BY <1>1, <2>1, <2>2, Zenon
<1> HIDE DEF h
<1> QED
  BY <1>2, <1>3, <1>4, ZenonT(60) DEF Additive

\* The recursion of BytesOf.
SumsUp(it, s) ==
    it = [i \in 0..Len(s) |-> IF i = 0 THEN 0 ELSE it[i - 1] + PayloadLen[s[i].id]]

\* BytesOf is the sum over the frames of the slice: the sums over its prefixes solve
\* the recursion, and two solutions cannot differ at a smallest index.
LEMMA BytesOfIsSum ==
    ASSUME NEW s \in Seq(QueuedFrames), OneEach(s), NEW g, Additive(g, Ids(s), PayloadLen)
    PROVE  BytesOf(s) = g[Ids(s)]
<1> DEFINE n == Len(s)
           prefix(i) == {s[j].id : j \in 1..i}
           h == [i \in 0..n |-> g[prefix(i)]]
<1>0. n \in Nat /\ DOMAIN s = 1..n
  BY SMTT(60)
<1> HIDE DEF n
<1>1. prefix(n) = Ids(s) /\ \A i \in 0..n : prefix(i) \in SUBSET Ids(s)
  BY <1>0, SMTT(60) DEF Ids
<1>2. prefix(0) = {}
  BY SMTT(60)
<1>3. ASSUME NEW i \in 1..n
      PROVE  g[prefix(i)] = g[prefix(i - 1)] + PayloadLen[s[i].id]
  <2>1. i \in 0..n /\ i \in 1..i /\ 1..(i - 1) = (1..i) \ {i} /\ 1..i \subseteq DOMAIN s
    BY <1>0
  <2>2. s[i].id \in prefix(i) /\ prefix(i) \in SUBSET Ids(s)
    BY <1>1, <2>1, Zenon
  <2>3. prefix(i - 1) = prefix(i) \ {s[i].id}
    BY <2>1, Zenon DEF OneEach
  <2> HIDE DEF prefix
  <2>4. /\ g[prefix(i)] = PayloadLen[s[i].id] + g[prefix(i) \ {s[i].id}]
        /\ PayloadLen[s[i].id] \in Nat
    BY <2>2, Zenon DEF Additive
  <2>5. g[prefix(i - 1)] \in Nat
    BY <2>2, <2>3, Zenon DEF Additive
  <2>6. \A k, l \in Nat : k + l = l + k
    BY SMTT(60)
  <2> QED
    BY <2>3, <2>4, <2>5, <2>6, Zenon
<1>4. \A i \in 0..n : h[i] = IF i = 0 THEN 0 ELSE h[i - 1] + PayloadLen[s[i].id]
  <2> TAKE i \in 0..n
  <2>1. CASE i = 0
    <3>1. h[0] = g[prefix(0)] /\ g[{}] = 0
      BY <1>0 DEF Additive
    <3> QED
      BY <1>2, <2>1, <3>1, ZenonT(60)
  <2>2. CASE i # 0
    <3>1. i \in 1..n /\ i - 1 \in 0..n
      BY <1>0, <2>2, SMTT(60)
    <3>2. h[i] = g[prefix(i)] /\ h[i - 1] = g[prefix(i - 1)]
      BY <3>1, Zenon
    <3> HIDE DEF h, prefix
    <3> QED
      BY <1>3, <2>2, <3>1, <3>2, Zenon
  <2> QED
    BY <2>1, <2>2, Zenon
<1>5. SumsUp(h, s)
  <2> DEFINE F == [i \in 0..n |-> IF i = 0 THEN 0 ELSE h[i - 1] + PayloadLen[s[i].id]]
  <2>1. h = [i \in 0..n |-> h[i]]
    BY Zenon
  <2>2. [i \in 0..n |-> h[i]] = F
    <3> HIDE DEF h
    <3> QED
      BY <1>4, Zenon
  <2> HIDE DEF h
  <2> QED
    BY <2>1, <2>2, ZenonT(60) DEF SumsUp, n
<1>6. PICK it : it = (CHOOSE t : SumsUp(t, s)) /\ SumsUp(it, s)
  <2> HIDE DEF h
  <2> QED
    BY <1>5, SMTT(60)
<1>7. \A i \in 0..n : it[i] = IF i = 0 THEN 0 ELSE it[i - 1] + PayloadLen[s[i].id]
  BY <1>6, ZenonT(60) DEF SumsUp, n
<1> DEFINE Differ == {i \in 0..n : it[i] # h[i]}
<1>8. Differ = {}
  <2> HIDE DEF h
  <2> SUFFICES ASSUME Differ # {} PROVE FALSE
    BY Zenon
  <2>1. Differ \in SUBSET Nat
    BY <1>0, SMTT(60)
  <2>2. PICK i \in Differ : \A j \in Differ : i <= j
    <3> HIDE DEF Differ
    <3> QED
      BY <2>1, Least, Zenon
  <2>3. i \in 0..n /\ it[i] # h[i] /\ i # 0
    BY <1>4, <1>7, Zenon
  <2>4. i - 1 \in 0..n /\ i - 1 \notin Differ
    BY <1>0, <2>2, <2>3, SMTT(60)
  <2>5. it[i - 1] = h[i - 1]
    BY <2>4, Zenon
  <2> QED
    BY <1>4, <1>7, <2>3, <2>5, Zenon
<1>9. BytesOf(s) = (CHOOSE t : SumsUp(t, s))[n]
  BY ZenonT(60) DEF BytesOf, SumsUp, n
<1>10. n \in 0..n /\ h[n] = g[Ids(s)]
  <2>1. n \in 0..n
    BY <1>0, SMTT(60)
  <2>2. h[n] = g[prefix(n)]
    BY <2>1, Zenon
  <2> HIDE DEF h, prefix
  <2> QED
    BY <1>1, <2>1, <2>2, Zenon
<1> HIDE DEF h
<1> QED
  BY <1>6, <1>8, <1>9, <1>10, Zenon

LEMMA AccountedInit == Init => Accounted
<1> SUFFICES ASSUME Init PROVE Accounted
  OBVIOUS
<1> DEFINE g == [T \in SUBSET {} |-> 0]
<1>1. Ids(outgoing) = {} /\ queuedBytes = 0
  BY DEF Init, Ids
<1>2. Additive(g, {}, PayloadLen) /\ g[{}] = 0
  BY Zenon DEF Additive
<1> QED
  BY <1>1, <1>2, Zenon DEF Accounted

LEMMA AccountedEnqueue ==
    ASSUME IInv, Accounted, Enqueue
    PROVE  Accounted'
<1>1. PICK f \in Frames : /\ ReadFrame(f)
                          /\ outgoing' = Append(outgoing, QueuedFrame(f, now + TxTime(queuedBytes)))
                          /\ queuedBytes' = queuedBytes + PayloadLen[f]
  BY Zenon DEF Enqueue
<1>2. f \notin Ids(outgoing) /\ PayloadLen[f] \in Nat
  BY <1>1, ReadEffect, FullAssumption, Zenon
<1>3. Ids(outgoing') = Ids(outgoing) \cup {f}
  <2>1. outgoing \in Seq(QueuedFrames)
    BY Zenon DEF IInv, Typed
  <2>2. PICK q : q = QueuedFrame(f, now + TxTime(queuedBytes))
    OBVIOUS
  <2>3. q.id = f
    BY <2>2, Zenon DEF QueuedFrame
  <2>4. outgoing' = Append(outgoing, q)
    BY <1>1, <2>2, Zenon
  <2>5. /\ DOMAIN outgoing' = DOMAIN outgoing \cup {Len(outgoing) + 1}
        /\ outgoing'[Len(outgoing) + 1] = q
        /\ \A i \in DOMAIN outgoing : outgoing'[i] = outgoing[i]
    BY <2>1, <2>4, SMTT(60)
  <2> QED
    BY <2>3, <2>5, SMTT(60) DEF Ids
<1>4. PICK g : Additive(g, Ids(outgoing), PayloadLen) /\ g[Ids(outgoing)] = queuedBytes
  BY Zenon DEF Accounted
<1>5. PICK S : S = Ids(outgoing)
  BY SMTT(60)
<1>6. \E h : Additive(h, S \cup {f}, PayloadLen) /\ h[S \cup {f}] = g[S] + PayloadLen[f]
  BY <1>2, <1>4, <1>5, AdditiveAdds, SMTT(60)
<1>7. \E h : Additive(h, Ids(outgoing'), PayloadLen) /\ h[Ids(outgoing')] = queuedBytes'
  BY <1>1, <1>3, <1>4, <1>5, <1>6, Zenon
<1> QED
  BY <1>7, Zenon DEF Accounted

LEMMA AccountedTransmit ==
    ASSUME IInv, Accounted, TickTransmit
    PROVE  Accounted'
<1>1. PICK x \in QueuedFrames : /\ x.id \in Ids(outgoing)
                                /\ Ids(outgoing') = Ids(outgoing) \ {x.id}
                                /\ queuedBytes' = queuedBytes - PayloadLen[x.id]
  BY TransmitEffect, Zenon
<1>2. PICK g : Additive(g, Ids(outgoing), PayloadLen) /\ g[Ids(outgoing)] = queuedBytes
  BY Zenon DEF Accounted
<1>3. PICK S : S = Ids(outgoing)
  BY Zenon
<1>4. \E h : Additive(h, S \ {x.id}, PayloadLen) /\ h[S \ {x.id}] = g[S] - PayloadLen[x.id]
  <2>1. x.id \in S /\ Additive(g, S, PayloadLen)
    BY <1>1, <1>2, <1>3, ZenonT(60)
  <2>2. PICK f \in S : f = x.id
    BY <2>1, ZenonT(60)
  <2>3. \E h : Additive(h, S \ {f}, PayloadLen) /\ h[S \ {f}] = g[S] - PayloadLen[f]
    BY <2>1, AdditiveRemoves, ZenonT(60)
  <2> QED
    BY <2>2, <2>3, ZenonT(60)
<1>5. \E h : Additive(h, Ids(outgoing'), PayloadLen) /\ h[Ids(outgoing')] = queuedBytes'
  BY <1>1, <1>2, <1>3, <1>4, Zenon
<1> QED
  BY <1>5, Zenon DEF Accounted

LEMMA AccountedStep == IInv /\ Accounted /\ [Next]_vars => Accounted'
<1> SUFFICES ASSUME IInv, Accounted, [Next]_vars PROVE Accounted'
  OBVIOUS
<1>1. CASE Enqueue
  BY <1>1, AccountedEnqueue, SMTT(60)
<1>2. CASE TickTransmit
  BY <1>2, AccountedTransmit, SMTT(60)
<1>3. CASE TickWasted
  <2>1. outgoing' = SortFrames(outgoing) /\ queuedBytes' = queuedBytes
    BY <1>3, Zenon DEF TickWasted
  <2>2. outgoing \in Seq(QueuedFrames) /\ OneEach(outgoing)
    BY ZenonT(60) DEF IInv, Typed, Placed
  <2>3. Ids(outgoing') = Ids(outgoing)
    BY <2>1, <2>2, SortedSlice, ZenonT(60)
  <2> QED
    BY <2>1, <2>3, Zenon DEF Accounted
<1>4. CASE UNCHANGED <<outgoing, queuedBytes>>
  BY <1>4, ZenonT(60) DEF Accounted, Ids
<1>5. ASSUME \/ Pass \/ CloseReader \/ StackClosed \/ ReadFails \/ DropTail \/ TickReceive
             \/ \E f \in Frames : Emit(f)
             \/ UNCHANGED vars
      PROVE  UNCHANGED <<outgoing, queuedBytes>>
  BY <1>5, ZenonT(60) DEF Pass, CloseReader, StackClosed, ReadFails, DropTail, TickReceive, Emit, vars, txVars
<1> QED
  BY <1>1, <1>2, <1>3, <1>4, <1>5, Zenon DEF Next, FrameAvailable, Ticker

\* linkfwdfull.go:98-129: however the frames enter the TX buffer, are sorted there and
\* leave it, queuedBytes is exactly the number of bytes the buffer holds, so the
\* drop-tail test never looks at a stale or drifting count.
THEOREM BufferIsAccounted == Spec => []AccountingExact
<1>1. IInv /\ Accounted => AccountingExact
  <2> SUFFICES ASSUME IInv, Accounted PROVE AccountingExact
    BY SMTT(60)
  <2>1. outgoing \in Seq(QueuedFrames) /\ OneEach(outgoing)
    BY ZenonT(60) DEF IInv, Typed, Placed
  <2>2. PICK g : Additive(g, Ids(outgoing), PayloadLen) /\ g[Ids(outgoing)] = queuedBytes
    BY Zenon DEF Accounted
  <2>3. BytesOf(outgoing) = g[Ids(outgoing)]
    BY <2>1, <2>2, BytesOfIsSum, Zenon
  <2> QED
    BY <2>2, <2>3, Zenon DEF AccountingExact
<1>2. Spec => []Accounted
  BY AccountedInit, AccountedStep, FullInvariant, PTL DEF Spec
<1> QED
  BY <1>1, <1>2, FullInvariant, PTL
=============================================================================
