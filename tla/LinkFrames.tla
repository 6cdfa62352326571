----------------------------- MODULE LinkFrames -----------------------------
(***************************************************************************)
(* The frame values that the link forwarders queue (model.go, type Frame)  *)
(* and the stable sort by deadline they apply to their queues              *)
(* (linkfwdcore.go, linkFwdSortFrameSliceInPlace).                         *)
(*                                                                         *)
(* A payload is abstracted to an identity "id"; its length is given by the *)
(* constants of the module that needs it.  Flags is the set of the flags   *)
(* that are set; Spoofed is the sequence of the packets to spoof.          *)
(***************************************************************************)
EXTENDS Integers, Sequences, FiniteSets

FrameFlagSpoof == "spoof"
FrameFlagDrop == "drop"

Flags == {FrameFlagSpoof, FrameFlagDrop}

\* NewFrame, then ShallowCopy with a new deadline: what a forwarder queues.
QueuedFrame(id, deadline) ==
    [id |-> id, deadline |-> deadline, flags |-> {}, spoofed |-> <<>>]

\* The order sort.SliceStable gives to positions i and j of the slice s.
SortedBefore(s, i, j) ==
    \/ s[i].deadline < s[j].deadline
    \/ s[i].deadline = s[j].deadline /\ i <= j

\* The position of s[i] once s is sorted.
SortedIndex(s, i) == Cardinality({j \in DOMAIN s : SortedBefore(s, j, i)})

\* A variant of SortFrames that does not sort.
UnsortedFrames(s) == s

\* The slice after linkFwdSortFrameSliceInPlace.
SortFrames(s) ==
    [k \in DOMAIN s |-> s[CHOOSE i \in DOMAIN s : SortedIndex(s, i) = k]]

\* The identities of the frames in a slice.
Ids(s) == {s[i].id : i \in DOMAIN s}
=============================================================================
