----------------------------- MODULE LossyLink -----------------------------
(***************************************************************************)
(* What any link forwarder promises about the frames it reads: a frame is  *)
(* delivered at most once, or lost, and nothing is delivered that was not  *)
(* read.  "This link allows out-of-order delivery of packets"              *)
(* (linkfwdfull.go, LinkFwdFull).                                          *)
(***************************************************************************)
CONSTANT Frames

VARIABLES
    transit,   \* frames read and neither delivered nor lost
    delivered, \* frames delivered
    lost       \* frames lost

vars == <<transit, delivered, lost>>

Init == transit = {} /\ delivered = {} /\ lost = {}

Fresh(f) == f \notin transit \cup delivered \cup lost

Enter(f) ==
    /\ Fresh(f)
    /\ transit' = transit \cup {f}
    /\ UNCHANGED <<delivered, lost>>

Refuse(f) ==
    /\ Fresh(f)
    /\ lost' = lost \cup {f}
    /\ UNCHANGED <<transit, delivered>>

Deliver(f) ==
    /\ f \in transit
    /\ transit' = transit \ {f}
    /\ delivered' = delivered \cup {f}
    /\ UNCHANGED lost

Lose(f) ==
    /\ f \in transit
    /\ transit' = transit \ {f}
    /\ lost' = lost \cup {f}
    /\ UNCHANGED delivered

Next == \E f \in Frames : Enter(f) \/ Refuse(f) \/ Deliver(f) \/ Lose(f)

Spec == Init /\ [][Next]_vars
=============================================================================
