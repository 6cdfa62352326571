----------------------------- MODULE FifoLink ------------------------------
(***************************************************************************)
(* What a forwarder without losses, jitter and DPI promises: until it is   *)
(* stopped, every frame it reads is delivered, once and in order.          *)
(***************************************************************************)
EXTENDS Sequences

CONSTANT Frames

VARIABLES
    transit,   \* frames read and not delivered, in order
    delivered, \* frames delivered, in order
    open       \* the link has not been stopped

vars == <<transit, delivered, open>>

Init == transit = <<>> /\ delivered = <<>> /\ open = TRUE

Enter(f) ==
    /\ open
    /\ transit' = Append(transit, f)
    /\ UNCHANGED <<delivered, open>>

Deliver ==
    /\ open /\ transit # <<>>
    /\ delivered' = Append(delivered, Head(transit))
    /\ transit' = Tail(transit)
    /\ UNCHANGED open

Stop == open /\ open' = FALSE /\ UNCHANGED <<transit, delivered>>

Next == Deliver \/ Stop \/ \E f \in Frames : Enter(f)

Safe == Init /\ [][Next]_vars
Spec == Safe /\ WF_vars(Deliver)
=============================================================================
