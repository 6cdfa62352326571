-------------------------- MODULE MCLinkFwdFull --------------------------
(***************************************************************************)
(* Small instances of LinkFwdFull.  Lengths, rates and delays are scaled   *)
(* down; their order is the code's (a frame is shorter than the buffer,    *)
(* the jitter and the policies' delays overlap the one-way delay).         *)
(***************************************************************************)
EXTENDS LinkFwdFull

CONSTANTS f1, f2, f3

MCPayloadLen == [f \in Frames |-> IF f = f1 THEN 2 ELSE 1]

\* The payload of a full-size IP packet.
FullSize == [f \in Frames |-> 1500]

Throttle == [delay |-> 1, flags |-> {FrameFlagSpoof}, plr |-> 0, spoofed |-> <<"rst">>]
Drop == [delay |-> 0, flags |-> {FrameFlagDrop}, plr |-> 0, spoofed |-> <<>>]
Slow == [delay |-> 2, flags |-> {}, plr |-> 0, spoofed |-> <<>>]
LossyPolicy == [delay |-> 0, flags |-> {}, plr |-> 100, spoofed |-> <<>>]

\* Three frames that the jitter reorders, or two with every verdict and loss.
MCConfigs ==
    [jitter |-> Config(1, 0, {}, {0, 1}, {0}, {f1, f2, f3}),
     lossy |-> Config(2, 10, {Throttle, Drop, LossyPolicy, Slow}, {0, 1}, {0, 50, 99}, {f1, f2})]

Pacing == [pacing |-> Config(1000, 0, {}, {0}, {0}, {f1, f2, f3})]
=============================================================================
