------------------------------- MODULE MCNICs -------------------------------
(***************************************************************************)
(* The three implementations of the NIC interface under load, each with    *)
(* the goroutines that use it: the stack of a host (GVisorNIC), the port   *)
(* of a router (RouterPort), and the dumper that wraps a NIC of a link,    *)
(* together with the link that forwards its frames and closes it (Link).   *)
(* A behaviour is about one of them; the other two stay as they were made. *)
(***************************************************************************)
EXTENDS Link, GVisorNIC, RouterPort

VARIABLE bench  \* the implementation that is used

nicsVars == <<bench, stackVars, portVars, vars>>

NICsInit == bench \in {"stack", "port", "link"} /\ StackInit /\ PortInit /\ Init

NICsNext ==
    \/ bench = "stack" /\ StackNext /\ UNCHANGED <<bench, portVars, vars>>
    \/ bench = "port" /\ PortNext /\ UNCHANGED <<bench, stackVars, vars>>
    \/ bench = "link" /\ Next /\ UNCHANGED <<bench, stackVars, portVars>>

\* The goroutines of the implementation that is used run.  Only the writer of a
\* dumper could take a step right after Init, so only its fairness has to say that
\* the link is the one that is used.
NICsFairSpec ==
    /\ NICsInit /\ [][NICsNext]_nicsVars
    /\ StackFairness /\ PortFairness /\ LinkFairness
    /\ \A n \in Wrapped : WF_vars(bench = "link" /\ PCAPLoop(n))
=============================================================================
