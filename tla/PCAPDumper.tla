----------------------------- MODULE PCAPDumper -----------------------------
(***************************************************************************)
(* pcap.go: a pcapDumperNIC wraps a NIC of a link.  It posts a summary of  *)
(* every packet read from or written to the NIC on a bounded channel, and  *)
(* a goroutine of its own moves the summaries to the PCAP file until it is *)
(* told to stop.  The module Link reads, writes and closes the NICs, and   *)
(* takes the steps of the dumpers that wrap some of them.                  *)
(*                                                                         *)
(* A summary is named after its frame; the snapshot's bytes and the file's *)
(* format are left out.                                                    *)
(***************************************************************************)
EXTENDS Integers, Sequences

CONSTANTS
    Wrapped,     \* the NICs that a dumper wraps
    ManyPackets  \* the capacity of pich

ASSUME PCAPAssumption == ManyPackets \in Nat \ {0}

VARIABLES
    pich,       \* the channel of the packets to capture
    loop,       \* where the background goroutine is
    cancelled,  \* its context is done
    file,       \* the entries of the PCAP file
    missed      \* history: the packets dropped from the capture

pcapVars == <<pich, loop, cancelled, file, missed>>

\* newPCAPDumperNIC: the goroutine starts with the wrapper.
PCAPInit ==
    /\ pich = [n \in Wrapped |-> <<>>]
    /\ loop = [n \in Wrapped |-> "create"]
    /\ cancelled = [n \in Wrapped |-> FALSE]
    /\ file = [n \in Wrapped |-> <<>>]
    /\ missed = [n \in Wrapped |-> {}]

-----------------------------------------------------------------------------
(* deliverPacketInfo: a send that drops the summary rather than wait. *)

HasRoom(n) == Len(pich[n]) < ManyPackets

DeliverPacketInfo(n, f) ==
    /\ IF HasRoom(n)
       THEN pich' = [pich EXCEPT ![n] = Append(@, f)] /\ UNCHANGED missed
       ELSE missed' = [missed EXCEPT ![n] = @ \cup {f}] /\ UNCHANGED pich
    /\ UNCHANGED <<loop, cancelled, file>>

\* What reading f from n, or writing f to it, does to the capture.  The variant
\* of the second is a WriteFrame that hands the frame over without a summary.
Capture(n, f) ==
    IF n \in Wrapped THEN DeliverPacketInfo(n, f) ELSE UNCHANGED pcapVars
NotCaptured(n, f) == UNCHANGED pcapVars
CaptureWrite(n, f) == Capture(n, f)

-----------------------------------------------------------------------------
(* loop *)

\* os.Create and WriteFileHeader: either may fail, and then the goroutine returns.
Prepare(n) ==
    /\ loop[n] \in {"create", "header"}
    /\ \E next \in {IF loop[n] = "create" THEN "header" ELSE "select", "gone"} :
         loop' = [loop EXCEPT ![n] = next]
    /\ UNCHANGED <<pich, cancelled, file, missed>>

\* case <-ctx.Done(); the variant only ever ranges over pich.
NeverDone(n) == FALSE
CtxDone(n) == cancelled[n]

Stop(n) ==
    /\ loop[n] = "select" /\ CtxDone(n)
    /\ loop' = [loop EXCEPT ![n] = "gone"]
    /\ UNCHANGED <<pich, cancelled, file, missed>>

\* case pinfo := <-pd.pich; the variant waits for two summaries.
WaitForTwo(n) == Len(pich[n]) > 1
HasEntry(n) == pich[n] # <<>>

\* doWritePCAPEntry writes one entry; a WritePacket that fails is logged, and the
\* entry is not in the file.
WriteEntry(n) ==
    /\ loop[n] = "select" /\ HasEntry(n)
    /\ pich' = [pich EXCEPT ![n] = Tail(@)]
    /\ \/ /\ file' = [file EXCEPT ![n] = Append(@, Head(pich[n]))]
          /\ UNCHANGED missed
       \/ /\ missed' = [missed EXCEPT ![n] = @ \cup {Head(pich[n])}]
          /\ UNCHANGED file
    /\ UNCHANGED <<loop, cancelled>>

Loop(n) == Prepare(n) \/ Stop(n) \/ WriteEntry(n)

\* pd.cancel(), and <-pd.joined, which the goroutine closes when it returns.
Cancel(n) ==
    /\ cancelled' = [cancelled EXCEPT ![n] = TRUE]
    /\ UNCHANGED <<pich, loop, file, missed>>

Joined(n) == loop[n] = "gone"
=============================================================================
