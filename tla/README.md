# A TLA+ model of netem

netem emulates networks inside a Go program: userspace TCP/IP stacks (gVisor),
links that delay, lose and censor frames, a router, and helper servers. This
directory holds TLA+ modules for its concurrent core and for the protocols built
on it, the TLC instances that check them, and TLAPS proofs that cover all of the
modules with state.

Line numbers refer to `src/`. `PROJECT.json` lists, per definition, the lines
it models; per hazard, the line where it bites and the properties about it.

## The system

| Part | Source | State | Operations | Module |
| --- | --- | --- | --- | --- |
| gVisor NIC | `gvisor.go` | endpoint queue, `incomingPacket`, `closed` | `WriteNotify`, `FrameAvailable`, `ReadFrameNonblocking`, `WriteFrame`, `Close` | `GVisorNIC` |
| Router port | `router.go` | `outgoingQueue`, `outgoingNotify`, `closed` | `writeOutgoingPacket`, the reader, `Close` | `RouterPort` |
| Router | `router.go` | `table` | `AddRoute`, `tryRoute` | `Router` |
| Star topology | `topology.go` | hosts, links, addresses | `AddHost`, `Close` | `StarTopology` (extends `Router`) |
| Link | `link.go`, `linkfwdfast.go` | two NICs, wait group, once | `NewLink`, `Close`, `LinkFwdFast` | `Link` |
| PCAP dumper | `pcap.go` | capture channel, writer goroutine | deliver, write, `Close` | `PCAPDumper` (part of `Link`) |
| Delay forwarder | `linkfwddelay.go` | `inflight`, the ticker | the select of `LinkFwdWithDelay` | `LinkFwdWithDelay` |
| Full forwarder | `linkfwdfull.go` | `outgoing`, `queuedBytes`, `inflight` | the select of `LinkFwdFull` | `LinkFwdFull` |
| Frames and their sort | `model.go`, `linkfwdcore.go` | none | `NewFrame`, `ShallowCopy`, the stable sort | `LinkFrames` |
| Packet dissector | `dissect.go` | none | parse, TTL, flow hash, reflect, `Serialize` | `DissectedPacket`, `Router` |
| TLS parser | `tlsparse.go` | none | ClientHello to server name | `TLSParse` |
| DPI rules | `dpidrop.go`, `dpithrottle.go`, `dpiblock.go` | none | the twelve `Filter` methods | `DPIRules` |
| DPI engine | `dpiengine.go` | `rules`, `flows`, flow records | `AddRule`, `inspect`, `getFlow` | `DPIEngine` |
| DNS messages | `dnsserver.go`, `dnsclient.go` | none | query, response, parsing | `DNSMessages` |
| DNS server, client, dialing | `dnsserver.go`, `dnsclient.go`, `net.go`, `unetstack.go` | `DNSConfig`, sockets, channels | serve, configure, `DNSRoundTrip`, `DialContext` | `DNSResolver` |
| NDT0 | `ndt0.go`, `net.go`, `ca.go` | channels, connection, counters | client, server, TLS handshake | `NDT0` |
| calibrate | `cmd/calibrate/main.go` | `errClient`, `errServer` | `main` | `Calibrate` (extends `NDT0`) |
| Static NICs | `nic.go` | frames, one-slot channel | test doubles | no |
| HTTP, logger, helpers | `httpclient.go`, `logger.go`, `rtx.go` | none | constructors | no |

How they interact. A stack writes packets to its NIC, which announces each on a
channel. A link runs two forwarding goroutines, one per direction; each waits
for an announcement or for the NIC's closed channel, reads one frame, perhaps
delays, drops or inspects it, and writes it to the NIC at the other end. A NIC
may be wrapped by a PCAP dumper, which copies what is read and written to a
writer goroutine. When the other NIC is a router port, the write runs `tryRoute`
in the forwarding goroutine, which may emit spoofed packets first and then
appends to another port's queue. When it is a gVisor stack, the write injects the
packet, and the stack may answer at once, in the same goroutine. One DPI engine
may serve many links. On top, hosts resolve names, dial, and measure speed.

What makes it hard: queueing a packet and announcing it are two steps; a
notification channel may be full; forwarding goroutines run code of the NIC they
write to; a ticker that is reset keeps a stale tick; two queues of one forwarder
are sorted and served at different rates; `inspect` finds a flow record under one
mutex and locks it under another; hosts are added while others talk; a round trip
and a TLS handshake are abandoned by their caller while a goroutine still works
on them; closing races with everything.

## The modules

`VARIABLES` carry the names of the Go fields where there is one. History
variables, which no guard reads, are marked "history" in their declaration. A
definition that stands next to a "variant" has a deliberately wrong twin: TLC
finds the property violated when the twin takes its place.

**LinkFwdFull.** One forwarding goroutine. `StackClosed`, `FrameAvailable`
(`ReadFails`, `DropTail`, `Enqueue`) and `Ticker` (`TickWasted`, `TickTransmit`,
`TickReceive`) are the three cases of the select; each action is a whole case,
sorts included. `TickWasted` is the `continue` that also skips the receiver. The
DPI engine may give any verdict out of the policies of the configuration, the
random generator any of its jitters and draws. Time is in nanoseconds and does
not pass inside a case. A tick may come at any time, which includes every 120us.
`LossyLink` is the abstract specification: a frame that is read is delivered at
most once, in any order, or lost.

**LinkFwdWithDelay.** Same shape, with the `time.Ticker` spelled out: its period,
its next firing, and a channel for one tick that `Reset` does not drain, as with
the Go 1.20 that `go.mod` selects. `FifoLink` is the abstract specification: a
FIFO that delivers everything while the goroutine runs.

**GVisorNIC.** `EndpointAccepts` and `EndpointRefuses` are gVisor's
`channel.Endpoint` (external), `WriteNotify` the callback it runs next,
`FrameAvailable`, `ReadFrameNonblocking`, `StackReadFails` and `ReaderStops` the link's
goroutine. The content of an `Unreadable` packet cannot be read: such a packet has left
the endpoint and is lost (156). `Injectors` are writers that are forwarding goroutines
inside `WriteFrame`, here `StackWriteFrame`.

**RouterPort.** `WriteOutgoingPacket` appends under the lock; `ReturnNil`,
`ReturnStackClosed` and `ReturnDropped` are the cases of the select that follows.

**Router, StarTopology.** `TryRoute` checks a frame and lists what it emits, spoofed
packets first. Each of these packets is then routed in turn: `Lookup` and
`WriteOutgoingPacket` are separate steps, since the table's mutex is released between
them. A packet with an `Unserializable` payload, which gopacket dissects into a layer
that it cannot write back, ends in `SerializeFails` instead. The history `lookups`
records each packet with the port the table named for it. A port is a queue here; its
notifications are in `RouterPort`. The router is wired in one of two ways. By hand, routes change at any time and two ports may be joined by a
link, so packets can go round. By a `StarTopology`, `AddHost`, `StartLink`,
`RouteHost` and `CountHost` are the steps of the owner's call, between which the hosts
of earlier calls talk and the new link already forwards; `CloseOnce`, `CloseLink`,
`WaitLink` and `CloseReturns` take the links down in order. Each link is its two
goroutines, `Upwards` and `Downwards`.

**Link, PCAPDumper.** `NewLink` is the initial state; `Begin`, `CloseNIC`,
`CancelLoop`, `JoinLoop`, `WaitReturns` and `OnceReturns` are the steps of `Close`;
`LinkFwdFast` is the goroutine of each direction. A gVisor NIC refuses frames once
closed, a router port does not. `Wrapped` NICs have a dumper: reading and writing
a frame deliver its summary to `pich` or drop it when that is full, `PCAPLoop`
writes them to the file, and closing the NIC closes the one below, cancels the
loop and waits for it.

**MCNICs.** One instance for the three kinds of NIC bench: a `GVisorNIC`, a `RouterPort`
or a `Link` with its dumper. The variable `bench` picks one of them at the start, and
only this one takes steps.

**DissectedPacket, TLSParse, DPIRules, DPIEngine.** A payload is a sequence of
bytes or a DNS message. `TLSParse` is the chain of parsers from the record header to
the server name, over an external `cryptobyte.String` that reads fixed and
length-prefixed fields; only the size of `random` is scaled down. `GetFlow`, `Lock`
and `Decide` are the stages of `inspect` between which other goroutines run. No code
waits while it holds the engine's mutex, so what that mutex protects is one step,
and copying the rules is one step with running them. Flow records are in a heap,
because a stale record that was replaced in the map can still be held. `FlowHash`
keeps what gopacket's `FastHash` depends on, the kind of transport and the unordered
ports, and is otherwise taken to be collision free.

**DNSMessages, DNSResolver.** `DNSServerRoundTrip` and `DNSParseResponse` are
functions of messages; a domain name is a model value and `Canonical` is
`dns.CanonicalName`. A call of `DNSRoundTrip` is two goroutines, `Caller` and
`Async`, with the two channels between them; `SendQuery` takes a free port of the
host, and the port returns to the pool when the socket is closed, so a late
answer may reach the socket of another call. The server's `Worker` reads, clones the
configuration and answers; `AddRecord` and `RemoveRecord` run at any time. The
network loses, delays and reorders datagrams: a datagram in flight may be taken at
any time or never. A call in `Dialers` goes on to connect to the addresses in turn.

**NDT0, Calibrate.** A connection moves chunks; a TLS handshake is three flights,
any of which may be late for ever. `HandshakeReturns` is the select of `tlsHandshake`
and `Handshake` the goroutine it may abandon. `Calibrate` is `main`: it waits for
the listener, prints samples, collects the two results. An unbuffered send and its
receive are one step (`PrintSample`).

## Runs

All runs give `CHECK_DEADLOCK FALSE`: the instances bound the number of packets,
calls and the clock, and goroutines end after a close, so every behaviour stops.

| Run | Shows |
| --- | --- |
| `full_link` | The byte count of the TX buffer is exact, no frame is early, verdicts and losses are honoured, the earliest deadline goes first, `LossyLink` is implemented and every frame read is settled (liveness). |
| `delay_link` | The ticker never sleeps past the front frame, nothing is early, `Reset` never gets a duration it would panic on, `FifoLink` is implemented with its liveness. |
| `nics` | gVisor NIC: one announcement per packet, `WriteNotify` never blocks, every packet read, everyone stops after `Close`. Router port: at most the refused announcements are missing, order, what is announced is served. Link: `Close` returns, for every caller, and only after both goroutines and the capture's writer are gone; frames are forwarded in order; the file of a capture has every frame once and in order except those in the channel and those that overflowed it, and the channel keeps being emptied. |
| `star_topology` | The time to live decreases and ends every loop; spoofed packets precede the reply; a host is reachable once `AddHost` returned; `Close` returns. |
| `dpi_engine` | With two goroutines, rule additions and stale flows: a policy sticks, the inspection budget holds, only silent flows are forgotten, rules in force apply, every inspection returns. With all twelve rules: what is spoofed fits the stream that made the rule match. With ClientHello messages whole, cut and extended: the offending ones are dropped, and nothing else is except the two kinds that `tlsparse.go` does not tell apart (see below). |
| `dns` | A lookup returns what some configuration in force during it says; a call whose context is done returns; the goroutine of a call with a deadline ends. |
| `calibrate` | Samples add up, the client's error is nil exactly for a complete measurement, and once the server listens the program ends with no goroutine left. |

Five more runs are expected to fail: they state what the repository says.

| Run | Text | Code |
| --- | --- | --- |
| `full_link_pacing` | `linkfwdfull.go:64` "we can send 100 bit/µs" | the quotient at 107 is used as nanoseconds |
| `dpi_flow_collision` | `dissect.go:228` "the hash uniquely identifying the transport flow" | only the ports are hashed (233) |
| `calibrate_tls` | `cmd/calibrate/main.go:28` "run NDT0 over TLS" | the server's certificate names its address only (76), the client dials `ndt0.local` |
| `router_port_drop` | `router.go:133` "`ErrPacketDropped` indicates that a packet was dropped" | the packet was queued before (64), stays there and is read when another packet's announcement is served; nor is `outgoingNotify` "posted each time a new packet is queued" (30) |
| `pcap_drained` | `pcap.go:219` "wait until the channel is drained" | the writer returns at the first select that picks `ctx.Done()` (178), with packets in the channel |

Smaller disagreements have no run of their own:

- `linkfwdfull.go:70` says that the TX buffer "cannot hold more than this amount of
  bytes"; the limit is compared before the frame is added (98).
- `dissect.go:317` says "ACK past last observed byte"; the number is one past the
  first byte of the segment, whatever its payload.
- `dpiblock.go:361` announces FIN|ACK where the code below sends RST|ACK.
- The comment of `StarTopology.Close` lists the router among what it closes; there is
  nothing to close and no call.
- `ndt0.go:86` says a sample every 250 ms; the ticker at 121 has 500 ms.
- `cmd/calibrate/main.go:121` prints the client's error in the warning about the
  server, and crashes when there is none (`CollectServer`). When listening fails,
  `main` waits at 88 for ever.
- `tlsparse.go` does not ask that the record's type be a handshake, and reads the
  entries of a server name list as names whatever their type. `dpi_engine` builds both,
  and `OnlyOffendingHelloDropped` leaves open whether they are dropped.

### Bounds

- `nics`: `MaxPackets` and `MaxRouted` are twice the channel's capacity, so that
  queues fill, drain and fill again with every writer half way. Capacities are 2
  instead of 1024; the proofs remove this bound. One packet is unreadable. The link
  has two frames, both of one side or one of each, two closers and a capture channel
  of one.
- `Horizon`: time passes freely up to it, and beyond it while a frame waits for
  it, so no frame is cut off. Delays and jitter overlap, so frames overtake.
- `full_link` starts in one of two configurations: three frames that the jitter
  reorders, or two frames with loss and all four kinds of verdict. Two lengths and a
  limit of one byte put the buffer under, at and over the limit.
- `dpi_engine` starts in one of three workloads, since no property needs two of them
  together: three inspections by two goroutines with two rules and a clock that
  passes `MaxSilence`, so that records are replaced while held; one goroutine and
  two packets with each of the twelve rules; one packet out of some hundred
  ClientHello variants, cut at every length, with a byte after the list of names or
  after the record, of another version, in records and handshake messages of other
  types, and with entries of other name types. The budget is three packets instead of ten.
- `star_topology`: time to live 2 or 3, one cable between two ports, three offers of
  hosts of which two have the same address, a request with three spoofed answers, of
  which one cannot be dissected and one cannot be written, a reply.
- `dns`: two calls that share one port and may draw the same identifier, one change
  of the configuration. `calibrate`: six chunks, three in flight.
- `SeqSpace` is 8, so that sequence numbers wrap.

No run uses symmetry, since each of them checks a temporal property.

### Fairness

Weak fairness on the steps of goroutines: the Go scheduler runs runnable ones.
Go's `select` picks uniformly among ready cases, so a case that stays ready is
picked in the end: weak fairness on each case in the forwarders and NICs, strong
fairness on `StackClosed` and on the dumper's `Stop` in `Link`, where the case is
ready only at the select. Time passes, the runtime fires timers, and the deadlines
of contexts and sockets pass. In `StarTopology` the owner finishes the call it is
in. No fairness is assumed of hosts that send, of `Close`, of `AddRule`, `AddRoute`
or `AddHost`, of cancelling a context, or of a datagram or flight arriving: a step
that waits for one shares its fairness with the step that gives up.

## Proofs

For all values of the constants that satisfy the named assumptions of each module.

**NICProofs**, for the two kinds of NIC. For a stack, `NICInv` is `StackTypeOK`,
`OneNoticePerPacket` and `NoticesBacked` (announcements never outnumber packets, also
after a close). The first count alone is not inductive, because it says nothing once
the stack is closed. Each step moves one unit between the queue, the channel, the set
of notifying writers and the reader; the lemmas `NotifyingGrows`, `NotifyingShrinks`
and `NotifyingKept` say how the set's cardinality moves. `NotifyNeverBlocks` follows
because the queue's bound is at most the channel's (`NICAssumption`; both are 1024 in
the code). For a port, `PortInv` is `PortTypeOK`, `NoticesBackedByPackets`,
`OnlyDropsUnannounced` and `Fresh`. The last says
that writers hold different packets that have not been dropped, so each drop makes the
set `dropped` larger by one. `PortReadInOrder` rests on `Numbered`: what was taken and
what is queued are the numbers up to `portWritten`.

**LinkFwdWithDelayProofs.** `TypeOK` includes that the ticker's period is
positive. `TimerArmed` is inductive with it. `NeverEarly` needs `DueInTime`: the
deadline of a frame in flight is at least its read time plus the delay, and the
frames in the NIC are distinct and unread. `DelayImplementsFifo` is the step
simulation of `FifoLink`.

**LinkFwdFullProofs.** `IInv` is `Typed`, `Placed` (a frame is in the NIC until it is
read, and in at most one place after that, once) and `Faithful` (what is in flight or
delivered is due no earlier than its delays ask for, and carries the answer of the DPI,
with the drop flag only where the answer or the draw of a loss put it). The first
lemmas are about the sort: it is a permutation in the order of the deadlines, so the
three conjuncts survive it, and the frame at the front is one that is due first.
`NoFrameIsEarly`, `VerdictsAreHonoured` and `FirstDueLeavesFirst` follow;
`FullImplementsLossy` is the step simulation of `LossyLink`. `BufferIsAccounted` has
to relate the counter to a sum over a slice that the sort reorders. `Accounted` states
the sum over the set of queued frames, by means of any function that is additive on
sets; that the recursive `BytesOf` is such a sum is shown with a least
counterexample, since induction over data is not available.

**LinkProofs.** `CloseStopsTheLink`. `CloseMeansStopped` alone says nothing about
how the first caller got there, so `IInv` adds `Shapes`, `Counted` (the wait group
is the number of forwarding goroutines that are not gone) and `Exclusive` (at most
one caller is inside the once, and how far it is says which NICs and which writers
of captures are already down). A caller leaves `Wait` only when the count is zero,
and then neither goroutine is left. `FramesStayInOrder` rests on `Moves`: in each
direction, what the far NIC got, the frame that the goroutine holds and the queue are
consecutive pieces of what was emitted, with a gap only once the far NIC refuses
frames. `CapturesAreFaithful` adds `Captures`: the file, the channel and what was
missed are, without overlap, the frames that `Moves` says have crossed the NIC, and
the file followed by the channel is in order for each direction (`FileOfLog` turns this
into the statement about the file).

**StarTopologyProofs.** `HostsAreReachable`: the invariant `Wired` says that every
address the owner has counted has a route, and so has the one it is about to
count; routes are replaced and never removed. A packet without a route then has a
destination that is not counted. `LifetimesAreSpent`: `Descends` follows every packet
back to a frame that was sent, with less time to live once it has left the router, and
says that a goroutine that is past the lookup has a packet with time left.
`SpoofedLeadTheReply`: `SpoofedBeforeReply` looks at the end of a journey that goes
through the host that replies, so `Ahead` says where the packet of a flagged frame may
be at each moment: in the frame on the link of its sender, in the work of that port's
goroutine behind the spoofed packets that are still to be routed, or anywhere at all,
and then every spoofed packet is in the sender's stream, unless the router could not
write it or the table led it elsewhere. The reply exists only in the last case, and
streams only grow at the end.

**DPIEngineProofs.** `IInv` is `Typed`, `Alone` (a goroutine that runs the rules is
the only one on its record, which has no policy and is within its budget), `Budget`
(the rules ran at most once per counted packet) and `Honest`, which is
`RulesInForceApply` for one goroutine and survives because rules are only appended
and the endpoints of a record never change. `RulesRunWithinBudget`, `RulesAreApplied`
and `PolicyIsNeverLost` follow, whatever `Filter` does. `FlowsAreKept` needs `Dated`:
the map has the last record of each flow, and each record of a flow was made more than
`MaxSilence` after the one before was last found, also by a goroutine that still holds
the old one. `SpoofedSegmentsFit` is about `Filter`: `FilterFits` goes through the
twelve rules and shows that what a rule spoofs for a packet continues that packet's
stream, and `Traced` that a stored policy always stays with the packet it was made
for, which has the hash of its record. `AnswersHaveRules` is the converse of
`RulesAreApplied`: with `Ruled`, every policy is the answer of a rule that was added,
and stays one because rules are only appended. The last part is about `TLSParse`.
`HeaderOf` computes what the header of a record makes of any bytes, so
`RecordMustBeWhole` and `OnlyTheRecordCounts` hold for all segments and all names:
a segment that is cut short has no name, and what follows the record does not matter.
With `AnswersHaveRules` they give `NamesNeedRecords`, for the whole engine.

**DNSResolverProofs.** `ServerAndClientAgree` is about the messages alone: whatever
the configuration, the host and the questions, `DNSParseResponse` of the response of
`DNSServerRoundTrip` is `Expected`, the reference that reads the configuration
directly. `ValuesOfRecord` is its core: from the answers of a response, in which the
addresses and the CNAME follow each other, the client gets the addresses back in
their order. `LookupsAreHonest` is `LookupHonest` for any number of calls, ports,
identifiers and changes of the configuration. Its invariant follows an answer from the
configuration to the caller. `LogInv` says that the log of configurations ends with the
one in force; `WireInv` that every datagram on the wire is a query that some call has
sent, or what a configuration in force since that call began says of it; `CallInv`
that what a call's goroutine has read or posted is such an answer to a query of the
host, that what the caller returns meets a configuration for a query with the call's
own identifier (`DNSParseResponse` compares them), and that the addresses still to
dial are among those of the answer. The log only grows and a call keeps its query and
its beginning (`Grows`), so what is explained stays explained whatever other calls do.
`LookupHonest` follows because it is about a call whose identifier is its own.

**CalibrateProofs.** `SamplesAlwaysAddUp` and `ErrorsAreReported`. `Counts` ties the
client's counters to the last sample that was printed. `Outcome` says which stages of
`main` and of the client can coincide and follows the error from the client to its
channel and to `main`; in particular an empty channel after the client has ended means
that a final sample was printed.

Left to TLC:

- all liveness, and with it the liveness of `FifoLink`: it needs fairness and `ENABLED`;
- `OnlyOffendingHelloDropped`: inside the record, `TLSParse` recurs over bytes, and the
  property is about the messages that the instance builds. What does not depend on
  the inside of the record is proved (`NamesNeedRecords`).

The proofs rest on named assumptions about the constants, which TLC evaluates in
every run: NIC and port capacities are positive and fit together (`NICAssumption`);
in `RouterAssumption`, frames are sent by hosts and payloads tell packets apart, since
the properties follow a packet by its payload; in `EngineAssumption`, rules are of the
twelve kinds, packets and DNS messages have their fields and payloads are bytes; in
`ResolverAssumption`, the addresses of a record are a list.

## Assumptions

- Packets are well formed: a packet whose transport header is cut off, on which
  `DissectPacket`'s type assertion would panic, is not modelled.
- Which packets gopacket dissects and cannot write back is a constant of `Router`,
  known by the payload; the packets that the reflect functions make up are taken to
  be written without error.
- `LookupHonest` is about calls whose identifier no other call of the host has drawn:
  with equal identifiers and a late answer, the client cannot tell the two apart.
- The mutexes inside gVisor, its TCP and the cryptography of TLS are external.
- Logging is left out.

## Not modelled

- `linkForwardChooseBest` and `maybeWrapNICs` decide once, from constants and before
  the goroutines start; the modules take the decision as a constant.
- `nic.go`: test doubles that the library itself never uses. `StaticReadableNIC`
  posts on a channel of one slot under the mutex its reader needs (137); tests
  receive after each call.
- `PPPTopology` is one link between two stacks; its `Close` is the link's.
- `ca.go` beyond the names in a certificate, `httpclient.go`, `logger.go`, `rtx.go`,
  the CSV of `ndt0.go` and the flags of `calibrate`: no state that another part sees.
- `unetstack.go` and the `Dial` and `Listen` methods of `gvisor.go`: conversions of
  addresses and of errors, one to one, around gVisor calls.
- `AddHost` from several goroutines, or after `Close`: the topology has one owner.
