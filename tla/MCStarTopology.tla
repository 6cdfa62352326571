--------------------------- MODULE MCStarTopology ---------------------------
(* A client and a server around a router, wired by hand with a link from one *)
(* of its ports to another, or by a StarTopology whose owner adds the client *)
(* twice.                                                                    *)
EXTENDS StarTopology

Packet(src, dst, ttl, mark) ==
    [network |-> "IPv4", protocol |-> "TCP", srcIP |-> src, srcPort |-> 1, dstIP |-> dst,
     dstPort |-> 2, ttl |-> ttl, seq |-> 0, ack |-> 0, flags |-> {},
     payload |-> Bytes(mark)]

Request == Packet("client", "server", 3, <<1>>)
Reset == Packet("server", "client", 2, <<2>>)
Reply == Packet("server", "client", 3, <<3>>)
Expired == [Packet("client", "server", 0, <<4>>) EXCEPT !.network = "IPv6"]
Ping == [Packet("server", "client", 2, <<5>>) EXCEPT !.protocol = "ICMP"]
Garbled == Packet("server", "client", 2, <<6>>)

Host(port, frame, after) == [port |-> port, frame |-> frame, after |-> after]
Flagged == [packet |-> Request, flags |-> {"spoof"}, spoofed |-> <<Reset, Ping, Garbled>>]

MCPorts == {"toClient", "toServer", "spare", "loop1", "loop2"}
MCPeer == [q \in MCPorts |-> IF q = "loop1" THEN "loop2" ELSE IF q = "loop2" THEN "loop1" ELSE q]
MCFrames == {Host("toClient", Flagged, {}), Host("toClient", NewFrame(Expired), {}),
             Host("toServer", NewFrame(Reply), {Request})}
MCRoutes == {<<"client", "toClient">>, <<"server", "toServer">>, <<"server", "loop1">>}
MCOffers == {<<"client", "toClient">>, <<"server", "toServer">>, <<"client", "spare">>}
MCUnserializable == {Garbled.payload}
MCInitial == [a \in {"client", "server"} |-> NoPort]
=============================================================================
