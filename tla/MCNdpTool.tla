---------------------------- MODULE MCNdpTool ----------------------------
(* Two queues, two buffers each, bursts of two and limits that cut the     *)
(* second one.                                                             *)
EXTENDS NdpTool

MCWorker == {1, 2}
MCPacket == 1..4

EachIn(p, q) == [b \in MCPacket |-> <<IF b % 2 = 1 THEN p ELSE q, IF b <= 2 THEN 1 ELSE 2>>]
One(p, q) == [b \in MCPacket |-> <<IF b % 2 = 1 THEN p ELSE q, 1>>]

MCWorld(t, threads, queues, home) ==
    [tool |-> t, threads |-> threads, served |-> queues, home |-> home, pool |-> [w \in MCWorker |-> w],
     limit |-> 3, bytes |-> 0, burst |-> 2, usr1 |-> FALSE, interval |-> TRUE, incremental |-> FALSE,
     items |-> 2, loops |-> 2, cached |-> TRUE, short |-> 0, long |-> FALSE,
     lcores |-> 2]
Threads(t, home) == MCWorld(t, "threads", MCWorker, home)
Alone(t, home) == MCWorld(t, "single", {1}, home)

SharedPool == [b \in MCPacket |-> <<IF b <= 2 THEN "pool" ELSE "unused", 1>>]
Shared(t) == [Threads(t, SharedPool) EXCEPT !.pool = [w \in MCWorker |-> 1], !.limit = 2, !.incremental = TRUE]

MCToolWorlds ==
    {Threads("read", EachIn("rxq", "rxq")),
     [Alone("read", One("rxq", "rxq")) EXCEPT !.usr1 = TRUE],
     [Threads("read", EachIn("rxq", "rxq")) EXCEPT !.usr1 = TRUE, !.interval = FALSE, !.burst = 1, !.limit = 1],
     [Alone("receive", One("rxq", "rxq")) EXCEPT !.usr1 = TRUE, !.incremental = TRUE, !.bytes = 2, !.limit = 0],
     [Alone("transmit", One("txq", "txq")) EXCEPT !.usr1 = TRUE, !.cached = FALSE],
     [Threads("transmit", EachIn("txq", "txq")) EXCEPT !.limit = 0, !.incremental = TRUE],
     [Alone("transmit", One("txq", "txq")) EXCEPT !.short = 2],
     Alone("generate", One("txq", "txq")),
     Alone("loopback", One("rxq", "txq")),
     Alone("loopback_hw", One("rxq", "txq")),
     Alone("xdp_read", One("pool", "pool")),
     Alone("xdp_generate", One("pool", "pool")),
     [Alone("xdp_generate", One("pool", "pool")) EXCEPT !.limit = 0, !.bytes = 3],
     Shared("dpdk_read"), Shared("dpdk_loopback"), Shared("dpdk_generate"),
     [Threads("dpdk_receive", EachIn("pool", "pool")) EXCEPT !.lcores = 1],
     [Shared("dpdk_transmit") EXCEPT !.limit = 0, !.items = 1],
     [Threads("dpdk_transmit", EachIn("pool", "pool")) EXCEPT !.long = TRUE, !.lcores = 1],
     [Threads("dpdk_receive", EachIn("pool", "pool")) EXCEPT !.limit = 2, !.incremental = TRUE]}

ToolSpec == ToolInit /\ [][ToolNext]_toolVars
=============================================================================
