------------------------------ MODULE NdpTool ------------------------------
(* The worker loops of ndp-tool (src/tools/ndptool): read, receive,        *)
(* transmit, generate and the two loopbacks over NDP queues, read and      *)
(* generate over AF_XDP sockets, and the five modes over DPDK, with the    *)
(* main thread that collects their statistics and stops them.              *)
(*                                                                         *)
(* A packet buffer (a slot of an NDP ring, a frame of a umem, an mbuf) is  *)
(* a member of Packet, and spot says where it is:                          *)
(*    <<"rxq", w>>   in the receive ring of w, the card may have filled it *)
(*    <<"txq", w>>   in the transmit ring of w, free                       *)
(*    <<"pool", q>>  in mempool q, or on the address stack of worker q     *)
(*    <<"fill", w>>, <<"tx", w>>, <<"comp", w>>   with the card            *)
(*    <<"held", w>>  given to the worker                                   *)
(* All packets have length 1, so packets and bytes are counted alike.      *)
EXTENDS Integers, FiniteSets

LOCAL INSTANCE FiniteSetsExt

CONSTANTS
    Worker,         \* one per queue
    Packet,
    ToolWorlds,     \* the ways the tool is started
    Supply,         \* bound on the packets a worker handles in a behaviour
    FlushAt,        \* packets after which a thread publishes its counters
    AllocTries,     \* failures of rte_pktmbuf_alloc_bulk that kill a thread
    ZeroRounds      \* empty rounds after which loopback_hw has seen everything

ASSUME ToolBounds == {Supply, FlushAt, AllocTries, ZeroRounds} \subseteq Nat

VARIABLES
    tool_world,     \* never changes
    wk,             \* [Worker -> the local variables and the stats_info of a worker]
    spot,             \* [Packet -> place]
    sig,            \* the globals stop and stats, and what signals did
    mn              \* the main thread

toolVars == <<tool_world, wk, spot, sig, mn>>

mode == tool_world.tool
Single == tool_world.threads = "single"
Dpdk == mode \in {"dpdk_read", "dpdk_receive", "dpdk_loopback", "dpdk_generate", "dpdk_transmit"}
Xdp == mode \in {"xdp_read", "xdp_generate"}
UsesRx == mode \in {"read", "receive", "loopback", "loopback_hw"}
UsesTx == mode \in {"transmit", "generate", "loopback", "loopback_hw"}
PoolOf(w) == <<"pool", tool_world.pool[w]>>

In(place) == {b \in Packet : spot[b] = place}
Moved(S, place) == [b \in Packet |-> IF b \in S THEN place ELSE spot[b]]
Least(a, b) == IF a < b THEN a ELSE b
(* Buffers of one place are alike: some n of them.                         *)
Take(n, S) == CHOOSE T \in kSubset(n, S) : TRUE
AtPc(w, l) == wk[w].pc = l
Go(w, l) == wk' = [wk EXCEPT ![w].pc = l]

-----------------------------------------------------------------------------
(* Statistics                                                              *)

AfterStats_unflushed(r, n) ==
    LET c == r.cnt + n
        u == r.upd + n
    IN  IF ~Single /\ (u > FlushAt \/ n = 0)
        THEN [r EXCEPT !.cnt = c, !.upd = 0, !.thr = @ + (c - r.last), !.done = @ + n]
        ELSE [r EXCEPT !.cnt = c, !.upd = u, !.done = @ + n]

(* update_stats_thread flushes to the thread_ counters now and then;       *)
(* update_stats of a single queue has no thread_ counters.                 *)
AfterStats(r, n) ==
    LET c == r.cnt + n
        u == r.upd + n
    IN  IF ~Single /\ (u > FlushAt \/ n = 0)
        THEN [r EXCEPT !.cnt = c, !.upd = 0, !.thr = @ + (c - r.last), !.last = c, !.done = @ + n]
        ELSE [r EXCEPT !.cnt = c, !.upd = u, !.done = @ + n]

(* The update_stats a worker calls: on SIGUSR1 a single queue prints and,  *)
(* unless incremental, clears.                                             *)
update_stats(w, r, n) ==
    LET c == AfterStats(r, n) IN
    IF Single /\ sig.stats
    THEN /\ wk' = [wk EXCEPT ![w] = IF tool_world.incremental THEN c ELSE [c EXCEPT !.cnt = 0]]
         /\ sig' = [sig EXCEPT !.stats = FALSE,
                               !.printed = IF tool_world.incremental THEN @ ELSE @ + c.cnt]
    ELSE /\ wk' = [wk EXCEPT ![w] = c]
         /\ UNCHANGED sig

-----------------------------------------------------------------------------
(* The head of a loop: stop, the limits, and a last burst that is cut      *)

Counts == mode \in {"generate", "loopback_hw", "xdp_generate", "dpdk_generate"}
LimitReached(r) ==
    \/ /\ tool_world.limit > 0
       /\ IF Counts THEN r.rem = 0 ELSE r.cnt = tool_world.limit
    \/ /\ tool_world.bytes > 0
       /\ IF Counts THEN r.done >= tool_world.bytes ELSE r.cnt > tool_world.bytes

Burst(r) ==
    LET left == IF Counts THEN r.rem ELSE tool_world.limit - r.cnt
    IN  IF tool_world.limit > 0 /\ mode # "dpdk_transmit" /\ left < r.burst THEN left ELSE r.burst

First ==
    CASE mode \in {"read", "receive", "loopback"} -> "get"
      [] mode \in {"dpdk_read", "dpdk_receive", "dpdk_loopback"} -> "get"
      [] mode \in {"transmit", "dpdk_transmit"} -> "src"
      [] mode = "generate" -> "tx_get"
      [] mode = "xdp_generate" -> "collect"
      [] mode = "dpdk_generate" -> "alloc"

loop_head(w) ==
    /\ AtPc(w, "head")
    /\ IF sig.stop \/ LimitReached(wk[w]) THEN Go(w, "close")
       ELSE wk' = [wk EXCEPT ![w].pc = First, ![w].burst = Burst(wk[w])]
    /\ UNCHANGED <<tool_world, spot, sig, mn>>

-----------------------------------------------------------------------------
(* Queues and sockets are opened and closed                                *)

(* The steps of ndp_mode_common_prepare, and what its labels close again   *)
(* when step k fails.                                                      *)
PrepareSteps ==
    {"dev"} \cup (IF UsesRx THEN {"rx", "run_rx"} ELSE {}) \cup (IF UsesTx THEN {"tx", "run_tx"} ELSE {})
Rank(s) == CASE s = "dev" -> 1 [] s = "rx" -> 2 [] s = "tx" -> 3 [] s = "run_tx" -> 4 [] s = "run_rx" -> 5
Unwound(k) ==
    (IF k = "run_rx" THEN {"run_tx"} ELSE {}) \cup (IF k \in {"run_rx", "run_tx"} THEN {"tx"} ELSE {})
    \cup (IF k \in {"run_rx", "run_tx", "tx"} THEN {"rx"} ELSE {}) \cup {"dev"}

common_prepare(w) ==
    /\ AtPc(w, "start")
    /\ \/ wk' = [wk EXCEPT ![w].pc = "head", ![w].open = PrepareSteps, ![w].ts = "running"]
       \/ \E k \in PrepareSteps :
            wk' = [wk EXCEPT ![w].pc = "finished", ![w].ts = "finished", ![w].killed = TRUE,
                             ![w].open = {s \in PrepareSteps : Rank(s) < Rank(k)} \ Unwound(k)]
    /\ UNCHANGED <<tool_world, spot, sig, mn>>

(* A socket that could not be created is not alive, and its loop returns.  *)
xdp_prepare(w) ==
    /\ AtPc(w, "start")
    /\ \E up \in BOOLEAN :
         wk' = [wk EXCEPT ![w].pc = IF up THEN "head" ELSE "close", ![w].ts = "running",
                          ![w].open = IF up THEN {"socket", "umem"} ELSE {}]
    /\ UNCHANGED <<tool_world, spot, sig, mn>>

(* Thread 0 launches a loop on each worker lcore; when there are fewer     *)
(* lcores than queues, the last queues are not served.                     *)
dpdk_launch(w) ==
    /\ AtPc(w, "start")
    /\ Cardinality({v \in Worker : wk[v].ts # "none"}) < tool_world.lcores
    /\ wk' = [wk EXCEPT ![w].pc = "head", ![w].ts = "running"]
    /\ UNCHANGED <<tool_world, spot, sig, mn>>

(* The end of a loop: the counters are published, the queues closed, and   *)
(* with them everything of the rings goes back.                            *)
loop_close(w) ==
    LET r == [wk[w] EXCEPT !.pc = "finished", !.open = {}, !.pk = {}, !.tx = {},
                           !.ts = IF Dpdk THEN @ ELSE "finished"]
        quiet == Single /\ mode \in {"generate", "transmit", "loopback", "loopback_hw", "xdp_generate"}
    IN  /\ AtPc(w, "close")
        /\ IF quiet THEN wk' = [wk EXCEPT ![w] = r] /\ UNCHANGED sig ELSE update_stats(w, r, 0)
        /\ spot' = IF Dpdk THEN spot
                 ELSE [b \in Packet |-> IF spot[b][2] = w THEN tool_world.home[b] ELSE spot[b]]
        /\ UNCHANGED <<tool_world, mn>>

(* A DPDK or receive loop that fails returns without the last update.      *)
Killed(r) == [r EXCEPT !.pc = "finished", !.killed = TRUE, !.pk = {}, !.tx = {}]

(* rte_eal_mp_wait_lcore, then every queue is marked finished.             *)
dpdk_wait ==
    /\ Dpdk
    /\ \E w \in Worker : wk[w].ts = "running"
    /\ \A w \in Worker : wk[w].pc = "finished" \/ wk[w].ts = "none"
    /\ Cardinality({v \in Worker : wk[v].ts # "none"}) = Least(tool_world.lcores, Cardinality(Worker))
    /\ wk' = [w \in Worker |-> [wk[w] EXCEPT !.ts = "finished", !.pc = "finished"]]
    /\ UNCHANGED <<tool_world, spot, sig, mn>>

-----------------------------------------------------------------------------
(* Receiving                                                               *)

(* What a burst of r may bring.  An NDP ring and a umem hold the packets   *)
(* the card has written; the DPDK driver takes mbufs from the pool.        *)
RxFrom(w) ==
    CASE mode \in {"read", "receive", "loopback", "loopback_hw"} -> In(<<"rxq", w>>)
      [] mode = "xdp_read" -> In(<<"fill", w>>)
      [] OTHER -> In(PoolOf(w))
RxBursts(w) ==
    LET most == Least(Cardinality(RxFrom(w)), Least(wk[w].burst, Supply - wk[w].done))
    IN  {Take(n, RxFrom(w)) : n \in 0..most}

AfterRx ==
    CASE mode \in {"read", "dpdk_read", "dpdk_receive", "xdp_read"} -> "put"
      [] mode = "receive" -> "store"
      [] mode = "loopback" -> "tx_get"
      [] mode = "dpdk_loopback" -> "send"

rx_burst_get(w) ==
    /\ AtPc(w, "get")
    /\ \E S \in RxBursts(w) :
         /\ update_stats(w, [wk[w] EXCEPT !.pk = S, !.pc = IF S = {} THEN "head" ELSE AfterRx],
                         Cardinality(S))
         /\ spot' = Moved(S, <<"held", w>>)
    /\ UNCHANGED <<tool_world, mn>>

rx_burst_put(w) ==
    /\ AtPc(w, "put")
    /\ wk' = [wk EXCEPT ![w].pk = {}, ![w].pc = IF wk[w].fail THEN "close" ELSE "head"]
    /\ spot' = Moved(wk[w].pk, <<"rxq", w>>)
    /\ UNCHANGED <<tool_world, sig, mn>>

(* pcap_write_packet_burst                                                 *)
pcap_write(w) ==
    /\ AtPc(w, "store")
    /\ \E fail \in BOOLEAN :
         IF mode = "receive" THEN wk' = [wk EXCEPT ![w].pc = "put", ![w].fail = fail]
         ELSE wk' = [wk EXCEPT ![w] = IF fail THEN Killed(@) ELSE [@ EXCEPT !.pc = "head", !.pk = {}]]
    /\ UNCHANGED <<tool_world, spot, sig, mn>>

(* dpdk_read and dpdk_receive free the mbufs; receive then stores them.    *)
dpdk_free(w) ==
    /\ AtPc(w, "put")
    /\ spot' = Moved(wk[w].pk, PoolOf(w))
    /\ wk' = [wk EXCEPT ![w].pc = IF mode = "dpdk_receive" THEN "store" ELSE "head",
                        ![w].pk = IF mode = "dpdk_receive" THEN @ ELSE {}]
    /\ UNCHANGED <<tool_world, sig, mn>>

(* What the driver does not accept is freed.                               *)
dpdk_loopback_send(w) ==
    /\ AtPc(w, "send")
    /\ \E S \in {Take(n, wk[w].pk) : n \in 0..Cardinality(wk[w].pk)} :
         spot' = [b \in Packet |-> IF b \in S THEN <<"tx", w>>
                              ELSE IF b \in wk[w].pk THEN PoolOf(w) ELSE spot[b]]
    /\ wk' = [wk EXCEPT ![w].pk = {}, ![w].pc = "head"]
    /\ UNCHANGED <<tool_world, sig, mn>>

(* The head of xdp_mode_read_loop first refills the fill ring, but only    *)
(* when more than a burst can be refilled, and checks the limit then.      *)
xdp_read_head(w) ==
    LET stack == In(PoolOf(w)) IN
    /\ AtPc(w, "head")
    /\ IF sig.stop THEN Go(w, "close") /\ UNCHANGED spot
       ELSE /\ spot' = IF Cardinality(stack) > wk[w].burst THEN Moved(stack, <<"fill", w>>) ELSE spot
            /\ IF LimitReached(wk[w]) THEN Go(w, "close")
               ELSE wk' = [wk EXCEPT ![w].pc = "get", ![w].burst = Burst(wk[w])]
    /\ UNCHANGED <<tool_world, sig, mn>>

(* The frames go back to the stack before the statistics look at them.     *)
xdp_peek(w) ==
    /\ AtPc(w, "get")
    /\ \E S \in RxBursts(w) :
         /\ wk' = [wk EXCEPT ![w].pk = S, ![w].pc = IF S = {} THEN "head" ELSE "put"]
         /\ spot' = Moved(S, PoolOf(w))
    /\ UNCHANGED <<tool_world, sig, mn>>
xdp_release(w) ==
    /\ AtPc(w, "put")
    /\ update_stats(w, [wk[w] EXCEPT !.pk = {}, !.pc = "head"], Cardinality(wk[w].pk))
    /\ UNCHANGED <<tool_world, spot, mn>>

-----------------------------------------------------------------------------
(* Transmitting                                                            *)

(* pcap_src_burst_fill_meta: up to a burst from the cache, one packet from *)
(* the file; at the end it starts again until the loops are used up.       *)
FillMeta(w, next) ==
    LET r == wk[w]
        wrap == r.off = tool_world.items
        off == IF wrap THEN 0 ELSE r.off
        ready == IF tool_world.cached THEN Least(r.burst, tool_world.items - off) ELSE 1
        short == tool_world.short > off /\ tool_world.short <= off + ready
    IN  /\ AtPc(w, "src")
        /\ IF (wrap /\ r.loop >= tool_world.loops) \/ ready = 0 THEN Go(w, "close")
           ELSE wk' = [wk EXCEPT ![w].off = off, ![w].loop = IF wrap THEN @ + 1 ELSE @, ![w].n = ready,
                                 ![w].pc = IF short THEN "close" ELSE next]
        /\ UNCHANGED <<tool_world, spot, sig, mn>>
pcap_src(w) == FillMeta(w, "tx_get")
dpdk_pcap_src(w) == FillMeta(w, "alloc")

(* ndp_tx_burst_get gives all the packets asked for or none; it is asked   *)
(* again until it gives them or the tool is stopped.                       *)
Wanted(w) ==
    CASE mode = "transmit" -> wk[w].n
      [] mode = "loopback" -> Cardinality(wk[w].pk)
      [] mode \in {"generate", "loopback_hw"} -> wk[w].burst
tx_burst_get(w) ==
    /\ AtPc(w, "tx_get")
    /\ IF Cardinality(In(<<"txq", w>>)) >= Wanted(w)
       THEN \E S \in {Take(Wanted(w), In(<<"txq", w>>))} :
              /\ wk' = [wk EXCEPT ![w].tx = S, ![w].pc = "tx_put"]
              /\ spot' = Moved(S, <<"held", w>>)
       ELSE /\ sig.stop
            /\ Go(w, IF mode \in {"generate", "loopback_hw"} THEN "close" ELSE "tx_put")
            /\ UNCHANGED spot
    /\ UNCHANGED <<tool_world, sig, mn>>

(* transmit fills the packets from the source, where a read may fail.      *)
transmit_put(w) ==
    LET n == Cardinality(wk[w].tx) IN
    /\ AtPc(w, "tx_put")
    /\ \E filled \in IF tool_world.cached THEN {n} ELSE {n, 0} :
         update_stats(w, [wk[w] EXCEPT !.tx = {}, !.off = @ + n, !.pc = "head"], filled)
    /\ spot' = Moved(wk[w].tx, <<"tx", w>>)
    /\ UNCHANGED <<tool_world, mn>>
generate_put(w) ==
    LET n == Cardinality(wk[w].tx) IN
    /\ AtPc(w, "tx_put")
    /\ update_stats(w, [wk[w] EXCEPT !.tx = {}, !.rem = @ - n,
                                     !.pc = IF mode = "generate" THEN "head" ELSE "hw_get"], n)
    /\ spot' = Moved(wk[w].tx, <<"tx", w>>)
    /\ UNCHANGED <<tool_world, mn>>
loopback_put(w) ==
    /\ AtPc(w, "tx_put")
    /\ spot' = [b \in Packet |-> IF b \in wk[w].pk THEN <<"rxq", w>>
                            ELSE IF b \in wk[w].tx THEN <<"tx", w>> ELSE spot[b]]
    /\ wk' = [wk EXCEPT ![w].pk = {}, ![w].tx = {}, ![w].pc = "head"]
    /\ UNCHANGED <<tool_world, sig, mn>>

(* loopback_hw goes on receiving when its limit is reached.                *)
loopback_hw_head(w) ==
    LET fin == wk[w].fin \/ LimitReached(wk[w]) IN
    /\ AtPc(w, "head")
    /\ IF sig.stop THEN Go(w, "close")
       ELSE wk' = [wk EXCEPT ![w].fin = fin, ![w].burst = Burst(wk[w]),
                             ![w].pc = IF fin THEN "hw_get" ELSE "tx_get"]
    /\ UNCHANGED <<tool_world, spot, sig, mn>>
loopback_hw_get(w) ==
    LET zero == Least(wk[w].zero + 1, ZeroRounds) IN
    /\ AtPc(w, "hw_get")
    /\ \/ \* a burst that check_burst accepts, put at once
          /\ wk' = [wk EXCEPT ![w].zero = 0, ![w].pc = "head"]
          /\ UNCHANGED <<spot, sig>>
       \/ \* one that it does not: everybody stops
          LET S == Take(1, In(<<"rxq", w>>)) IN
             /\ In(<<"rxq", w>>) # {}
             /\ wk' = [wk EXCEPT ![w].pk = S, ![w].pc = "close"]
             /\ spot' = Moved(S, <<"held", w>>)
             /\ sig' = [sig EXCEPT !.stop = TRUE]
       \/ \* nothing received
          /\ wk' = [wk EXCEPT ![w].zero = zero,
                              ![w].pc = IF wk[w].fin /\ zero = ZeroRounds THEN "close" ELSE "head"]
          /\ UNCHANGED <<spot, sig>>
    /\ UNCHANGED <<tool_world, mn>>

(* xdp_generate: collect completed frames until there are none and the     *)
(* stack holds a burst, then reserve as many descriptors and submit them.  *)
xdp_collect(w) ==
    LET comp == In(<<"comp", w>>) IN
    /\ AtPc(w, "collect")
    /\ \E S \in {Take(Least(wk[w].burst, Cardinality(comp)), comp)} :
         /\ spot' = Moved(S, PoolOf(w))
         /\ IF S # {} \/ Cardinality(In(PoolOf(w))) < wk[w].burst THEN UNCHANGED wk
            ELSE Go(w, "reserve")
    /\ UNCHANGED <<tool_world, sig, mn>>
xdp_reserve(w) ==
    LET tx_size == Cardinality({b \in Packet : tool_world.home[b] = PoolOf(w)}) IN    \* NUM_FRAMES
    /\ AtPc(w, "reserve")
    /\ IF Cardinality(In(<<"tx", w>>)) + wk[w].burst <= tx_size
       THEN \E S \in {Take(wk[w].burst, In(PoolOf(w)))} :
              /\ wk' = [wk EXCEPT ![w].tx = S, ![w].pc = "submit"]
              /\ spot' = Moved(S, <<"held", w>>)
       ELSE /\ sig.stop
            /\ wk' = [wk EXCEPT ![w].pc = "finished", ![w].ts = "finished"]
            /\ UNCHANGED spot
    /\ UNCHANGED <<tool_world, sig, mn>>
xdp_submit(w) ==
    LET n == Cardinality(wk[w].tx) IN
    /\ AtPc(w, "submit")
    /\ update_stats(w, [wk[w] EXCEPT !.tx = {}, !.rem = @ - n, !.pc = "head"], n)
    /\ spot' = Moved(wk[w].tx, <<"tx", w>>)
    /\ UNCHANGED <<tool_world, mn>>

(* rte_pktmbuf_alloc_bulk gives all or none; after too many failures the   *)
(* thread is killed.  rte_pktmbuf_append fails when a packet is too long.  *)
dpdk_alloc(w) ==
    LET n == IF mode = "dpdk_transmit" THEN wk[w].n ELSE wk[w].burst
        pool == In(PoolOf(w))
    IN  /\ AtPc(w, "alloc")
        /\ IF Cardinality(pool) >= n
           THEN \E S \in {Take(n, pool)} :
                  /\ spot' = Moved(S, <<"held", w>>)
                  /\ wk' = [wk EXCEPT ![w] = IF mode = "dpdk_transmit" /\ tool_world.long
                                              THEN Killed(@)
                                              ELSE [@ EXCEPT !.tx = S, !.tries = 0, !.pc = "send"]]
           ELSE /\ wk' = [wk EXCEPT ![w] = IF @.tries > AllocTries THEN Killed(@)
                                           ELSE [@ EXCEPT !.tries = @ + 1]]
                /\ UNCHANGED spot
        /\ UNCHANGED <<tool_world, sig, mn>>

dpdk_send_all(w) ==
    LET r == wk[w] IN
    /\ AtPc(w, "send")
    /\ \E S \in {Take(n, r.tx) : n \in 0..Cardinality(r.tx)} :
         /\ update_stats(w, [r EXCEPT !.tx = {}, !.rem = @ - Cardinality(S), !.pc = "head",
                                      !.off = @ + r.n], Cardinality(S))
         /\ spot' = Moved(S, <<"tx", w>>)
    /\ UNCHANGED <<tool_world, mn>>

(* The packets the driver does not accept are freed.                       *)
dpdk_send(w) ==
    LET r == wk[w] IN
    /\ AtPc(w, "send")
    /\ \E S \in {Take(n, r.tx) : n \in 0..Cardinality(r.tx)} :
         /\ update_stats(w, [r EXCEPT !.tx = {}, !.rem = @ - Cardinality(S), !.pc = "head",
                                      !.off = @ + r.n], Cardinality(S))
         /\ spot' = [b \in Packet |-> IF b \in S THEN <<"tx", w>>
                                 ELSE IF b \in r.tx THEN PoolOf(w) ELSE spot[b]]
    /\ UNCHANGED <<tool_world, mn>>

(* The card has sent a packet.                                             *)
card_sent(w) ==
    LET tx == In(<<"tx", w>>) IN
    /\ tx # {}
    /\ spot' = Moved(Take(1, tx), IF Xdp THEN <<"comp", w>> ELSE IF Dpdk THEN PoolOf(w) ELSE <<"txq", w>>)
    /\ UNCHANGED <<tool_world, wk, sig, mn>>

-----------------------------------------------------------------------------
(* The main thread and the signals                                         *)

sig_int ==
    /\ ~sig.stop /\ mn.pc # "end"
    /\ sig' = [sig EXCEPT !.stop = TRUE]
    /\ UNCHANGED <<tool_world, wk, spot, mn>>
sig_usr1 ==
    /\ tool_world.usr1 /\ ~sig.usr /\ mn.pc # "end"
    /\ sig' = [sig EXCEPT !.stats = TRUE, !.usr = TRUE]
    /\ UNCHANGED <<tool_world, wk, spot, mn>>

(* With an interval: the running threads' counters are taken over, under   *)
(* the lock of the thread.                                                 *)
stats_tick(w) ==
    /\ mn.pc = "loop" /\ ~sig.stop /\ tool_world.interval
    /\ wk[w].ts = "running" /\ ~tool_world.incremental
    /\ mn' = [mn EXCEPT !.total = @ + wk[w].thr]
    /\ wk' = [wk EXCEPT ![w].thr = 0]
    /\ UNCHANGED <<tool_world, spot, sig>>

(* Without: on SIGUSR1, and the threads' own counters are cleared.         *)
stats_signal ==
    LET running == {w \in Worker : wk[w].ts = "running"}
        sum == mn.total + MapThenSumSet(LAMBDA w : wk[w].thr, running)
        inc == tool_world.incremental
    IN  /\ mn.pc = "loop" /\ ~sig.stop /\ ~tool_world.interval /\ sig.stats
        /\ wk' = IF inc THEN wk
                 ELSE [w \in Worker |-> IF w \in running THEN [wk[w] EXCEPT !.thr = 0, !.cnt = 0]
                                        ELSE wk[w]]
        /\ mn' = [mn EXCEPT !.total = IF inc THEN sum ELSE 0]
        /\ sig' = [sig EXCEPT !.stats = FALSE, !.printed = IF inc THEN @ ELSE @ + sum]
        /\ UNCHANGED <<tool_world, spot>>

stats_finished ==
    /\ mn.pc = "loop" /\ ~sig.stop
    /\ \A w \in Worker : wk[w].ts = "finished"
    /\ sig' = [sig EXCEPT !.stop = TRUE]
    /\ UNCHANGED <<tool_world, wk, spot, mn>>
stats_stop ==
    /\ mn.pc = "loop" /\ sig.stop
    /\ mn' = [mn EXCEPT !.pc = "join"]
    /\ UNCHANGED <<tool_world, wk, spot, sig>>

(* A finished thread is joined and what it has not reported yet gathered.  *)
main_join(w) ==
    /\ mn.pc = "join" /\ w \notin mn.joined
    /\ wk[w].ts = "finished"
    /\ mn' = [mn EXCEPT !.total = @ + wk[w].thr, !.joined = @ \cup {w},
                        !.pc = IF mn.joined \cup {w} = Worker THEN "end" ELSE @]
    /\ wk' = [wk EXCEPT ![w].thr = IF tool_world.incremental THEN @ ELSE 0]
    /\ UNCHANGED <<tool_world, spot, sig>>

(* A single queue runs in the main thread.                                 *)
main_single ==
    /\ mn.pc = "run"
    /\ \A w \in Worker : wk[w].pc = "finished" \/ wk[w].pc = "absent"
    /\ mn' = [mn EXCEPT !.pc = "end",
                        !.total = MapThenSumSet(LAMBDA w : wk[w].cnt, Worker)]
    /\ UNCHANGED <<tool_world, wk, spot, sig>>

-----------------------------------------------------------------------------
ToolInit ==
    /\ tool_world \in ToolWorlds
    /\ wk = [w \in Worker |->
               [pc |-> IF w \in tool_world.served THEN "start" ELSE "absent",
                ts |-> IF w \in tool_world.served THEN "none" ELSE "finished",
                open |-> {}, pk |-> {}, tx |-> {}, n |-> 0, burst |-> tool_world.burst,
                cnt |-> 0, last |-> 0, upd |-> 0, thr |-> 0, done |-> 0, rem |-> tool_world.limit,
                off |-> 0, loop |-> 1, tries |-> 0, fin |-> FALSE, zero |-> 0, fail |-> FALSE,
                killed |-> FALSE]]
    /\ spot = tool_world.home
    /\ sig = [stop |-> FALSE, stats |-> FALSE, usr |-> FALSE, printed |-> 0]
    /\ mn = [pc |-> IF tool_world.threads = "single" THEN "run" ELSE "loop", total |-> 0, joined |-> {}]

(* The functions of each mode, from its prepare to its exit.               *)
read(w) ==
    common_prepare(w) \/ loop_head(w) \/ rx_burst_get(w) \/ rx_burst_put(w) \/ loop_close(w)
receive(w) ==
    common_prepare(w) \/ loop_head(w) \/ rx_burst_get(w) \/ pcap_write(w) \/ rx_burst_put(w) \/ loop_close(w)
transmit(w) ==
    common_prepare(w) \/ loop_head(w) \/ pcap_src(w) \/ tx_burst_get(w) \/ transmit_put(w) \/ loop_close(w)
generate(w) ==
    common_prepare(w) \/ loop_head(w) \/ tx_burst_get(w) \/ generate_put(w) \/ loop_close(w)
loopback(w) ==
    \/ common_prepare(w) \/ loop_head(w) \/ rx_burst_get(w)
    \/ tx_burst_get(w) \/ loopback_put(w) \/ loop_close(w)
loopback_hw(w) ==
    \/ common_prepare(w) \/ loopback_hw_head(w) \/ tx_burst_get(w)
    \/ generate_put(w) \/ loopback_hw_get(w) \/ loop_close(w)
xdp_mode_read(w) ==
    xdp_prepare(w) \/ xdp_read_head(w) \/ xdp_peek(w) \/ xdp_release(w) \/ loop_close(w)
xdp_mode_generate(w) ==
    \/ xdp_prepare(w) \/ loop_head(w) \/ xdp_collect(w)
    \/ xdp_reserve(w) \/ xdp_submit(w) \/ loop_close(w)
dpdk_read(w) ==
    dpdk_launch(w) \/ loop_head(w) \/ rx_burst_get(w) \/ dpdk_free(w) \/ loop_close(w)
dpdk_receive(w) ==
    dpdk_launch(w) \/ loop_head(w) \/ rx_burst_get(w) \/ dpdk_free(w) \/ pcap_write(w) \/ loop_close(w)
dpdk_loopback(w) ==
    dpdk_launch(w) \/ loop_head(w) \/ rx_burst_get(w) \/ dpdk_loopback_send(w) \/ loop_close(w)
dpdk_generate(w) ==
    dpdk_launch(w) \/ loop_head(w) \/ dpdk_alloc(w) \/ dpdk_send(w) \/ loop_close(w)
dpdk_transmit(w) ==
    dpdk_launch(w) \/ loop_head(w) \/ dpdk_pcap_src(w) \/ dpdk_alloc(w) \/ dpdk_send(w) \/ loop_close(w)

WorkerStep(w) ==
    \/ mode = "read" /\ read(w)
    \/ mode = "receive" /\ receive(w)
    \/ mode = "transmit" /\ transmit(w)
    \/ mode = "generate" /\ generate(w)
    \/ mode = "loopback" /\ loopback(w)
    \/ mode = "loopback_hw" /\ loopback_hw(w)
    \/ mode = "xdp_read" /\ xdp_mode_read(w)
    \/ mode = "xdp_generate" /\ xdp_mode_generate(w)
    \/ mode = "dpdk_read" /\ dpdk_read(w)
    \/ mode = "dpdk_receive" /\ dpdk_receive(w)
    \/ mode = "dpdk_loopback" /\ dpdk_loopback(w)
    \/ mode = "dpdk_generate" /\ dpdk_generate(w)
    \/ mode = "dpdk_transmit" /\ dpdk_transmit(w)

ToolNext ==
    \/ \E w \in Worker : WorkerStep(w) \/ card_sent(w) \/ stats_tick(w) \/ main_join(w)
    \/ dpdk_wait \/ sig_int \/ sig_usr1 \/ stats_signal \/ stats_finished \/ stats_stop \/ main_single

-----------------------------------------------------------------------------
(* What a worker may touch: its own buffers, and those that lie in a pool  *)
(* nobody else takes from.                                                 *)
Private(w) == {v \in Worker : tool_world.pool[v] = tool_world.pool[w]} = {w}
Safe(w) == {<<"held", w>>} \cup (IF Private(w) THEN {PoolOf(w)} ELSE {})

(* No worker reads, fills, stores or sends a packet buffer that the card   *)
(* or another worker has meanwhile been given; and a worker whose loop     *)
(* has returned without an error holds no buffer, no queue and no socket.  *)
ToolHands ==
    \A w \in Worker :
       /\ wk[w].pc \in {"put", "store", "send", "tx_get", "tx_put", "submit"} =>
            \A b \in wk[w].pk \cup wk[w].tx : spot[b] \in Safe(w)
       /\ wk[w].pc = "finished" /\ ~wk[w].killed =>
            In(<<"held", w>>) = {} /\ wk[w].open = {}

(* With "-p" no worker handles more packets than the limit, and the total  *)
(* that the tool prints at its end, together with what it printed on       *)
(* signals, is exactly what the workers handled: however their flushes,    *)
(* the collection at every interval and their ends interleave.  Not        *)
(* claimed: the limit of dpdk_transmit, the counters of a thread that was  *)
(* killed, and either of them once SIGUSR1 has cleared the counters the    *)
(* limit and the flush compare with (the total of a single queue is right  *)
(* even then).                                                             *)
ToolCounts ==
    /\ tool_world.limit > 0 /\ ~sig.usr /\ mode # "dpdk_transmit" =>
         \A w \in Worker : wk[w].done <= tool_world.limit
    /\ mn.pc = "end" /\ (Single \/ ~sig.usr) /\ (\A w \in Worker : ~wk[w].killed) =>
         sig.printed + mn.total = MapThenSumSet(LAMBDA w : wk[w].done, Worker)
=============================================================================
