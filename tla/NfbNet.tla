------------------------------- MODULE NfbNet -------------------------------
(***************************************************************************)
(* One network interface of the nfb driver (net/device.c, with the         *)
(* settings of net/sysfs.c and net/ethtool.c): the queues and receiving    *)
(* threads that ndo_open creates and ndo_stop takes down, beside the       *)
(* transmit path, the service timer and its work, writers of sysfs, and    *)
(* the creation and removal of the interface.                              *)
(*                                                                         *)
(* The kernel serialises open, stop and ethtool (rtnl), sets               *)
(* netif_running before ndo_open and clears it before ndo_stop, and lets   *)
(* nfb_start_xmit run only between an open that returned 0 and the stop.   *)
(***************************************************************************)
EXTENDS Naturals, FiniteSets

CONSTANTS
    RxQueues, TxQueues,   \* module->rxqc, txqc
    NetHandles,           \* the kernel queues that can be open at once
    NetWorlds,            \* sets of: store (sysfs), service (timer), faults, discard (sysfs), config
    MaxFlaws              \* bound on the known races in one behaviour

ASSUME NetConstants ==
    /\ RxQueues \in Nat \ {0} /\ TxQueues \in Nat \ {0} /\ NetHandles \in Nat
    /\ NetWorlds \subseteq SUBSET {"store", "service", "faults", "discard", "config"} /\ MaxFlaws \in Nat

VARIABLES
    net_world, \* never changes
    net,      \* the nfb_net_device and its net_device
    nq,       \* rxqs, txqs: the ndpq of a queue (0 NULL); task: its thread
    opened,   \* the ndp_queues that are open
    thr,      \* thread of a queue -> "none", "idle", "holds" a packet
    rtnl,     \* the operation that holds the rtnl lock
    xm,       \* the queue nfb_start_xmit is sending on, 0 none
    net_work, \* service_task: "idle", "queued", "running"
    pend,     \* a sysfs store between its netif_running test and its write
    conf,     \* the MAC address and MTU of the net_device and of the hardware;
              \* discard: NFBNET_DISCARD, and disc, the queues that have the flag
    flaw      \* history: which of the known races has happened

netVars == <<net_world, net, nq, opened, thr, rtnl, xm, net_work, pend, conf, flaw>>

Handle == 1..NetHandles
NetIdle == [op |-> "none", at |-> "none", i |-> 0, rx |-> 0, tx |-> 0, ret |-> 0]
NoStore == [attr |-> "none", val |-> 0]

NetInit ==
    /\ net_world \in NetWorlds
    /\ net = [life |-> "none", run |-> FALSE, active |-> FALSE, carrier |-> FALSE,
              nocarrier |-> FALSE, keep |-> FALSE, rxc |-> 0, txc |-> 0,
              sched |-> FALSE, timer |-> FALSE, mac |-> FALSE, trx |-> FALSE]
    /\ nq = [rx |-> [i \in 1..RxQueues |-> 0], tx |-> [i \in 1..TxQueues |-> 0],
             task |-> [i \in 1..RxQueues |-> 0]]
    /\ opened = {}
    /\ thr = [h \in Handle |-> "none"]
    /\ rtnl = NetIdle /\ xm = 0 /\ net_work = "idle" /\ pend = NoStore /\ flaw = {}
    /\ conf = [addr |-> 0, hw_addr |-> 0, mtu |-> 0, hw_mtu |-> 0, discard |-> 0, disc |-> {}]

Exists == net.life \notin {"none", "gone"}
Free == rtnl.op = "none"
Fault == "faults" \in net_world
At(at) == rtnl.at = at

-----------------------------------------------------------------------------
(* Creation and removal.  A failure before register_netdev is unwound.     *)

nfb_net_device_create ==
    /\ net.life = "none" /\ Free
    /\ \E rxc \in 0..RxQueues, txc \in 0..TxQueues :
         net' = [net EXCEPT !.life = "registered", !.rxc = rxc, !.txc = txc]
    /\ UNCHANGED <<net_world, nq, opened, thr, rtnl, xm, net_work, pend, conf, flaw>>

\* What follows register_netdev; the interface may already have been opened.
nfb_net_device_created ==
    /\ net.life = "registered"
    /\ net' = [net EXCEPT !.life = "live", !.carrier = FALSE, !.trx = FALSE,
                          !.sched = FALSE, !.timer = FALSE]
    /\ UNCHANGED <<net_world, nq, opened, thr, rtnl, xm, net_work, pend, conf, flaw>>

\* cancel_work_sync, then unregister_netdev, which stops an open interface.
nfb_net_device_destroy ==
    /\ net.life = "live" /\ net_work # "running"
    /\ net_work' = "idle"
    /\ net' = [net EXCEPT !.life = "leaving"]
    /\ UNCHANGED <<net_world, nq, opened, thr, rtnl, xm, pend, conf, flaw>>

\* The interface is gone; a work queued after the cancel is not.
unregister_netdev ==
    /\ net.life = "leaving" /\ ~net.run /\ Free /\ pend = NoStore
    /\ net' = [net EXCEPT !.life = "gone", !.rxc = 0, !.txc = 0]
    /\ flaw' = IF net_work # "idle" THEN flaw \cup {"late_work"} ELSE flaw
    /\ UNCHANGED <<net_world, nq, opened, thr, rtnl, xm, net_work, pend, conf>>

-----------------------------------------------------------------------------
(* Open.                                                                   *)

nfb_net_open ==
    /\ net.life \in {"registered", "live"} /\ Free /\ ~net.run
    /\ ~net.keep                              \* NFBNET_KEEPIFDOWN: -EPERM
    /\ net' = [net EXCEPT !.run = TRUE]
    /\ rtnl' = [NetIdle EXCEPT !.op = "open", !.at = "channels", !.i = 1]
    /\ flaw' = IF net.life = "registered" THEN flaw \cup {"early"} ELSE flaw
    /\ UNCHANGED <<net_world, nq, opened, thr, xm, net_work, pend, conf>>

\* The channels: first those for receiving, then those for transmitting.
Rx(i) == i =< RxQueues
WantedQueue(i) == IF Rx(i) THEN i =< net.rxc ELSE i - RxQueues =< net.txc
Unwind(ret) == rtnl' = [rtnl EXCEPT !.at = "stop_thread", !.i = 1, !.ret = ret]

SkipChannel ==
    /\ At("channels") /\ rtnl.i =< RxQueues + TxQueues /\ ~WantedQueue(rtnl.i)
    /\ rtnl' = [rtnl EXCEPT !.i = @ + 1]
    /\ UNCHANGED <<net_world, net, nq, opened, thr, xm, net_work, pend, conf, flaw>>

\* ndp_open_queue and ndp_queue_start; ret stays 0 when the open fails.
open_channel ==
    /\ At("channels") /\ rtnl.i =< RxQueues + TxQueues /\ WantedQueue(rtnl.i)
    /\ LET rx == Rx(rtnl.i)
           Set(h) == nq' = IF rx THEN [nq EXCEPT !.rx[rtnl.rx + 1] = h]
                                 ELSE [nq EXCEPT !.tx[rtnl.tx + 1] = h]
       IN  \/ /\ opened # Handle
              /\ LET h == CHOOSE n \in Handle \ opened : TRUE IN
                   /\ Set(h)
                   /\ opened' = opened \cup {h}
                   /\ \/ /\ rtnl' = [rtnl EXCEPT !.i = @ + 1, !.rx = IF rx THEN @ + 1 ELSE @,
                                                 !.tx = IF rx THEN @ ELSE @ + 1]
                         /\ conf' = [conf EXCEPT !.disc = IF rx /\ conf.discard = 1
                                                          THEN @ \cup {h} ELSE @ \ {h}]
                      \/ Fault /\ Unwind(1) /\ UNCHANGED conf     \* the start fails
              /\ UNCHANGED flaw
           \/ /\ Fault \/ opened = Handle
              /\ Set(0) /\ Unwind(0)
              /\ flaw' = flaw \cup {"unreported"}
              /\ UNCHANGED <<opened, conf>>
    /\ UNCHANGED <<net_world, net, thr, xm, net_work, pend>>

count_queues ==
    /\ At("channels") /\ rtnl.i > RxQueues + TxQueues
    /\ IF net.rxc = rtnl.rx /\ net.txc = rtnl.tx
       THEN rtnl' = [rtnl EXCEPT !.at = "threads", !.i = 1]
       ELSE Unwind(1)
    /\ UNCHANGED <<net_world, net, nq, opened, thr, xm, net_work, pend, conf, flaw>>

create_thread ==
    /\ At("threads") /\ rtnl.i =< net.rxc
    /\ LET h == nq.rx[rtnl.i] IN
         \/ /\ h # 0
            /\ nq' = [nq EXCEPT !.task[rtnl.i] = h]
            /\ thr' = [thr EXCEPT ![h] = "idle"]
            /\ rtnl' = [rtnl EXCEPT !.i = @ + 1]
            /\ UNCHANGED flaw
         \* An ERR_PTR (or a thread without a queue, after a race) is stored,
         \* and kthread_stop is called on it.
         \/ (Fault \/ h = 0) /\ Unwind(1) /\ flaw' = flaw \cup {"err_task"} /\ UNCHANGED <<nq, thr>>
    /\ UNCHANGED <<net_world, net, opened, xm, net_work, pend, conf>>

nfb_net_mac_on(n) == [n EXCEPT !.mac = TRUE]           \* both MACs
nfb_net_mac_off(n) == [n EXCEPT !.mac = FALSE]
nfb_net_transceiver_on(n) == [n EXCEPT !.trx = TRUE]   \* of a module that is present
nfb_net_transceiver_off(n) == [n EXCEPT !.trx = FALSE]
Up(n) == [nfb_net_transceiver_on(nfb_net_mac_on(n)) EXCEPT !.timer = TRUE, !.active = TRUE]

\* The rest of nfb_net_open, and the caller's part.
nfb_net_opened ==
    /\ At("threads") /\ rtnl.i > net.rxc
    /\ net' = Up(net)
    /\ rtnl' = NetIdle
    /\ UNCHANGED <<net_world, nq, opened, thr, xm, net_work, pend, conf, flaw>>

-----------------------------------------------------------------------------
(* Close, and nfb_net_transmission_off, which also unwinds a failed open.  *)

\* dev_deactivate has waited for a transmission under way.
nfb_net_close ==
    /\ Exists /\ Free /\ net.run /\ xm = 0
    /\ net' = [nfb_net_transceiver_off(nfb_net_mac_off(net))
                 EXCEPT !.run = FALSE, !.active = FALSE, !.carrier = FALSE]
    /\ rtnl' = [NetIdle EXCEPT !.op = "close", !.at = "stop_thread", !.i = 1]
    /\ UNCHANGED <<net_world, nq, opened, thr, xm, net_work, pend, conf, flaw>>

\* Mutant: the queue is closed while its thread still runs.
stop_thread_close_first ==
    /\ At("stop_thread") /\ rtnl.i =< net.rxc
    /\ opened' = opened \ {nq.rx[rtnl.i]}
    /\ rtnl' = [rtnl EXCEPT !.at = "close_queue"]
    /\ UNCHANGED <<net_world, net, nq, thr, xm, net_work, pend, conf, flaw>>

\* kthread_stop returns when the thread has left its loop.
stop_thread ==
    /\ At("stop_thread") /\ rtnl.i =< net.rxc
    /\ LET h == nq.task[rtnl.i] IN
         IF h = 0 THEN UNCHANGED <<nq, thr>>
         ELSE /\ thr[h] = "idle"
              /\ thr' = [thr EXCEPT ![h] = "none"]
              /\ nq' = [nq EXCEPT !.task[rtnl.i] = 0]
    /\ rtnl' = [rtnl EXCEPT !.at = "close_queue"]
    /\ UNCHANGED <<net_world, net, opened, xm, net_work, pend, conf, flaw>>

close_queue ==
    /\ At("close_queue")
    /\ opened' = opened \ {nq.rx[rtnl.i]}
    /\ nq' = [nq EXCEPT !.rx[rtnl.i] = 0]
    /\ rtnl' = [rtnl EXCEPT !.at = "stop_thread", !.i = @ + 1]
    /\ UNCHANGED <<net_world, net, thr, xm, net_work, pend, conf, flaw>>

close_tx_queues ==
    /\ At("stop_thread") /\ rtnl.i > net.rxc
    /\ LET mine == 1..net.txc IN
         /\ opened' = opened \ {nq.tx[i] : i \in mine}
         /\ nq' = [nq EXCEPT !.tx = [i \in 1..TxQueues |-> IF i \in mine THEN 0 ELSE @[i]]]
    /\ rtnl' = [rtnl EXCEPT !.at = "end"]
    /\ UNCHANGED <<net_world, net, thr, xm, net_work, pend, conf, flaw>>

\* A stop ends with timer_delete_sync.  An open that failed clears
\* netif_running; one whose ret is 0 goes on as if nothing had happened.
end_off ==
    /\ At("end")
    /\ net' = IF rtnl.op = "close" THEN [net EXCEPT !.timer = FALSE]
              ELSE IF rtnl.ret # 0 THEN [net EXCEPT !.run = FALSE]
              ELSE Up(net)
    /\ rtnl' = NetIdle
    /\ UNCHANGED <<net_world, nq, opened, thr, xm, net_work, pend, conf, flaw>>

-----------------------------------------------------------------------------
(* The receiving thread and the transmit path.                             *)

nfb_net_rx_thread(h) ==
    /\ \/ thr[h] = "idle" /\ thr' = [thr EXCEPT ![h] = "holds"]    \* a packet
       \/ thr[h] = "holds" /\ thr' = [thr EXCEPT ![h] = "idle"]    \* ndp_rx_burst_put
    /\ UNCHANGED <<net_world, net, nq, opened, rtnl, xm, net_work, pend, conf, flaw>>

nfb_start_xmit(i) ==
    /\ net.active /\ xm = 0
    /\ i =< net.txc
    /\ xm' = nq.tx[i]
    /\ UNCHANGED <<net_world, net, nq, opened, thr, rtnl, net_work, pend, conf, flaw>>

xmit_done ==
    /\ xm # 0 /\ xm' = 0
    /\ UNCHANGED <<net_world, net, nq, opened, thr, rtnl, net_work, pend, conf, flaw>>

-----------------------------------------------------------------------------
(* The service timer and its work.                                         *)

nfb_net_service_timer ==
    /\ "service" \in net_world
    /\ net.timer
    /\ net.run /\ ~net.sched
    /\ net' = [net EXCEPT !.sched = TRUE]
    /\ net_work' = "queued"
    /\ UNCHANGED <<net_world, nq, opened, thr, rtnl, xm, pend, conf, flaw>>

\* The flag stays set when the interface is down.
nfb_net_service_task ==
    /\ net_work = "queued" /\ net.life # "gone"
    /\ net_work' = IF net.run THEN "running" ELSE "idle"
    /\ UNCHANGED <<net_world, net, nq, opened, thr, rtnl, xm, pend, conf, flaw>>

nfb_net_link_status ==
    /\ net_work = "running" /\ net.life # "gone"
    /\ \E link \in BOOLEAN :
         net' = [net EXCEPT !.carrier = link /\ ~net.nocarrier, !.sched = FALSE]
    /\ net_work' = "idle"
    /\ UNCHANGED <<net_world, nq, opened, thr, rtnl, xm, pend, conf, flaw>>

-----------------------------------------------------------------------------
(* Settings.                                                               *)

nfb_net_set_nocarrier ==
    /\ Exists /\ "service" \in net_world
    /\ net' = [net EXCEPT !.nocarrier = ~@]
    /\ UNCHANGED <<net_world, nq, opened, thr, rtnl, xm, net_work, pend, conf, flaw>>

nfb_net_set_keepifdown ==
    /\ Exists /\ "faults" \in net_world
    /\ net' = [net EXCEPT !.keep = ~@]
    /\ UNCHANGED <<net_world, nq, opened, thr, rtnl, xm, net_work, pend, conf, flaw>>

\* A store to sysfs holds no lock between the netif_running test and the
\* write.  (The store to tx_queues_count writes the offset.)
Store(attr, val) ==
    /\ net.life \in {"registered", "live"}
    /\ ~net.run /\ pend = NoStore
    /\ pend' = [attr |-> attr, val |-> val]
    /\ UNCHANGED <<net_world, net, nq, opened, thr, rtnl, xm, net_work, conf, flaw>>

nfb_net_set_rxqs_count == "store" \in net_world /\ \E val \in 0..RxQueues : Store("rxc", val)
nfb_net_set_discard == "discard" \in net_world /\ \E val \in 0..1 : Store("discard", val)

stored ==
    /\ pend # NoStore /\ pend' = NoStore
    /\ LET rxc == IF pend.attr = "rxc" THEN pend.val ELSE net.rxc
           discard == IF pend.attr = "discard" THEN pend.val ELSE conf.discard
           changed == rxc # net.rxc \/ discard # conf.discard
       IN  /\ net' = [net EXCEPT !.rxc = rxc]
           /\ conf' = [conf EXCEPT !.discard = discard]
           /\ flaw' = IF (net.run \/ ~Free) /\ changed THEN flaw \cup {"raced"} ELSE flaw
    /\ UNCHANGED <<net_world, nq, opened, thr, rtnl, xm, net_work>>

\* nc_rxmac_set_mac gives up when another process holds the MAC's lock, and
\* nfb_net_commit_mac_address ignores it.
nfb_net_set_mac_address ==
    /\ "config" \in net_world /\ Exists /\ Free
    /\ ~net.run                              \* eth_prepare_mac_addr_change
    /\ \/ conf' = [conf EXCEPT !.addr = 1 - @, !.hw_addr = 1 - conf.addr] /\ UNCHANGED flaw
       \/ conf' = [conf EXCEPT !.addr = 1 - @] /\ flaw' = flaw \cup {"mac_locked"}
    /\ UNCHANGED <<net_world, net, nq, opened, thr, rtnl, xm, net_work, pend>>

\* An MTU out of bounds changes nothing.
nfb_net_change_mtu ==
    /\ "config" \in net_world /\ Exists /\ Free
    /\ \E mtu \in 0..1 : conf' = [conf EXCEPT !.mtu = mtu, !.hw_mtu = mtu]
    /\ UNCHANGED <<net_world, net, nq, opened, thr, rtnl, xm, net_work, pend, flaw>>

nfb_net_set_channels(rxc, txc) ==
    /\ Fault /\ net.life \in {"registered", "live"} /\ Free
    /\ ~net.run
    /\ net' = [net EXCEPT !.rxc = rxc, !.txc = txc]
    /\ UNCHANGED <<net_world, nq, opened, thr, rtnl, xm, net_work, pend, conf, flaw>>

-----------------------------------------------------------------------------
NetNext ==
    /\ flaw \cap {"late_work", "err_task"} = {}      \* the kernel goes on
    /\ Cardinality(flaw) =< MaxFlaws
    /\ \/ nfb_net_device_create \/ nfb_net_device_created \/ nfb_net_device_destroy
       \/ unregister_netdev
       \/ nfb_net_open \/ SkipChannel \/ open_channel \/ count_queues \/ create_thread
       \/ nfb_net_opened
       \/ nfb_net_close \/ stop_thread \/ close_queue \/ close_tx_queues \/ end_off
       \/ \E h \in Handle : nfb_net_rx_thread(h)
       \/ \E i \in 1..TxQueues : nfb_start_xmit(i)
       \/ xmit_done
       \/ nfb_net_service_timer \/ nfb_net_service_task \/ nfb_net_link_status
       \/ nfb_net_set_nocarrier \/ nfb_net_set_keepifdown
       \/ nfb_net_set_rxqs_count \/ nfb_net_set_discard \/ stored
       \/ nfb_net_set_mac_address \/ nfb_net_change_mtu
       \/ \E rxc \in 0..RxQueues, txc \in 0..TxQueues : nfb_net_set_channels(rxc, txc)

NetSpec == NetInit /\ [][NetNext]_netVars

-----------------------------------------------------------------------------
\* A receiving thread and a transmission only ever use a queue that is open,
\* whatever the settings and failures: the thread is stopped before its
\* queue is closed, and rxqs_count changed under a running interface leaves
\* both.  A service work that updates the carrier finds its flag set (the
\* BUG_ON), unless the interface was opened before its creation ended.  And,
\* when none of the known races and failures has happened, an interface that
\* is up has all its queues open and set to discard as asked, its threads
\* running and its MAC and transceiver on, one that is down, or gone, has left
\* nothing behind, and the hardware has the address and MTU of the interface.
NetQueues ==
    /\ \A h \in Handle : thr[h] # "none" => h \in opened
    /\ xm # 0 => xm \in opened
    /\ net_work = "running" => net.sched \/ "early" \in flaw
    /\ flaw = {} /\ Free =>
         IF net.run
         THEN /\ \A i \in 1..net.rxc : nq.rx[i] \in opened /\ thr[nq.rx[i]] # "none"
              /\ \A i \in 1..net.txc : nq.tx[i] \in opened
              /\ Cardinality(opened) = net.rxc + net.txc
              /\ net.mac /\ net.trx /\ net.timer
              /\ opened \cap conf.disc = IF conf.discard = 1 THEN {nq.rx[i] : i \in 1..net.rxc} ELSE {}
         ELSE /\ opened = {} /\ \A h \in Handle : thr[h] = "none"
              /\ ~net.mac /\ ~net.trx /\ ~net.timer
    /\ flaw = {} => conf.hw_addr = conf.addr /\ conf.hw_mtu = conf.mtu
=============================================================================
