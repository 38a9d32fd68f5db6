---------------------------- MODULE NfbNetProofs ----------------------------
(***************************************************************************)
(* A network interface never uses a queue that is closed, whatever is      *)
(* set, raced for or fails, and one that met none of the known races has   *)
(* everything while it is up and nothing while it is down; for any number  *)
(* of queues.                                                              *)
(*                                                                         *)
(* NetQueues is not inductive.  Owned says who may use an open queue: it   *)
(* is what remains true when rxqs_count is changed under a running         *)
(* interface.  Whole says what an open or a stop has done so far at each   *)
(* place, if none of the races has happened.                               *)
(***************************************************************************)
EXTENDS NfbNet, FiniteSetTheorems, TLAPS

RxIx == 1..RxQueues
TxIx == 1..TxQueues
Queue == 0..NetHandles

NetRec == [life : {"none", "registered", "live", "leaving", "gone"}, run : BOOLEAN, active : BOOLEAN,
           carrier : BOOLEAN, nocarrier : BOOLEAN, keep : BOOLEAN, rxc : 0..RxQueues, txc : 0..TxQueues,
           sched : BOOLEAN, timer : BOOLEAN, mac : BOOLEAN, trx : BOOLEAN]
NqRec == [rx : [RxIx -> Queue], tx : [TxIx -> Queue], task : [RxIx -> Queue]]
RtnlRec == [op : {"none", "open", "close"},
            at : {"none", "channels", "threads", "stop_thread", "close_queue", "end"},
            i : Nat, rx : Nat, tx : Nat, ret : 0..1]
ConfRec == [addr : 0..1, hw_addr : 0..1, mtu : 0..1, hw_mtu : 0..1, discard : 0..1, disc : SUBSET Handle]
Stores == {NoStore} \cup [attr : {"rxc"}, val : 0..RxQueues] \cup [attr : {"discard"}, val : 0..1]

NetTypeOK ==
    /\ net \in NetRec
    /\ nq \in NqRec
    /\ opened \in SUBSET Handle
    /\ thr \in [Handle -> {"none", "idle", "holds"}]
    /\ rtnl \in RtnlRec
    /\ xm \in Queue
    /\ pend \in Stores
    /\ conf \in ConfRec

(* Where the operation under rtnl is, and that nothing is sent meanwhile.  *)
Rtnl ==
    /\ rtnl.op = "none" <=> rtnl.at = "none"
    /\ rtnl.at \in {"channels", "threads"} => rtnl.op = "open"
    /\ rtnl.op = "open" => net.run
    /\ rtnl.op = "close" => ~net.run
    /\ rtnl.op # "none" => rtnl.i >= 1 /\ ~net.active
    /\ At("channels") => /\ rtnl.i =< RxQueues + TxQueues + 1
                         /\ rtnl.rx < rtnl.i /\ rtnl.rx =< RxQueues
                         /\ rtnl.tx =< TxQueues
                         /\ rtnl.i =< RxQueues => rtnl.tx = 0
                         /\ rtnl.i > RxQueues => rtnl.tx < rtnl.i - RxQueues
    /\ At("close_queue") => rtnl.i =< RxQueues
    /\ net.active => net.run
    /\ xm # 0 => net.active

(* The queues an interface knows of are open, each known once; a thread    *)
(* runs on an open queue, and stopping the task of a queue stops it.       *)
Owned ==
    /\ \A h \in Handle : thr[h] # "none" => h \in opened
    /\ xm # 0 => xm \in opened
    /\ \A i \in RxIx : nq.rx[i] # 0 => nq.rx[i] \in opened
    /\ \A i \in TxIx : nq.tx[i] # 0 => nq.tx[i] \in opened /\ thr[nq.tx[i]] = "none"
    /\ \A i, j \in RxIx : nq.rx[i] = nq.rx[j] /\ nq.rx[i] # 0 => i = j
    /\ \A i, j \in TxIx : nq.tx[i] = nq.tx[j] /\ nq.tx[i] # 0 => i = j
    /\ \A i \in RxIx, j \in TxIx : nq.rx[i] = nq.tx[j] => nq.rx[i] = 0
    /\ \A i \in RxIx : nq.rx[i] # 0 /\ thr[nq.rx[i]] # "none" => nq.task[i] = nq.rx[i]
    /\ At("close_queue") => nq.task[rtnl.i] = 0

(* The flag of the service work, which the creation of an interface clears.*)
Service ==
    /\ net_work # "idle" => net.sched \/ "early" \in flaw
    /\ net.life \in {"none", "registered"} /\ "early" \notin flaw
         => ~net.run /\ Free /\ ~net.timer /\ net_work = "idle"

-----------------------------------------------------------------------------
(* What is there when none of the known races has happened                 *)

RxOpen(n) == \A k \in RxIx : nq.rx[k] # 0 <=> k =< n
TxOpen(n) == \A k \in TxIx : nq.tx[k] # 0 <=> k =< n
Discards(n) == \A h \in opened : h \in conf.disc <=> conf.discard = 1 /\ \E k \in RxIx : k =< n /\ nq.rx[k] = h
Complete ==
    /\ RxOpen(net.rxc) /\ TxOpen(net.txc) /\ Discards(net.rxc)
    /\ Cardinality(opened) = net.rxc + net.txc
Threads(n) == \A k \in RxIx : k =< n => nq.rx[k] # 0 /\ thr[nq.rx[k]] # "none"
RxClosed(n) == \A k \in RxIx : k < n => nq.rx[k] = 0

(* Every open queue is one the interface knows of and is to have.          *)
Known ==
    /\ \A h \in opened : (\E k \in RxIx : nq.rx[k] = h) \/ (\E k \in TxIx : nq.tx[k] = h)
    /\ \A k \in RxIx : nq.rx[k] # 0 => k =< net.rxc
    /\ \A k \in TxIx : nq.tx[k] # 0 => k =< net.txc

Opening ==
    /\ rtnl.i - 1 =< net.rxc => rtnl.rx = rtnl.i - 1
    /\ rtnl.i - 1 >= net.rxc => rtnl.rx = net.rxc
    /\ rtnl.i - 1 =< RxQueues => rtnl.tx = 0
    /\ rtnl.i - 1 >= RxQueues /\ rtnl.i - 1 - RxQueues =< net.txc => rtnl.tx = rtnl.i - 1 - RxQueues
    /\ rtnl.i - 1 - RxQueues >= net.txc => rtnl.tx = net.txc
    /\ RxOpen(rtnl.rx) /\ TxOpen(rtnl.tx) /\ Discards(rtnl.rx)
    /\ Cardinality(opened) = rtnl.rx + rtnl.tx

Whole ==
    /\ Known
    /\ Free /\ net.run => Complete /\ Threads(net.rxc) /\ net.mac /\ net.trx /\ net.timer
    /\ Free /\ ~net.run => RxOpen(0) /\ TxOpen(0) /\ ~net.timer
    /\ ~(Free /\ net.run) => ~net.mac /\ ~net.trx
    /\ rtnl.op = "open" => ~net.timer
    /\ At("channels") => Opening
    /\ At("threads") => Complete /\ Threads(rtnl.i - 1)
    /\ At("stop_thread") \/ At("close_queue") => RxClosed(rtnl.i)
    /\ rtnl.at \in {"stop_thread", "close_queue", "end"} /\ rtnl.op = "open" => rtnl.ret # 0
    /\ At("end") => RxOpen(0) /\ TxOpen(0)
    /\ conf.hw_addr = conf.addr /\ conf.hw_mtu = conf.mtu

NetInv == NetTypeOK /\ Rtnl /\ Owned /\ Service /\ (flaw = {} => Whole)
-----------------------------------------------------------------------------
(* Creation, removal and settings                                          *)

LEMMA NetInitInv == NetInit => NetInv
<1> SUFFICES ASSUME NetInit PROVE NetInv
  OBVIOUS
<1> USE NetConstants DEF NetInit, NetIdle, NoStore
<1>1. NetTypeOK
  BY DEF NetTypeOK, NetRec, NqRec, RtnlRec, ConfRec, Stores, RxIx, TxIx, Queue, Handle
<1>2. Rtnl
  BY DEF Rtnl, At
<1>3. Owned
  BY DEF Owned, At, RxIx, TxIx, Handle
<1>4. Service
  BY DEF Service, Free
<1>5. Whole
  BY DEF Whole, Known, RxOpen, TxOpen, Free, At, RxIx, TxIx
<1> QED
  BY <1>1, <1>2, <1>3, <1>4, <1>5 DEF NetInv

\* What depends on the queues alone stays as it is when they do.
LEMMA OwnedFrame ==
  ASSUME Owned, UNCHANGED <<nq, opened, thr, xm>>, rtnl'.at = "close_queue" => UNCHANGED rtnl
  PROVE  Owned'
BY DEF Owned, At

\* An interface that is down has no queue.
LEMMA DownEmpty ==
  ASSUME NetTypeOK, Whole, Free, ~net.run
  PROVE  /\ opened = {}
         /\ \A k \in RxIx : nq.rx[k] = 0
         /\ \A k \in TxIx : nq.tx[k] = 0
<1>1. RxOpen(0) /\ TxOpen(0)
  BY DEF Whole
<1>2. \A k \in RxIx : nq.rx[k] = 0
  BY <1>1 DEF RxOpen, RxIx
<1>3. \A k \in TxIx : nq.tx[k] = 0
  BY <1>1 DEF TxOpen, TxIx
<1>4. opened = {}
  <2> SUFFICES ASSUME NEW h \in opened PROVE FALSE
    OBVIOUS
  <2>1. h = 0
    BY <1>2, <1>3 DEF Whole, Known
  <2> QED
    BY <2>1, NetConstants DEF NetTypeOK, Handle
<1> QED
  BY <1>2, <1>3, <1>4

\* So its counts may be set and its switches cleared.
LEMMA DownFrame ==
  ASSUME NetTypeOK, Rtnl, Whole, Free, ~net.run, UNCHANGED <<nq, opened, rtnl>>,
         ~net'.run, ~net'.mac, ~net'.trx, ~net'.timer, conf'.hw_addr = conf'.addr, conf'.hw_mtu = conf'.mtu
  PROVE  Whole'
<1>1. RxOpen(0)' /\ TxOpen(0)'
  BY DEF Whole, RxOpen, TxOpen
<1>2. rtnl'.at = "none" /\ rtnl'.op = "none"
  BY DEF Rtnl, Free
<1>3. Known'
  BY DownEmpty DEF Known
<1> QED
  BY <1>1, <1>2, <1>3 DEF Whole, Free, At

\* A setting that no queue depends on.
LEMMA WholeFrame ==
  ASSUME Whole, UNCHANGED <<nq, opened, rtnl, thr, conf, net.run, net.rxc, net.txc, net.timer, net.mac, net.trx>>
  PROVE  Whole'
BY DEF Whole, Known, Free, At, RxOpen, TxOpen, Discards, Complete, Threads, RxClosed, Opening

LEMMA Creates ==
  ASSUME NetInv, nfb_net_device_create
  PROVE  NetInv'
<1> USE NetConstants DEF nfb_net_device_create, NetInv
<1>1. PICK rxc \in 0..RxQueues, txc \in 0..TxQueues :
         net' = [net EXCEPT !.life = "registered", !.rxc = rxc, !.txc = txc]
  BY Zenon
<1>2. NetTypeOK'
  BY Zenon, <1>1 DEF NetTypeOK, NetRec
<1>3. Rtnl'
  BY <1>1 DEF NetTypeOK, NetRec, Rtnl, At, Free
<1>4. Owned'
  BY OwnedFrame
<1>5. Service'
  BY <1>1 DEF NetTypeOK, NetRec, Service, Free
<1>6. flaw' = {} => Whole'
  <2> SUFFICES ASSUME flaw = {} PROVE Whole'
    OBVIOUS
  <2>1. Whole /\ Free /\ ~net.run
    BY DEF Service
  <2>2. ~net.mac /\ ~net.trx /\ ~net.timer
    BY <2>1 DEF Whole
  <2> QED
    BY <2>1, <2>2, <1>1, DownFrame DEF NetTypeOK, NetRec, Whole
<1> QED
  BY <1>2, <1>3, <1>4, <1>5, <1>6

LEMMA Created ==
  ASSUME NetInv, nfb_net_device_created
  PROVE  NetInv'
<1> USE NetConstants DEF nfb_net_device_created, NetInv
<1>2. NetTypeOK'
  BY Zenon DEF NetTypeOK, NetRec
<1>3. Rtnl'
  BY DEF NetTypeOK, NetRec, Rtnl, At, Free
<1>4. Owned'
  BY OwnedFrame
<1>5. Service'
  BY DEF NetTypeOK, NetRec, Service, Free
<1>6. flaw' = {} => Whole'
  <2> SUFFICES ASSUME flaw = {} PROVE Whole'
    OBVIOUS
  <2>1. Whole /\ Free /\ ~net.run
    BY DEF Service
  <2>2. ~net.mac /\ ~net.trx /\ ~net.timer
    BY <2>1 DEF Whole
  <2> QED
    BY <2>1, <2>2, DownFrame DEF NetTypeOK, NetRec, Whole
<1> QED
  BY <1>2, <1>3, <1>4, <1>5, <1>6

LEMMA Destroys ==
  ASSUME NetInv, nfb_net_device_destroy
  PROVE  NetInv'
<1> USE NetConstants DEF nfb_net_device_destroy, NetInv
<1>2. NetTypeOK'
  BY DEF NetTypeOK, NetRec
<1>3. Rtnl'
  BY DEF NetTypeOK, NetRec, Rtnl, At, Free
<1>4. Owned'
  BY OwnedFrame
<1>5. Service'
  BY DEF NetTypeOK, NetRec, Service, Free
<1>6. flaw' = {} => Whole'
  BY WholeFrame DEF NetTypeOK, NetRec
<1> QED
  BY <1>2, <1>3, <1>4, <1>5, <1>6

LEMMA Unregisters ==
  ASSUME NetInv, unregister_netdev
  PROVE  NetInv'
<1> USE NetConstants DEF unregister_netdev, NetInv
<1>2. NetTypeOK'
  <2>1. 0 \in 0..RxQueues /\ 0 \in 0..TxQueues
    OBVIOUS
  <2>2. net' \in NetRec
    BY Zenon, <2>1 DEF NetTypeOK, NetRec
  <2> QED
    BY <2>2 DEF NetTypeOK
<1>3. Rtnl'
  BY DEF NetTypeOK, NetRec, Rtnl, At, Free
<1>4. Owned'
  BY OwnedFrame
<1>5. Service'
  BY DEF NetTypeOK, NetRec, Service, Free
<1>6. flaw' = {} => Whole'
  <2> SUFFICES ASSUME flaw' = {} PROVE Whole'
    OBVIOUS
  <2>1. flaw = {} /\ Whole
    OBVIOUS
  <2>2. ~net.mac /\ ~net.trx /\ ~net.timer
    BY <2>1 DEF Whole
  <2> QED
    BY <2>1, <2>2, DownFrame DEF NetTypeOK, NetRec, Whole
<1> QED
  BY <1>2, <1>3, <1>4, <1>5, <1>6

LEMMA Sets ==
  ASSUME NetInv, nfb_net_set_nocarrier \/ nfb_net_set_keepifdown
  PROVE  NetInv'
<1> USE NetConstants DEF nfb_net_set_nocarrier, nfb_net_set_keepifdown, NetInv
<1>1. /\ net' \in NetRec
      /\ UNCHANGED <<net.run, net.rxc, net.txc, net.timer, net.mac, net.trx, net.active, net.life, net.sched>>
  <2>1. PICK b \in BOOLEAN : net' = [net EXCEPT !.nocarrier = b] \/ net' = [net EXCEPT !.keep = b]
    BY Zenon
  <2> QED
    BY <2>1 DEF NetTypeOK, NetRec
<1>2. UNCHANGED <<nq, opened, thr, rtnl, xm, net_work, pend, conf, flaw>>
  OBVIOUS
<1>3. NetTypeOK'
  BY <1>1, <1>2 DEF NetTypeOK
<1>4. Rtnl' /\ Service'
  BY <1>1, <1>2 DEF Rtnl, Service, At, Free
<1>5. Owned' /\ (flaw' = {} => Whole')
  BY <1>1, <1>2, OwnedFrame, WholeFrame
<1> QED
  BY <1>3, <1>4, <1>5

LEMMA StoreBegins ==
  ASSUME NetInv, nfb_net_set_rxqs_count \/ nfb_net_set_discard
  PROVE  NetInv'
<1> USE NetConstants DEF nfb_net_set_rxqs_count, nfb_net_set_discard, Store, NetInv
<1>1. UNCHANGED <<nq, opened, thr, rtnl, xm, net_work, net, conf, flaw>>
  OBVIOUS
<1>2. pend' \in Stores
  BY DEF Stores
<1>3. NetTypeOK'
  BY <1>1, <1>2 DEF NetTypeOK
<1>4. Rtnl' /\ Service'
  BY <1>1 DEF Rtnl, Service, At, Free
<1>5. Owned' /\ (flaw' = {} => Whole')
  BY <1>1, OwnedFrame, WholeFrame
<1> QED
  BY <1>3, <1>4, <1>5

LEMMA StoreEnds ==
  ASSUME NetInv, stored
  PROVE  NetInv'
<1> DEFINE rxc == IF pend.attr = "rxc" THEN pend.val ELSE net.rxc
           discard == IF pend.attr = "discard" THEN pend.val ELSE conf.discard
<1> USE NetConstants DEF NetInv
<1>1. /\ net' = [net EXCEPT !.rxc = rxc] /\ conf' = [conf EXCEPT !.discard = discard] /\ pend' = NoStore
      /\ UNCHANGED <<nq, opened, thr, rtnl, xm, net_work>>
      /\ flaw' = IF (net.run \/ ~Free) /\ (rxc # net.rxc \/ discard # conf.discard)
                 THEN flaw \cup {"raced"} ELSE flaw
  BY DEF stored
<1>2. rxc \in 0..RxQueues /\ discard \in 0..1
  BY DEF stored, NetTypeOK, Stores, NoStore, NetRec, ConfRec
<1> HIDE DEF rxc, discard
<1>3. /\ net' \in NetRec /\ conf' \in ConfRec /\ net'.rxc = rxc /\ conf'.discard = discard
      /\ UNCHANGED <<net.run, net.txc, net.timer, net.mac, net.trx, net.active, net.life, net.sched>>
      /\ UNCHANGED <<conf.addr, conf.hw_addr, conf.mtu, conf.hw_mtu, conf.disc>>
  BY <1>1, <1>2 DEF NetTypeOK, NetRec, ConfRec
<1>4. NetTypeOK'
  BY <1>1, <1>3 DEF NetTypeOK, Stores
<1>5. Rtnl' /\ Service'
  BY <1>1, <1>3 DEF Rtnl, Service, At, Free
<1>6. Owned'
  BY <1>1, OwnedFrame
<1>7. flaw' = {} => Whole'
  <2> SUFFICES ASSUME flaw' = {} PROVE Whole'
    OBVIOUS
  <2>1. flaw = {} /\ Whole
    BY <1>1
  <2>2. CASE ~net.run /\ Free
    BY <1>1, <1>3, <2>1, <2>2, DownFrame DEF Whole
  <2>3. CASE rxc = net.rxc /\ discard = conf.discard
    <3>1. net' = net /\ conf' = conf
      BY <1>1, <2>3 DEF NetTypeOK, NetRec, ConfRec
    <3> QED
      BY Zenon, <1>1, <2>1, <3>1, WholeFrame
  <2> QED
    BY <1>1, <2>2, <2>3
<1> QED
  BY <1>4, <1>5, <1>6, <1>7

LEMMA Configures ==
  ASSUME NetInv, nfb_net_set_mac_address \/ nfb_net_change_mtu
  PROVE  NetInv'
<1> USE NetConstants DEF nfb_net_set_mac_address, nfb_net_change_mtu, NetInv
<1>1. UNCHANGED <<nq, opened, thr, rtnl, xm, net_work, net, pend>> /\ flaw \subseteq flaw'
  OBVIOUS
<1>2. /\ conf' \in ConfRec /\ UNCHANGED <<conf.discard, conf.disc>>
      /\ flaw' = {} /\ conf.hw_addr = conf.addr /\ conf.hw_mtu = conf.mtu
           => conf'.hw_addr = conf'.addr /\ conf'.hw_mtu = conf'.mtu
  <2>1. 1 - conf.addr \in 0..1 /\ flaw \cup {"mac_locked"} # {}
    BY DEF NetTypeOK, ConfRec
  <2>2. CASE nfb_net_set_mac_address
    <3>1. CASE conf' = [conf EXCEPT !.addr = 1 - @, !.hw_addr = 1 - conf.addr]
      BY Zenon, <2>1, <3>1 DEF NetTypeOK, ConfRec
    <3>2. CASE conf' = [conf EXCEPT !.addr = 1 - @] /\ flaw' = flaw \cup {"mac_locked"}
      BY <2>1, <3>2 DEF NetTypeOK, ConfRec
    <3> QED
      BY <2>2, <3>1, <3>2
  <2>3. CASE nfb_net_change_mtu
    <3>1. PICK mtu \in 0..1 : conf' = [conf EXCEPT !.mtu = mtu, !.hw_mtu = mtu]
      BY Zenon, <2>3
    <3>2. conf \in ConfRec
      BY DEF NetTypeOK
    <3> QED
      BY Zenon, <3>1, <3>2 DEF ConfRec
  <2> QED
    BY <2>2, <2>3
<1>3. NetTypeOK'
  BY <1>1, <1>2 DEF NetTypeOK
<1>4. Rtnl' /\ Service'
  BY <1>1 DEF Rtnl, Service, At, Free
<1>5. Owned'
  BY <1>1, OwnedFrame
<1>6. flaw' = {} => Whole'
  BY <1>1, <1>2 DEF Whole, Known, Free, At, RxOpen, TxOpen, Discards, Complete, Threads, RxClosed, Opening
<1> QED
  BY <1>3, <1>4, <1>5, <1>6

LEMMA SetsChannels ==
  ASSUME NetInv, NEW rxc \in 0..RxQueues, NEW txc \in 0..TxQueues, nfb_net_set_channels(rxc, txc)
  PROVE  NetInv'
<1> USE NetConstants DEF nfb_net_set_channels, NetInv
<1>1. /\ net' \in NetRec
      /\ UNCHANGED <<net.run, net.timer, net.mac, net.trx, net.active, net.life, net.sched>>
  BY Zenon DEF NetTypeOK, NetRec
<1>2. UNCHANGED <<nq, opened, thr, rtnl, xm, net_work, pend, conf, flaw>>
  OBVIOUS
<1>3. NetTypeOK'
  BY <1>1, <1>2 DEF NetTypeOK
<1>4. Rtnl' /\ Service'
  BY <1>1, <1>2 DEF Rtnl, Service, At, Free
<1>5. Owned'
  BY <1>2, OwnedFrame
<1>6. flaw' = {} => Whole'
  BY <1>1, <1>2, DownFrame DEF Whole
<1> QED
  BY <1>3, <1>4, <1>5, <1>6

-----------------------------------------------------------------------------
(* The threads, the transmissions and the service                          *)

LEMMA Receives ==
  ASSUME NetInv, NEW h \in Handle, nfb_net_rx_thread(h)
  PROVE  NetInv'
<1> USE NetConstants DEF nfb_net_rx_thread, NetInv
<1>1. UNCHANGED <<net, nq, opened, rtnl, xm, net_work, pend, conf, flaw>>
  OBVIOUS
<1>2. thr' \in [Handle -> {"none", "idle", "holds"}] /\ \A k \in Handle : thr'[k] = "none" <=> thr[k] = "none"
  BY DEF NetTypeOK
<1>3. NetTypeOK'
  BY <1>1, <1>2 DEF NetTypeOK
<1>4. Rtnl' /\ Service'
  BY <1>1 DEF Rtnl, Service, At, Free
<1>5. \A k \in Queue : k # 0 => (thr'[k] = "none" <=> thr[k] = "none")
  BY <1>2 DEF Queue, Handle
<1>6. Owned'
  <2>1. nq \in NqRec /\ Owned
    BY DEF NetTypeOK
  <2> QED
    BY <1>1, <1>2, <1>5, <2>1 DEF Owned, NqRec, At
<1>7. flaw' = {} => Whole'
  <2>1. \A n : Threads(n) => Threads(n)'
    BY <1>1, <1>5 DEF Threads, NetTypeOK, NqRec
  <2> HIDE DEF Threads
  <2> QED
    BY <1>1, <2>1 DEF Whole, Known, Free, At, RxOpen, TxOpen, Discards, Complete, RxClosed, Opening
<1> QED
  BY <1>3, <1>4, <1>6, <1>7

LEMMA Transmits ==
  ASSUME NetInv, xmit_done \/ \E i \in 1..TxQueues : nfb_start_xmit(i)
  PROVE  NetInv'
<1> USE NetConstants DEF nfb_start_xmit, xmit_done, NetInv
<1>1. UNCHANGED <<net, nq, opened, thr, rtnl, net_work, pend, conf, flaw>>
  OBVIOUS
<1>2. xm' \in Queue /\ (xm' # 0 => net.active /\ xm' \in opened)
  BY DEF NetTypeOK, NqRec, TxIx, Queue, Owned
<1>3. NetTypeOK'
  BY <1>1, <1>2 DEF NetTypeOK
<1>4. Rtnl' /\ Service'
  BY <1>1, <1>2 DEF Rtnl, Service, At, Free
<1>5. Owned'
  BY <1>1, <1>2 DEF Owned, At
<1>6. flaw' = {} => Whole'
  BY <1>1, WholeFrame
<1> QED
  BY <1>3, <1>4, <1>5, <1>6

LEMMA Serves ==
  ASSUME NetInv, nfb_net_service_timer \/ nfb_net_service_task \/ nfb_net_link_status
  PROVE  NetInv'
<1>1. UNCHANGED <<nq, opened, thr, rtnl, xm, pend, conf, flaw>>
  BY Zenon DEF nfb_net_service_timer, nfb_net_service_task, nfb_net_link_status
<1>2. net \in NetRec
  BY DEF NetInv, NetTypeOK
<1>3. /\ net' \in NetRec
      /\ UNCHANGED <<net.run, net.rxc, net.txc, net.timer, net.mac, net.trx, net.active, net.life>>
      /\ net_work' # "idle" => net'.sched \/ (net'.sched = net.sched /\ net_work # "idle")
      /\ net_work' # "idle" => net_work # "idle" \/ net.timer
  <2>1. CASE nfb_net_service_timer
    BY Zenon, <1>2, <2>1 DEF nfb_net_service_timer, NetRec
  <2>2. CASE nfb_net_service_task
    BY <1>2, <2>2 DEF nfb_net_service_task
  <2>3. CASE nfb_net_link_status
    <3>1. PICK c \in BOOLEAN : net' = [net EXCEPT !.carrier = c, !.sched = FALSE]
      BY Zenon, <2>3 DEF nfb_net_link_status
    <3>2. net_work' = "idle"
      BY Zenon, <2>3 DEF nfb_net_link_status
    <3> QED
      BY Zenon, <1>2, <3>1, <3>2 DEF NetRec
  <2> QED
    BY <2>1, <2>2, <2>3
<1>4. NetTypeOK'
  BY <1>1, <1>3 DEF NetInv, NetTypeOK
<1>5. Rtnl'
  BY <1>1, <1>3 DEF NetInv, Rtnl, At
<1>6. Service'
  BY <1>1, <1>3 DEF NetInv, Service, Free
<1>7. Owned' /\ (flaw' = {} => Whole')
  BY <1>1, <1>3, OwnedFrame, WholeFrame DEF NetInv
<1> QED
  BY <1>4, <1>5, <1>6, <1>7 DEF NetInv

-----------------------------------------------------------------------------
(* Open                                                                    *)

LEMMA Opens ==
  ASSUME NetInv, nfb_net_open
  PROVE  NetInv'
<1> USE NetConstants
<1>1. /\ NetTypeOK /\ Rtnl /\ Owned /\ Service /\ (flaw = {} => Whole)
      /\ net \in NetRec /\ rtnl \in RtnlRec
  BY DEF NetInv, NetTypeOK
<1>2. /\ net.life \in {"registered", "live"} /\ Free /\ ~net.run
      /\ UNCHANGED <<nq, opened, thr, xm, net_work, pend, conf>>
      /\ flaw' = IF net.life = "registered" THEN flaw \cup {"early"} ELSE flaw
  BY DEF nfb_net_open
<1>3. /\ net' \in NetRec /\ net'.run
      /\ UNCHANGED <<net.rxc, net.txc, net.timer, net.mac, net.trx, net.active, net.life, net.sched>>
  BY Zenon, <1>1 DEF nfb_net_open, NetRec
<1>4. /\ rtnl' \in RtnlRec
      /\ rtnl'.op = "open" /\ rtnl'.at = "channels" /\ rtnl'.i = 1 /\ rtnl'.rx = 0 /\ rtnl'.tx = 0
  <2>1. rtnl' = [op |-> "open", at |-> "channels", i |-> 1, rx |-> 0, tx |-> 0, ret |-> 0]
    BY Zenon DEF nfb_net_open, NetIdle
  <2> QED
    BY <2>1 DEF RtnlRec
<1>5. NetTypeOK'
  BY <1>1, <1>2, <1>3, <1>4 DEF NetTypeOK
<1>6. Rtnl'
  BY <1>1, <1>2, <1>3, <1>4 DEF Rtnl, At
<1>7. Owned'
  BY <1>1, <1>2, <1>4, OwnedFrame
<1>8. Service'
  BY <1>1, <1>2, <1>3 DEF Service
<1>9. flaw' = {} => Whole'
  <2> SUFFICES ASSUME flaw' = {} PROVE Whole'
    OBVIOUS
  <2>1. Whole
    BY <1>1, <1>2
  <2>2. RxOpen(0)' /\ TxOpen(0)' /\ ~net.timer /\ ~net.mac /\ ~net.trx
    BY <1>2, <2>1 DEF Whole, RxOpen, TxOpen
  <2>3. opened = {} /\ Cardinality(opened) = 0
    BY Zenon, <1>1, <1>2, <2>1, DownEmpty, FS_EmptySet
  <2>4. Known'
    BY <1>1, <1>2, <2>1, DownEmpty DEF Known
  <2>5. net'.rxc \in Nat /\ net'.txc \in Nat
    BY <1>3 DEF NetRec
  <2>6. Opening'
    BY <1>2, <1>4, <2>2, <2>3, <2>5 DEF Opening, RxOpen, TxOpen, Discards
  <2> QED
    BY <1>2, <1>3, <1>4, <2>1, <2>2, <2>4, <2>6 DEF Whole, At, Free
<1> QED
  BY <1>5, <1>6, <1>7, <1>8, <1>9 DEF NetInv

LEMMA Skips ==
  ASSUME NetInv, SkipChannel
  PROVE  NetInv'
<1> USE NetConstants
<1>1. /\ NetTypeOK /\ Rtnl /\ Owned /\ Service /\ (flaw = {} => Whole)
      /\ net \in NetRec /\ rtnl \in RtnlRec
  BY DEF NetInv, NetTypeOK
<1>2. /\ At("channels") /\ rtnl.i =< RxQueues + TxQueues /\ ~WantedQueue(rtnl.i)
      /\ UNCHANGED <<net, nq, opened, thr, xm, net_work, pend, conf, flaw>>
  BY DEF SkipChannel
<1>3. /\ rtnl' \in RtnlRec /\ rtnl'.i = rtnl.i + 1
      /\ UNCHANGED <<rtnl.op, rtnl.at, rtnl.rx, rtnl.tx, rtnl.ret>>
  BY <1>1 DEF SkipChannel, RtnlRec
<1>4. NetTypeOK'
  BY <1>1, <1>2, <1>3 DEF NetTypeOK
<1>5. Rtnl'
  BY <1>1, <1>2, <1>3 DEF Rtnl, At, RtnlRec
<1>6. Owned'
  BY <1>1, <1>2, <1>3, OwnedFrame DEF At
<1>7. Service'
  BY <1>1, <1>2, <1>3 DEF Service, Free
<1>8. flaw' = {} => Whole'
  <2> SUFFICES ASSUME flaw = {} PROVE Whole'
    BY <1>2
  <2>1. Whole /\ Opening
    BY <1>1, <1>2 DEF Whole
  <2>2. rtnl.i \in Nat /\ rtnl.rx \in Nat /\ rtnl.tx \in Nat /\ net.rxc \in 0..RxQueues /\ net.txc \in 0..TxQueues
    BY <1>1 DEF NetRec, RtnlRec
  <2>3. Opening'
    <3>1. RxOpen(rtnl.rx)' /\ TxOpen(rtnl.tx)' /\ Discards(rtnl.rx)' /\ Cardinality(opened') = rtnl'.rx + rtnl'.tx
      BY <1>2, <1>3, <2>1 DEF Opening, RxOpen, TxOpen, Discards
    <3>2. /\ rtnl'.i - 1 =< net.rxc => rtnl.rx = rtnl'.i - 1
          /\ rtnl'.i - 1 >= net.rxc => rtnl.rx = net.rxc
          /\ rtnl'.i - 1 =< RxQueues => rtnl.tx = 0
          /\ rtnl'.i - 1 >= RxQueues /\ rtnl'.i - 1 - RxQueues =< net.txc => rtnl.tx = rtnl'.i - 1 - RxQueues
          /\ rtnl'.i - 1 - RxQueues >= net.txc => rtnl.tx = net.txc
      <4>1. IF rtnl.i =< RxQueues THEN ~(rtnl.i =< net.rxc) ELSE ~(rtnl.i - RxQueues =< net.txc)
        BY <1>2 DEF WantedQueue, Rx
      <4>2. rtnl'.i - 1 = rtnl.i /\ rtnl.i >= 1
        BY <1>1, <1>2, <1>3, <2>2 DEF Rtnl, At
      <4>3. /\ rtnl.i - 1 =< net.rxc => rtnl.rx = rtnl.i - 1
            /\ rtnl.i - 1 >= net.rxc => rtnl.rx = net.rxc
            /\ rtnl.i - 1 =< RxQueues => rtnl.tx = 0
            /\ rtnl.i - 1 >= RxQueues /\ rtnl.i - 1 - RxQueues =< net.txc => rtnl.tx = rtnl.i - 1 - RxQueues
            /\ rtnl.i - 1 - RxQueues >= net.txc => rtnl.tx = net.txc
        BY <2>1 DEF Opening
      <4> QED
        BY <2>2, <4>1, <4>2, <4>3
    <3> QED
      BY <1>2, <1>3, <3>1, <3>2 DEF Opening
  <2>4. Known'
    BY <1>2, <2>1 DEF Whole, Known
  <2> QED
    BY <1>1, <1>2, <1>3, <2>1, <2>3, <2>4 DEF Whole, At, Free, Rtnl
<1> QED
  BY <1>4, <1>5, <1>6, <1>7, <1>8 DEF NetInv

\* An open that fails goes on at the code that takes everything down.
LEMMA Unwinds ==
  ASSUME rtnl \in RtnlRec, NEW ret \in 0..1, Unwind(ret)
  PROVE  /\ rtnl' \in RtnlRec
         /\ rtnl'.at = "stop_thread" /\ rtnl'.i = 1 /\ rtnl'.ret = ret /\ UNCHANGED rtnl.op
BY Zenon DEF Unwind, RtnlRec

LEMMA Counts ==
  ASSUME NetInv, count_queues
  PROVE  NetInv'
<1> USE NetConstants
<1>1. /\ NetTypeOK /\ Rtnl /\ Owned /\ Service /\ (flaw = {} => Whole)
      /\ net \in NetRec /\ rtnl \in RtnlRec
  BY DEF NetInv, NetTypeOK
<1>2. /\ At("channels") /\ rtnl.i > RxQueues + TxQueues
      /\ UNCHANGED <<net, nq, opened, thr, xm, net_work, pend, conf, flaw>>
  BY DEF count_queues
<1>3. /\ rtnl' \in RtnlRec /\ rtnl'.i = 1 /\ UNCHANGED rtnl.op
      /\ \/ rtnl'.at = "threads" /\ net.rxc = rtnl.rx /\ net.txc = rtnl.tx
         \/ rtnl'.at = "stop_thread" /\ rtnl'.ret = 1
  <2>1. CASE net.rxc = rtnl.rx /\ net.txc = rtnl.tx
    <3>1. rtnl' = [rtnl EXCEPT !.at = "threads", !.i = 1]
      BY <2>1 DEF count_queues
    <3> QED
      BY Zenon, <1>1, <2>1, <3>1 DEF RtnlRec
  <2>2. CASE ~(net.rxc = rtnl.rx /\ net.txc = rtnl.tx)
    <3>1. Unwind(1) /\ 1 \in 0..1
      BY <2>2 DEF count_queues
    <3> QED
      BY <1>1, <3>1, Unwinds
  <2> QED
    BY <2>1, <2>2
<1>4. NetTypeOK'
  BY <1>1, <1>2, <1>3 DEF NetTypeOK
<1>5. Rtnl'
  BY <1>1, <1>2, <1>3 DEF Rtnl, At
<1>6. Owned'
  BY <1>1, <1>2, <1>3, OwnedFrame
<1>7. Service'
  BY <1>1, <1>2, <1>3 DEF Service, Free
<1>8. flaw' = {} => Whole'
  <2> SUFFICES ASSUME flaw = {} PROVE Whole'
    BY <1>2
  <2>1. Whole /\ Opening
    BY <1>1, <1>2 DEF Whole
  <2>2. RxClosed(rtnl.i)' /\ Threads(rtnl.i - 1)'
    BY <1>3 DEF RxClosed, Threads, RxIx
  <2>3. rtnl'.at = "threads" => Complete'
    BY <1>2, <1>3, <2>1 DEF Opening, Complete, RxOpen, TxOpen, Discards
  <2>4. Known'
    BY <1>2, <2>1 DEF Whole, Known
  <2> QED
    BY <1>1, <1>2, <1>3, <2>1, <2>2, <2>3, <2>4 DEF Whole, At, Free, Rtnl
<1> QED
  BY <1>4, <1>5, <1>6, <1>7, <1>8 DEF NetInv

\* A new handle is used by nobody yet; overwriting an old one takes nothing from its users.
LEMMA OwnedSet ==
  ASSUME NetTypeOK, Owned, UNCHANGED <<thr, xm, nq.task>>, rtnl'.at # "close_queue",
         NEW h \in Queue, NEW a \in Nat, NEW b \in Nat, a = 0 \/ b = 0,
         h # 0 => h \notin opened /\ h \in opened', opened \subseteq opened', nq' \in NqRec,
         \A j \in RxIx : nq'.rx[j] = IF j = a THEN h ELSE nq.rx[j],
         \A j \in TxIx : nq'.tx[j] = IF j = b THEN h ELSE nq.tx[j]
  PROVE  Owned'
<1>1. h # 0 => thr[h] = "none" /\ h \in Handle
  BY NetConstants DEF Owned, Queue, Handle
<1>2. /\ \A g \in Handle : thr'[g] # "none" => g \in opened'
      /\ xm' # 0 => xm' \in opened'
  BY DEF Owned
<1>3. /\ \A i \in RxIx : nq'.rx[i] # 0 => nq'.rx[i] \in opened'
      /\ \A i \in TxIx : nq'.tx[i] # 0 => nq'.tx[i] \in opened' /\ thr'[nq'.tx[i]] = "none"
  BY <1>1 DEF Owned
<1>4. /\ \A i, j \in RxIx : nq'.rx[i] = nq'.rx[j] /\ nq'.rx[i] # 0 => i = j
      /\ \A i, j \in TxIx : nq'.tx[i] = nq'.tx[j] /\ nq'.tx[i] # 0 => i = j
  BY DEF Owned
<1>5. \A i \in RxIx, j \in TxIx : nq'.rx[i] = nq'.tx[j] => nq'.rx[i] = 0
  <2>1. 0 \notin RxIx /\ 0 \notin TxIx
    BY DEF RxIx, TxIx
  <2> QED
    BY <2>1 DEF Owned
<1>6. \A i \in RxIx : nq'.rx[i] # 0 /\ thr'[nq'.rx[i]] # "none" => nq'.task[i] = nq'.rx[i]
  BY <1>1 DEF Owned
<1> QED
  BY <1>2, <1>3, <1>4, <1>5, <1>6 DEF Owned, At

LEMMA OpensChannel ==
  ASSUME NetInv, open_channel
  PROVE  NetInv'
<1> USE NetConstants
<1> DEFINE rx == Rx(rtnl.i)
           k == IF rx THEN rtnl.rx + 1 ELSE rtnl.tx + 1
<1>1. /\ NetTypeOK /\ Rtnl /\ Owned /\ Service /\ (flaw = {} => Whole)
      /\ net \in NetRec /\ rtnl \in RtnlRec /\ nq \in NqRec /\ conf \in ConfRec /\ opened \in SUBSET Handle
  BY DEF NetInv, NetTypeOK
<1>2. /\ At("channels") /\ rtnl.i =< RxQueues + TxQueues /\ WantedQueue(rtnl.i)
      /\ UNCHANGED <<net, thr, xm, net_work, pend>>
  BY DEF open_channel
<1>3. PICK h \in Queue :
        /\ nq' = IF rx THEN [nq EXCEPT !.rx[rtnl.rx + 1] = h] ELSE [nq EXCEPT !.tx[rtnl.tx + 1] = h]
        /\ \/ /\ h \in Handle \ opened /\ opened' = opened \cup {h} /\ UNCHANGED flaw
              /\ \/ /\ rtnl' = [rtnl EXCEPT !.i = @ + 1, !.rx = IF rx THEN @ + 1 ELSE @,
                                            !.tx = IF rx THEN @ ELSE @ + 1]
                    /\ conf' = [conf EXCEPT !.disc = IF rx /\ conf.discard = 1 THEN @ \cup {h} ELSE @ \ {h}]
                 \/ Unwind(1) /\ UNCHANGED conf
           \/ h = 0 /\ Unwind(0) /\ flaw' = flaw \cup {"unreported"} /\ UNCHANGED <<opened, conf>>
  <2>1. 0 \in Queue /\ Handle \subseteq Queue
    BY DEF Queue, Handle
  <2>2. opened # Handle => (CHOOSE n \in Handle \ opened : TRUE) \in Handle \ opened
    BY Zenon, <1>1
  <2> QED
    BY Zenon, <2>1, <2>2 DEF open_channel
<1>4. /\ rtnl.i \in Nat /\ rtnl.rx \in Nat /\ rtnl.tx \in Nat
      /\ (rx <=> rtnl.i =< RxQueues) /\ k \in Nat
      /\ rx => k \in RxIx
      /\ ~rx => k \in TxIx
  BY <1>1, <1>2 DEF RtnlRec, Rtnl, At, Rx, RxIx, TxIx
<1>5. nq' = IF rx THEN [nq EXCEPT !.rx[k] = h] ELSE [nq EXCEPT !.tx[k] = h]
  BY <1>3
<1>6. rx \in BOOLEAN
  BY DEF Rx
<1> HIDE DEF rx
<1>7. k = IF rx THEN rtnl.rx + 1 ELSE rtnl.tx + 1
  OBVIOUS
<1> HIDE DEF k
<1>8. /\ nq' \in NqRec /\ nq'.task = nq.task
      /\ \A j \in RxIx : nq'.rx[j] = IF rx /\ j = k THEN h ELSE nq.rx[j]
      /\ \A j \in TxIx : nq'.tx[j] = IF ~rx /\ j = k THEN h ELSE nq.tx[j]
  <2>1. CASE rx
    BY <1>1, <1>4, <1>5, <2>1 DEF NqRec
  <2>2. CASE ~rx
    BY <1>1, <1>4, <1>5, <2>2 DEF NqRec
  <2> QED
    BY <2>1, <2>2
<1>9. /\ opened \subseteq opened' /\ opened' \in SUBSET Handle
      /\ h # 0 => h \notin opened /\ h \in opened'
  BY <1>1, <1>3
<1>10. conf' \in ConfRec /\ UNCHANGED <<conf.addr, conf.hw_addr, conf.mtu, conf.hw_mtu, conf.discard>>
  BY <1>1, <1>3 DEF ConfRec
<1>11. \/ /\ rtnl' \in RtnlRec /\ rtnl'.at = "channels" /\ rtnl'.i = rtnl.i + 1 /\ UNCHANGED rtnl.op
          /\ rtnl'.rx = IF rx THEN rtnl.rx + 1 ELSE rtnl.rx
          /\ rtnl'.tx = IF rx THEN rtnl.tx ELSE rtnl.tx + 1
          /\ conf' = [conf EXCEPT !.disc = IF rx /\ conf.discard = 1 THEN @ \cup {h} ELSE @ \ {h}]
       \/ /\ rtnl' \in RtnlRec /\ rtnl'.at = "stop_thread" /\ rtnl'.i = 1 /\ UNCHANGED rtnl.op
          /\ rtnl'.ret = 0 => flaw' # {}
  <2>1. CASE Unwind(1) \/ (Unwind(0) /\ flaw' = flaw \cup {"unreported"})
    <3>1. 0 \in 0..1 /\ 1 \in 0..1 /\ flaw \cup {"unreported"} # {}
      OBVIOUS
    <3> QED
      BY <1>1, <2>1, <3>1, Unwinds
  <2>2. CASE /\ rtnl' = [rtnl EXCEPT !.i = @ + 1, !.rx = IF rx THEN @ + 1 ELSE @, !.tx = IF rx THEN @ ELSE @ + 1]
             /\ conf' = [conf EXCEPT !.disc = IF rx /\ conf.discard = 1 THEN @ \cup {h} ELSE @ \ {h}]
    <3> DEFINE r == IF rx THEN rtnl.rx + 1 ELSE rtnl.rx
               t == IF rx THEN rtnl.tx ELSE rtnl.tx + 1
    <3>1. rtnl.at = "channels" /\ rtnl.i + 1 \in Nat /\ r \in Nat /\ t \in Nat
      BY <1>2, <1>4 DEF At
    <3>2. rtnl' = [rtnl EXCEPT !.i = rtnl.i + 1, !.rx = r, !.tx = t]
      BY <2>2
    <3> HIDE DEF r, t
    <3>3. /\ rtnl' \in RtnlRec /\ rtnl'.at = "channels" /\ rtnl'.i = rtnl.i + 1 /\ UNCHANGED rtnl.op
          /\ rtnl'.rx = r /\ rtnl'.tx = t
      BY Zenon, <1>1, <3>1, <3>2 DEF RtnlRec
    <3> QED
      BY <2>2, <3>3 DEF r, t
  <2> QED
    BY <1>3, <2>1, <2>2
<1>12. NetTypeOK'
  BY <1>1, <1>2, <1>8, <1>9, <1>10, <1>11 DEF NetTypeOK
<1>13. Rtnl'
  <2>1. /\ rtnl.op = "open" /\ rtnl.at = "channels" /\ net.run /\ ~net.active /\ xm = 0
        /\ rtnl.i >= 1 /\ rtnl.rx < rtnl.i /\ rtnl.rx =< RxQueues /\ rtnl.tx =< TxQueues
        /\ rtnl.i =< RxQueues => rtnl.tx = 0
        /\ rtnl.i > RxQueues => rtnl.tx < rtnl.i - RxQueues
    BY <1>1, <1>2 DEF Rtnl, At
  <2>2. CASE rtnl'.at = "stop_thread"
    BY <1>2, <1>11, <2>1, <2>2 DEF Rtnl, At
  <2>3. CASE rtnl'.at # "stop_thread"
    <3>1. /\ rtnl'.i =< RxQueues + TxQueues + 1 /\ rtnl'.rx < rtnl'.i /\ rtnl'.rx =< RxQueues
          /\ rtnl'.tx =< TxQueues
          /\ rtnl'.i =< RxQueues => rtnl'.tx = 0
          /\ rtnl'.i > RxQueues => rtnl'.tx < rtnl'.i - RxQueues
      <4>0. /\ rtnl'.i = rtnl.i + 1
            /\ rtnl'.rx = IF rx THEN rtnl.rx + 1 ELSE rtnl.rx
            /\ rtnl'.tx = IF rx THEN rtnl.tx ELSE rtnl.tx + 1
        BY <1>11, <2>3
      <4>1. CASE rx
        BY <1>2, <1>4, <2>1, <4>0, <4>1
      <4>2. CASE ~rx
        BY <1>2, <1>4, <2>1, <4>0, <4>2
      <4> QED
        BY <4>1, <4>2
    <3> QED
      BY <1>2, <1>4, <1>11, <2>1, <2>3, <3>1 DEF Rtnl, At
  <2> QED
    BY <2>2, <2>3
<1>14. Owned'
  <2> DEFINE a == IF rx THEN k ELSE 0
             b == IF rx THEN 0 ELSE k
  <2>1. a \in Nat /\ b \in Nat /\ (a = 0 \/ b = 0)
    BY <1>4
  <2>2. /\ \A j \in RxIx : nq'.rx[j] = IF j = a THEN h ELSE nq.rx[j]
        /\ \A j \in TxIx : nq'.tx[j] = IF j = b THEN h ELSE nq.tx[j]
    BY <1>8 DEF RxIx, TxIx
  <2> HIDE DEF a, b
  <2>3. UNCHANGED <<thr, xm, nq.task>> /\ rtnl'.at # "close_queue"
    BY <1>2, <1>8, <1>11
  <2> QED
    BY <1>1, <1>8, <1>9, <2>1, <2>2, <2>3, OwnedSet
<1>15. Service'
  <2>1. flaw \subseteq flaw'
    BY <1>3
  <2> QED
    BY <1>1, <1>2, <1>11, <2>1 DEF Service, Free
<1>16. flaw' = {} => Whole'
  <2> SUFFICES ASSUME flaw' = {} PROVE Whole'
    OBVIOUS
  <2>1. flaw = {} /\ h \in Handle \ opened /\ opened' = opened \cup {h}
    BY <1>3
  <2>2. Whole /\ Opening /\ Known /\ h # 0
    BY <1>1, <1>2, <2>1 DEF Whole, Handle
  <2>3. net.rxc \in 0..RxQueues /\ net.txc \in 0..TxQueues /\ rtnl.i >= 1
    BY <1>1, <1>2 DEF NetRec, Rtnl, At
  <2>4. /\ rx => k = rtnl.i /\ k =< net.rxc /\ rtnl.rx = k - 1 /\ rtnl.tx = 0
        /\ ~rx => k = rtnl.i - RxQueues /\ k =< net.txc /\ rtnl.tx = k - 1 /\ rtnl.rx = net.rxc
    <3>1. IF rtnl.i =< RxQueues THEN rtnl.i =< net.rxc ELSE rtnl.i - RxQueues =< net.txc
      BY <1>2 DEF WantedQueue, Rx
    <3>2. /\ rtnl.i - 1 =< net.rxc => rtnl.rx = rtnl.i - 1
          /\ rtnl.i - 1 >= net.rxc => rtnl.rx = net.rxc
          /\ rtnl.i - 1 =< RxQueues => rtnl.tx = 0
          /\ rtnl.i - 1 >= RxQueues /\ rtnl.i - 1 - RxQueues =< net.txc => rtnl.tx = rtnl.i - 1 - RxQueues
      BY <2>2 DEF Opening
    <3>3. CASE rx
      BY <1>4, <1>7, <2>3, <3>1, <3>2, <3>3
    <3>4. CASE ~rx
      BY <1>4, <1>7, <2>3, <3>1, <3>2, <3>4
    <3> QED
      BY <3>3, <3>4
  <2>5. RxOpen(rtnl.rx) /\ TxOpen(rtnl.tx) /\ Discards(rtnl.rx) /\ Cardinality(opened) = rtnl.rx + rtnl.tx
    BY <2>2 DEF Opening
  <2>6. /\ rx => nq.rx[k] = 0
        /\ ~rx => nq.tx[k] = 0
    BY <1>4, <2>4, <2>5 DEF RxOpen, TxOpen
  <2>7. Known'
    <3>1. \A g \in opened : (\E j \in RxIx : nq'.rx[j] = g) \/ (\E j \in TxIx : nq'.tx[j] = g)
      <4> SUFFICES ASSUME NEW g \in opened
                   PROVE  (\E j \in RxIx : nq'.rx[j] = g) \/ (\E j \in TxIx : nq'.tx[j] = g)
        OBVIOUS
      <4>1. g # 0
        BY <1>1 DEF Handle
      <4> QED
        BY <1>8, <2>2, <2>6, <4>1 DEF Known
    <3>2. (\E j \in RxIx : nq'.rx[j] = h) \/ (\E j \in TxIx : nq'.tx[j] = h)
      BY <1>4, <1>6, <1>8
    <3>3. /\ \A j \in RxIx : nq'.rx[j] # 0 => j =< net'.rxc
          /\ \A j \in TxIx : nq'.tx[j] # 0 => j =< net'.txc
      BY <1>2, <1>8, <2>2, <2>4 DEF Known
    <3> QED
      BY <2>1, <3>1, <3>2, <3>3 DEF Known
  <2>8. /\ rtnl.op = "open" /\ rtnl'.op = "open" /\ net.run /\ ~net.timer /\ ~net.mac /\ ~net.trx
        /\ conf.hw_addr = conf.addr /\ conf.hw_mtu = conf.mtu
    BY <1>1, <1>2, <1>11, <2>2 DEF Rtnl, At, Whole, Free
  <2>9. CASE rtnl'.at = "stop_thread"
    <3>1. rtnl'.i = 1 /\ rtnl'.ret # 0
      BY <1>11, <2>9
    <3>2. RxClosed(rtnl.i)'
      BY <3>1 DEF RxClosed, RxIx
    <3> QED
      BY <1>2, <1>10, <2>7, <2>8, <2>9, <3>1, <3>2 DEF Whole, At, Free
  <2>10. CASE rtnl'.at # "stop_thread"
    <3>1. /\ rtnl'.at = "channels" /\ rtnl'.i = rtnl.i + 1
          /\ rtnl'.rx = (IF rx THEN rtnl.rx + 1 ELSE rtnl.rx)
          /\ rtnl'.tx = (IF rx THEN rtnl.tx ELSE rtnl.tx + 1)
          /\ conf' = [conf EXCEPT !.disc = IF rx /\ conf.discard = 1 THEN @ \cup {h} ELSE @ \ {h}]
      BY <1>11, <2>10
    <3>2. RxOpen(rtnl.rx)' /\ TxOpen(rtnl.tx)'
      <4>1. \A j \in RxIx : nq'.rx[j] # 0 <=> j =< rtnl'.rx
        BY <1>4, <1>8, <2>2, <2>4, <2>5, <3>1 DEF RxOpen, RxIx
      <4>2. \A j \in TxIx : nq'.tx[j] # 0 <=> j =< rtnl'.tx
        BY <1>4, <1>8, <2>2, <2>4, <2>5, <3>1 DEF TxOpen, TxIx
      <4> QED
        BY <4>1, <4>2 DEF RxOpen, TxOpen
    <3>3. Discards(rtnl.rx)'
      <4>1. conf'.discard = conf.discard /\ conf'.disc = IF rx /\ conf.discard = 1 THEN conf.disc \cup {h} ELSE conf.disc \ {h}
        BY <1>1, <3>1 DEF ConfRec
      <4>2. \A g \in opened : g \in conf'.disc <=> conf.discard = 1 /\ \E j \in RxIx : j =< rtnl'.rx /\ nq'.rx[j] = g
        <5> SUFFICES ASSUME NEW g \in opened
                     PROVE  g \in conf'.disc <=> conf.discard = 1 /\ \E j \in RxIx : j =< rtnl'.rx /\ nq'.rx[j] = g
          OBVIOUS
        <5>1. g # h /\ g # 0
          BY <1>1, <2>1 DEF Handle
        <5>2. \A j \in RxIx : j =< rtnl'.rx /\ nq'.rx[j] = g <=> j =< rtnl.rx /\ nq.rx[j] = g
          BY <1>4, <1>8, <2>4, <2>6, <3>1, <5>1 DEF RxIx
        <5>3. g \in conf'.disc <=> g \in conf.disc
          BY <4>1, <5>1
        <5>4. g \in conf.disc <=> conf.discard = 1 /\ \E j \in RxIx : j =< rtnl.rx /\ nq.rx[j] = g
          BY <2>5 DEF Discards
        <5> QED
          BY <5>2, <5>3, <5>4
      <4>3. h \in conf'.disc <=> conf.discard = 1 /\ \E j \in RxIx : j =< rtnl'.rx /\ nq'.rx[j] = h
        <5>1. \A j \in RxIx : nq'.rx[j] = h <=> rx /\ j = k
          BY <1>1, <1>8, <2>1, <2>2 DEF Owned
        <5>2. rx => k =< rtnl'.rx
          BY <1>4, <2>4, <3>1
        <5>3. h \in conf'.disc <=> rx /\ conf.discard = 1
          BY <4>1
        <5> QED
          BY <1>4, <5>1, <5>2, <5>3
      <4> QED
        BY <2>1, <4>1, <4>2, <4>3 DEF Discards
    <3>4. Cardinality(opened') = rtnl'.rx + rtnl'.tx
      <4>1. IsFiniteSet(opened)
        <5>1. IsFiniteSet(Handle)
          BY FS_Interval DEF Handle
        <5> QED
          BY <1>1, <5>1, FS_Subset
      <4>2. Cardinality(opened') = Cardinality(opened) + 1
        BY Zenon, <2>1, <4>1, FS_AddElement
      <4> QED
        BY <1>4, <2>5, <3>1, <4>2
    <3>5. Opening'
      <4>1. /\ rtnl.i =< net.rxc => rtnl'.rx = rtnl.i
            /\ rtnl.i >= net.rxc => rtnl'.rx = net.rxc
            /\ rtnl.i =< RxQueues => rtnl'.tx = 0
            /\ rtnl.i >= RxQueues /\ rtnl.i - RxQueues =< net.txc => rtnl'.tx = rtnl.i - RxQueues
            /\ rtnl.i - RxQueues >= net.txc => rtnl'.tx = net.txc
        <5>1. CASE rx
          BY <1>4, <2>3, <2>4, <3>1, <5>1
        <5>2. CASE ~rx
          BY <1>4, <2>3, <2>4, <3>1, <5>2
        <5> QED
          BY <1>6, <5>1, <5>2
      <4>2. /\ rtnl'.i - 1 =< net'.rxc => rtnl'.rx = rtnl'.i - 1
            /\ rtnl'.i - 1 >= net'.rxc => rtnl'.rx = net'.rxc
            /\ rtnl'.i - 1 =< RxQueues => rtnl'.tx = 0
            /\ rtnl'.i - 1 >= RxQueues /\ rtnl'.i - 1 - RxQueues =< net'.txc => rtnl'.tx = rtnl'.i - 1 - RxQueues
            /\ rtnl'.i - 1 - RxQueues >= net'.txc => rtnl'.tx = net'.txc
        <5>1. net' = net /\ rtnl'.i - 1 = rtnl.i
          BY <1>2, <1>4, <3>1
        <5> QED
          BY <4>1, <5>1
      <4> QED
        BY <3>2, <3>3, <3>4, <4>2 DEF Opening
    <3> QED
      BY <1>2, <1>10, <2>7, <2>8, <3>1, <3>5 DEF Whole, At, Free
  <2> QED
    BY <2>9, <2>10
<1> QED
  BY <1>12, <1>13, <1>14, <1>15, <1>16 DEF NetInv

LEMMA CreatesThread ==
  ASSUME NetInv, create_thread
  PROVE  NetInv'
<1> USE NetConstants
<1> DEFINE k == rtnl.i
           h == nq.rx[k]
<1>1. /\ NetTypeOK /\ Rtnl /\ Owned /\ Service /\ (flaw = {} => Whole)
      /\ net \in NetRec /\ rtnl \in RtnlRec /\ nq \in NqRec /\ thr \in [Handle -> {"none", "idle", "holds"}]
  BY DEF NetInv, NetTypeOK
<1>2. /\ At("threads") /\ k =< net.rxc
      /\ UNCHANGED <<net, opened, xm, net_work, pend, conf>>
  BY DEF create_thread
<1>3. \/ /\ h # 0
         /\ nq' = [nq EXCEPT !.task[k] = h]
         /\ thr' = [thr EXCEPT ![h] = "idle"]
         /\ rtnl' = [rtnl EXCEPT !.i = k + 1] /\ UNCHANGED flaw
      \/ Unwind(1) /\ flaw' = flaw \cup {"err_task"} /\ UNCHANGED <<nq, thr>>
  BY DEF create_thread
<1>4. /\ k \in Nat /\ k \in RxIx /\ h \in Queue /\ (h # 0 => h \in Handle)
      /\ rtnl.at = "threads" /\ rtnl.op = "open" /\ net.run /\ ~net.active /\ xm = 0
  BY <1>1, <1>2 DEF NetRec, RtnlRec, NqRec, Rtnl, At, RxIx, Queue, Handle
<1> HIDE DEF h, k
<1>5. CASE Unwind(1) /\ flaw' = flaw \cup {"err_task"} /\ UNCHANGED <<nq, thr>>
  <2>1. 1 \in 0..1 /\ flaw' # {} /\ flaw \subseteq flaw'
    BY <1>5
  <2>2. rtnl' \in RtnlRec /\ rtnl'.at = "stop_thread" /\ rtnl'.i = 1 /\ UNCHANGED rtnl.op
    BY <1>1, <1>5, <2>1, Unwinds
  <2>3. NetTypeOK'
    BY <1>1, <1>2, <1>5, <2>2 DEF NetTypeOK
  <2>4. Rtnl' /\ Service'
    BY <1>1, <1>2, <1>4, <2>1, <2>2 DEF Rtnl, Service, At, Free
  <2>5. Owned'
    BY <1>1, <1>2, <1>5, <2>2, OwnedFrame
  <2> QED
    BY <2>1, <2>3, <2>4, <2>5 DEF NetInv
<1>6. CASE /\ h # 0
           /\ nq' = [nq EXCEPT !.task[k] = h]
           /\ thr' = [thr EXCEPT ![h] = "idle"]
           /\ rtnl' = [rtnl EXCEPT !.i = k + 1] /\ UNCHANGED flaw
  <2>1. rtnl' \in RtnlRec /\ rtnl'.i = k + 1 /\ UNCHANGED <<rtnl.op, rtnl.at>>
    BY <1>1, <1>4, <1>6 DEF RtnlRec
  <2>2. /\ nq' \in NqRec /\ nq'.rx = nq.rx /\ nq'.tx = nq.tx
        /\ \A j \in RxIx : nq'.task[j] = IF j = k THEN h ELSE nq.task[j]
    BY <1>1, <1>4, <1>6 DEF NqRec
  <2>3. /\ thr' \in [Handle -> {"none", "idle", "holds"}]
        /\ \A g \in Handle : thr'[g] = IF g = h THEN "idle" ELSE thr[g]
    BY <1>1, <1>4, <1>6
  <2>4. NetTypeOK'
    BY <1>1, <1>2, <2>1, <2>2, <2>3 DEF NetTypeOK
  <2>5. Rtnl' /\ Service'
    BY <1>1, <1>2, <1>4, <1>6, <2>1 DEF Rtnl, Service, At, Free
  <2>6. h = nq.rx[k] /\ h \in opened
    BY <1>1, <1>4, <1>6 DEF Owned, h
  <2>7. /\ \A j \in RxIx : nq.rx[j] # 0 => nq.rx[j] \in Handle
        /\ \A j \in TxIx : nq.tx[j] # 0 => nq.tx[j] \in Handle
    BY <1>1 DEF NqRec, Queue, Handle
  <2>8. Owned'
    <3>1. \A g \in Handle : thr'[g] # "none" => g \in opened'
      BY <1>1, <1>2, <2>3, <2>6 DEF Owned
    <3>2. \A i \in TxIx : nq'.tx[i] # 0 => nq'.tx[i] \in opened' /\ thr'[nq'.tx[i]] = "none"
      BY <1>1, <1>2, <1>4, <1>6, <2>2, <2>3, <2>6, <2>7 DEF Owned
    <3>3. \A i \in RxIx : nq'.rx[i] # 0 /\ thr'[nq'.rx[i]] # "none" => nq'.task[i] = nq'.rx[i]
      BY <1>1, <1>4, <1>6, <2>2, <2>3, <2>6, <2>7 DEF Owned
    <3> QED
      BY <1>1, <1>2, <1>4, <2>1, <2>2, <3>1, <3>2, <3>3 DEF Owned, At
  <2>9. flaw' = {} => Whole'
    <3> SUFFICES ASSUME flaw = {} PROVE Whole'
      BY <1>6
    <3>1. Whole /\ Complete /\ Threads(k - 1)
      BY <1>1, <1>2 DEF Whole, k
    <3>2. Known' /\ Complete'
      BY <1>2, <2>2, <3>1 DEF Whole, Known, Complete, RxOpen, TxOpen, Discards
    <3>3. Threads(rtnl.i - 1)'
      <4> SUFFICES ASSUME NEW j \in RxIx, j =< k
                   PROVE  nq.rx[j] # 0 /\ thr'[nq.rx[j]] # "none"
        BY <1>4, <2>1, <2>2 DEF Threads
      <4>1. CASE j = k
        BY <1>4, <1>6, <2>3, <2>6, <4>1
      <4>2. CASE j # k
        <5>1. j =< k - 1
          BY <1>4, <4>2 DEF RxIx
        <5> QED
          BY <2>3, <2>7, <3>1, <5>1 DEF Threads
      <4> QED
        BY <4>1, <4>2
    <3> QED
      BY <1>2, <1>4, <2>1, <3>1, <3>2, <3>3 DEF Whole, At, Free
  <2> QED
    BY <2>4, <2>5, <2>8, <2>9 DEF NetInv
<1> QED
  BY <1>3, <1>5, <1>6

LEMMA Opened ==
  ASSUME NetInv, nfb_net_opened
  PROVE  NetInv'
<1> USE NetConstants
<1>1. /\ NetTypeOK /\ Rtnl /\ Owned /\ Service /\ (flaw = {} => Whole)
      /\ net \in NetRec /\ rtnl \in RtnlRec
  BY DEF NetInv, NetTypeOK
<1>2. /\ At("threads") /\ rtnl.i > net.rxc
      /\ rtnl' = NetIdle
      /\ UNCHANGED <<nq, opened, thr, xm, net_work, pend, conf, flaw>>
  BY DEF nfb_net_opened
<1>3. /\ net' \in NetRec /\ net'.mac /\ net'.trx /\ net'.timer /\ net'.active
      /\ UNCHANGED <<net.run, net.rxc, net.txc, net.life, net.sched>>
  BY Zenon, <1>1 DEF nfb_net_opened, Up, nfb_net_transceiver_on, nfb_net_mac_on, NetRec
<1>4. rtnl' \in RtnlRec /\ rtnl'.op = "none" /\ rtnl'.at = "none"
  BY <1>2 DEF NetIdle, RtnlRec
<1>5. rtnl.op = "open" /\ net.run
  BY <1>1, <1>2 DEF Rtnl, At
<1>6. NetTypeOK'
  BY <1>1, <1>2, <1>3, <1>4 DEF NetTypeOK
<1>7. Rtnl' /\ Service'
  BY <1>1, <1>2, <1>3, <1>4, <1>5 DEF Rtnl, Service, At, Free
<1>8. Owned'
  BY <1>1, <1>2, <1>4, OwnedFrame
<1>9. flaw' = {} => Whole'
  <2> SUFFICES ASSUME flaw = {} PROVE Whole'
    BY <1>2
  <2>1. Whole /\ Complete /\ Threads(rtnl.i - 1)
    BY <1>1, <1>2 DEF Whole
  <2>2. Known' /\ Complete'
    BY <1>2, <1>3, <2>1 DEF Whole, Known, Complete, RxOpen, TxOpen, Discards
  <2>3. \A j \in RxIx : j =< net.rxc => j =< rtnl.i - 1
    BY <1>1, <1>2 DEF NetRec, RtnlRec, RxIx
  <2>4. Threads(net.rxc)'
    BY <1>2, <1>3, <2>1, <2>3 DEF Threads
  <2> QED
    BY <1>2, <1>3, <1>4, <1>5, <2>1, <2>2, <2>4 DEF Whole, At, Free
<1> QED
  BY <1>6, <1>7, <1>8, <1>9 DEF NetInv

-----------------------------------------------------------------------------
(* Stop                                                                    *)

LEMMA Closes ==
  ASSUME NetInv, nfb_net_close
  PROVE  NetInv'
<1> USE NetConstants
<1>1. /\ NetTypeOK /\ Rtnl /\ Owned /\ Service /\ (flaw = {} => Whole)
      /\ net \in NetRec /\ rtnl \in RtnlRec
  BY DEF NetInv, NetTypeOK
<1>2. /\ Free /\ net.run /\ xm = 0
      /\ rtnl' = [NetIdle EXCEPT !.op = "close", !.at = "stop_thread", !.i = 1]
      /\ UNCHANGED <<nq, opened, thr, xm, net_work, pend, conf, flaw>>
  BY DEF nfb_net_close
<1>3. /\ net' \in NetRec /\ ~net'.mac /\ ~net'.trx /\ ~net'.run /\ ~net'.active
      /\ UNCHANGED <<net.rxc, net.txc, net.life, net.sched>>
  BY Zenon, <1>1 DEF nfb_net_close, nfb_net_transceiver_off, nfb_net_mac_off, NetRec
<1>4. rtnl' \in RtnlRec /\ rtnl'.op = "close" /\ rtnl'.at = "stop_thread" /\ rtnl'.i = 1
  <2>1. rtnl' = [op |-> "close", at |-> "stop_thread", i |-> 1, rx |-> 0, tx |-> 0, ret |-> 0]
    BY Zenon, <1>2 DEF NetIdle
  <2> QED
    BY <2>1 DEF RtnlRec
<1>5. NetTypeOK'
  BY <1>1, <1>2, <1>3, <1>4 DEF NetTypeOK
<1>6. Rtnl' /\ Service'
  BY <1>1, <1>2, <1>3, <1>4 DEF Rtnl, Service, At, Free
<1>7. Owned'
  BY <1>1, <1>2, <1>4, OwnedFrame
<1>8. flaw' = {} => Whole'
  <2> SUFFICES ASSUME flaw = {} PROVE Whole'
    BY <1>2
  <2>1. Known'
    BY <1>1, <1>2, <1>3 DEF Whole, Known
  <2>2. RxClosed(rtnl.i)'
    BY <1>4 DEF RxClosed, RxIx
  <2>3. conf'.hw_addr = conf'.addr /\ conf'.hw_mtu = conf'.mtu
    BY <1>1, <1>2 DEF Whole
  <2> QED
    BY <1>3, <1>4, <2>1, <2>2, <2>3 DEF Whole, At, Free
<1> QED
  BY <1>5, <1>6, <1>7, <1>8 DEF NetInv

LEMMA StopsThread ==
  ASSUME NetInv, stop_thread
  PROVE  NetInv'
<1> USE NetConstants
<1> DEFINE k == rtnl.i
           h == nq.task[k]
<1>1. /\ NetTypeOK /\ Rtnl /\ Owned /\ Service /\ (flaw = {} => Whole)
      /\ net \in NetRec /\ rtnl \in RtnlRec /\ nq \in NqRec /\ thr \in [Handle -> {"none", "idle", "holds"}]
  BY DEF NetInv, NetTypeOK
<1>2. /\ At("stop_thread") /\ k =< net.rxc
      /\ IF h = 0 THEN UNCHANGED <<nq, thr>>
         ELSE thr' = [thr EXCEPT ![h] = "none"] /\ nq' = [nq EXCEPT !.task[k] = 0]
      /\ rtnl' = [rtnl EXCEPT !.at = "close_queue"]
      /\ UNCHANGED <<net, opened, xm, net_work, pend, conf, flaw>>
  BY DEF stop_thread
<1>3. /\ k \in RxIx /\ h \in Queue /\ 0 \in Queue /\ (h # 0 => h \in Handle)
      /\ rtnl.at = "stop_thread" /\ rtnl.op # "none" /\ ~net.active /\ rtnl.i >= 1 /\ rtnl.i =< RxQueues
  BY <1>1, <1>2 DEF NetRec, RtnlRec, NqRec, Rtnl, At, RxIx, Queue, Handle
<1>4. rtnl' \in RtnlRec /\ rtnl'.at = "close_queue" /\ UNCHANGED <<rtnl.op, rtnl.i, rtnl.ret>>
  BY <1>1, <1>2 DEF RtnlRec
<1>5. h = nq.task[k] /\ k = rtnl.i
  OBVIOUS
<1> HIDE DEF h, k
<1>6. /\ nq' \in NqRec /\ nq'.rx = nq.rx /\ nq'.tx = nq.tx
      /\ \A j \in RxIx : nq'.task[j] = IF j = k THEN 0 ELSE nq.task[j]
  <2>1. CASE h = 0
    BY <1>1, <1>2, <1>5, <2>1
  <2>2. CASE h # 0
    BY <1>1, <1>2, <1>3, <2>2 DEF NqRec
  <2> QED
    BY <2>1, <2>2
<1>7. /\ thr' \in [Handle -> {"none", "idle", "holds"}]
      /\ \A g \in Handle : thr'[g] = IF g = h THEN "none" ELSE thr[g]
  <2>1. 0 \notin Handle
    BY DEF Handle
  <2> QED
    BY <1>1, <1>2, <1>3, <2>1
<1>8. NetTypeOK'
  BY <1>1, <1>2, <1>4, <1>6, <1>7 DEF NetTypeOK
<1>9. Rtnl' /\ Service'
  BY <1>1, <1>2, <1>3, <1>4 DEF Rtnl, Service, At, Free
<1>10. Owned'
  <2>1. /\ \A j \in RxIx : nq.rx[j] # 0 => nq.rx[j] \in Handle
        /\ \A j \in TxIx : nq.tx[j] # 0 => nq.tx[j] \in Handle
    BY <1>1 DEF NqRec, Queue, Handle
  <2>2. \A i \in TxIx : nq'.tx[i] # 0 => nq'.tx[i] \in opened' /\ thr'[nq'.tx[i]] = "none"
    BY <1>1, <1>2, <1>6, <1>7, <2>1 DEF Owned
  <2>3. \A i \in RxIx : nq'.rx[i] # 0 /\ thr'[nq'.rx[i]] # "none" => nq'.task[i] = nq'.rx[i]
    BY <1>1, <1>5, <1>6, <1>7, <2>1 DEF Owned
  <2>4. \A g \in Handle : thr'[g] # "none" => g \in opened'
    BY <1>1, <1>2, <1>7 DEF Owned
  <2>5. nq'.task[rtnl'.i] = 0
    BY <1>3, <1>4, <1>5, <1>6
  <2> QED
    BY <1>1, <1>2, <1>6, <2>2, <2>3, <2>4, <2>5 DEF Owned, At
<1>11. flaw' = {} => Whole'
  <2> SUFFICES ASSUME flaw = {} PROVE Whole'
    BY <1>2
  <2>1. Whole
    BY <1>1
  <2>2. Known' /\ RxClosed(rtnl.i)'
    BY <1>2, <1>4, <1>6, <2>1 DEF Whole, Known, RxClosed, At
  <2> QED
    BY <1>2, <1>3, <1>4, <2>1, <2>2 DEF Whole, At, Free
<1> QED
  BY <1>8, <1>9, <1>10, <1>11 DEF NetInv

LEMMA ClosesQueue ==
  ASSUME NetInv, close_queue
  PROVE  NetInv'
<1> USE NetConstants
<1> DEFINE k == rtnl.i
           q == nq.rx[k]
<1>1. /\ NetTypeOK /\ Rtnl /\ Owned /\ Service /\ (flaw = {} => Whole)
      /\ net \in NetRec /\ rtnl \in RtnlRec /\ nq \in NqRec /\ opened \in SUBSET Handle
  BY DEF NetInv, NetTypeOK
<1>2. /\ At("close_queue")
      /\ opened' = opened \ {q} /\ nq' = [nq EXCEPT !.rx[k] = 0]
      /\ rtnl' = [rtnl EXCEPT !.at = "stop_thread", !.i = k + 1]
      /\ UNCHANGED <<net, thr, xm, net_work, pend, conf, flaw>>
  BY DEF close_queue
<1>3. /\ k \in Nat /\ k \in RxIx /\ q \in Queue /\ 0 \in Queue
      /\ rtnl.at = "close_queue" /\ rtnl.op # "none" /\ ~net.active /\ xm = 0 /\ nq.task[k] = 0
  BY <1>1, <1>2 DEF NetRec, RtnlRec, NqRec, Rtnl, Owned, At, RxIx, Queue
<1>4. q = nq.rx[k] /\ k = rtnl.i
  OBVIOUS
<1> HIDE DEF q, k
<1>5. rtnl' \in RtnlRec /\ rtnl'.at = "stop_thread" /\ rtnl'.i = k + 1 /\ UNCHANGED <<rtnl.op, rtnl.ret>>
  <2>1. k + 1 \in Nat
    BY <1>3
  <2> QED
    BY Zenon, <1>1, <1>2, <2>1 DEF RtnlRec
<1>6. /\ nq' \in NqRec /\ nq'.tx = nq.tx /\ nq'.task = nq.task
      /\ \A j \in RxIx : nq'.rx[j] = IF j = k THEN 0 ELSE nq.rx[j]
  BY <1>1, <1>2, <1>3 DEF NqRec
<1>7. NetTypeOK'
  BY <1>1, <1>2, <1>5, <1>6 DEF NetTypeOK
<1>8. Rtnl' /\ Service'
  BY <1>1, <1>2, <1>3, <1>5 DEF Rtnl, Service, At, Free
<1>9. Owned'
  <2>1. q # 0 => thr[q] = "none"
    BY <1>1, <1>3, <1>4 DEF Owned
  <2>2. \A g \in Handle : thr'[g] # "none" => g \in opened'
    <3>1. 0 \notin Handle
      BY DEF Handle
    <3> QED
      BY <1>1, <1>2, <2>1, <3>1 DEF Owned
  <2>3. \A i \in RxIx : nq'.rx[i] # 0 => nq'.rx[i] \in opened'
    BY <1>1, <1>2, <1>3, <1>4, <1>6 DEF Owned
  <2>4. \A i \in TxIx : nq'.tx[i] # 0 => nq'.tx[i] \in opened' /\ thr'[nq'.tx[i]] = "none"
    BY <1>1, <1>2, <1>3, <1>4, <1>6 DEF Owned
  <2>5. /\ \A i, j \in RxIx : nq'.rx[i] = nq'.rx[j] /\ nq'.rx[i] # 0 => i = j
        /\ \A i \in RxIx, j \in TxIx : nq'.rx[i] = nq'.tx[j] => nq'.rx[i] = 0
        /\ \A i \in RxIx : nq'.rx[i] # 0 /\ thr'[nq'.rx[i]] # "none" => nq'.task[i] = nq'.rx[i]
    BY <1>1, <1>2, <1>6 DEF Owned
  <2> QED
    BY <1>1, <1>2, <1>3, <1>5, <1>6, <2>2, <2>3, <2>4, <2>5 DEF Owned, At
<1>10. flaw' = {} => Whole'
  <2> SUFFICES ASSUME flaw = {} PROVE Whole'
    BY <1>2
  <2>1. Whole /\ RxClosed(k)
    BY <1>1, <1>2, <1>4 DEF Whole
  <2>2. RxClosed(rtnl.i)'
    <3> SUFFICES ASSUME NEW j \in RxIx, j < k + 1 PROVE nq'.rx[j] = 0
      BY <1>5 DEF RxClosed
    <3>1. j = k \/ j < k
      BY <1>3 DEF RxIx
    <3> QED
      BY <1>6, <2>1, <3>1 DEF RxClosed
  <2>3. Known'
    BY <1>2, <1>4, <1>6, <2>1 DEF Whole, Known
  <2> QED
    BY <1>2, <1>3, <1>5, <2>1, <2>2, <2>3 DEF Whole, At, Free
<1> QED
  BY <1>7, <1>8, <1>9, <1>10 DEF NetInv

LEMMA ClosesTx ==
  ASSUME NetInv, close_tx_queues
  PROVE  NetInv'
<1> USE NetConstants
<1>1. /\ NetTypeOK /\ Rtnl /\ Owned /\ Service /\ (flaw = {} => Whole)
      /\ net \in NetRec /\ rtnl \in RtnlRec /\ nq \in NqRec /\ opened \in SUBSET Handle
  BY DEF NetInv, NetTypeOK
<1>2. /\ At("stop_thread") /\ rtnl.i > net.rxc
      /\ opened' = opened \ {nq.tx[j] : j \in 1..net.txc}
      /\ nq' = [nq EXCEPT !.tx = [j \in 1..TxQueues |-> IF j \in 1..net.txc THEN 0 ELSE nq.tx[j]]]
      /\ rtnl' = [rtnl EXCEPT !.at = "end"]
      /\ UNCHANGED <<net, thr, xm, net_work, pend, conf, flaw>>
  BY DEF close_tx_queues
<1>3. /\ net.rxc \in 0..RxQueues /\ net.txc \in 0..TxQueues /\ rtnl.i \in Nat
      /\ 1..net.txc \subseteq TxIx
      /\ \A j \in TxIx : j \in 1..net.txc <=> j =< net.txc
      /\ rtnl.at = "stop_thread" /\ rtnl.op # "none" /\ ~net.active /\ xm = 0
  BY <1>1, <1>2 DEF NetRec, RtnlRec, Rtnl, At, TxIx
<1>4. rtnl' \in RtnlRec /\ rtnl'.at = "end" /\ UNCHANGED <<rtnl.op, rtnl.i, rtnl.ret>>
  BY <1>1, <1>2 DEF RtnlRec
<1>5. /\ nq' \in NqRec /\ nq'.rx = nq.rx /\ nq'.task = nq.task
      /\ \A j \in TxIx : nq'.tx[j] = IF j =< net.txc THEN 0 ELSE nq.tx[j]
  <2> DEFINE tx == [j \in TxIx |-> IF j \in 1..net.txc THEN 0 ELSE nq.tx[j]]
  <2>1. nq' = [nq EXCEPT !.tx = tx]
    BY <1>2 DEF TxIx
  <2>2. tx \in [TxIx -> Queue]
    BY <1>1 DEF NqRec, Queue
  <2>3. \A j \in TxIx : tx[j] = IF j =< net.txc THEN 0 ELSE nq.tx[j]
    BY <1>3
  <2> HIDE DEF tx
  <2> QED
    BY <1>1, <2>1, <2>2, <2>3 DEF NqRec
<1>6. \A g : g \in opened' <=> g \in opened /\ \A j \in TxIx : j =< net.txc => g # nq.tx[j]
  BY <1>2, <1>3
<1>7. NetTypeOK'
  BY <1>1, <1>2, <1>4, <1>5 DEF NetTypeOK
<1>8. Rtnl' /\ Service'
  BY <1>1, <1>2, <1>3, <1>4 DEF Rtnl, Service, At, Free
<1>9. Owned'
  <2>1. 0 \notin Handle
    BY DEF Handle
  <2>2. \A g \in Handle : thr'[g] # "none" => g \in opened'
    BY <1>1, <1>2, <1>6, <2>1 DEF Owned
  <2>3. \A i \in RxIx : nq'.rx[i] # 0 => nq'.rx[i] \in opened'
    BY <1>1, <1>5, <1>6 DEF Owned
  <2>4. \A i \in TxIx : nq'.tx[i] # 0 => nq'.tx[i] \in opened' /\ thr'[nq'.tx[i]] = "none"
    <3> SUFFICES ASSUME NEW i \in TxIx, nq'.tx[i] # 0 PROVE nq'.tx[i] \in opened' /\ thr'[nq'.tx[i]] = "none"
      OBVIOUS
    <3>1. nq'.tx[i] = nq.tx[i] /\ ~(i =< net.txc)
      BY <1>5
    <3>2. \A j \in TxIx : j =< net.txc => nq.tx[i] # nq.tx[j]
      BY <1>1, <3>1 DEF Owned
    <3> QED
      BY Zenon, <1>1, <1>2, <1>6, <3>1, <3>2 DEF Owned
  <2>5. /\ \A i, j \in TxIx : nq'.tx[i] = nq'.tx[j] /\ nq'.tx[i] # 0 => i = j
        /\ \A i \in RxIx, j \in TxIx : nq'.rx[i] = nq'.tx[j] => nq'.rx[i] = 0
    BY <1>1, <1>5 DEF Owned
  <2> QED
    BY <1>1, <1>2, <1>3, <1>4, <1>5, <2>2, <2>3, <2>4, <2>5 DEF Owned, At
<1>10. flaw' = {} => Whole'
  <2> SUFFICES ASSUME flaw = {} PROVE Whole'
    BY <1>2
  <2>1. Whole /\ Known /\ RxClosed(rtnl.i)
    BY <1>1, <1>2 DEF Whole
  <2>2. \A j \in RxIx : nq'.rx[j] = 0
    <3> SUFFICES ASSUME NEW j \in RxIx, nq.rx[j] # 0 PROVE FALSE
      BY <1>5
    <3>1. j =< net.rxc
      BY <2>1 DEF Known
    <3>2. j < rtnl.i
      BY <1>2, <1>3, <3>1 DEF RxIx
    <3> QED
      BY <2>1, <3>2 DEF RxClosed
  <2>3. \A j \in TxIx : nq'.tx[j] = 0
    BY <1>5, <2>1 DEF Known
  <2>4. RxOpen(0)' /\ TxOpen(0)'
    BY <2>2, <2>3 DEF RxOpen, TxOpen, RxIx, TxIx
  <2>5. \A g \in opened' : FALSE
    <3> SUFFICES ASSUME NEW g \in opened' PROVE FALSE
      OBVIOUS
    <3>1. g \in opened /\ g # 0
      BY <1>1, <1>6 DEF Handle
    <3> QED
      BY <1>5, <1>6, <2>1, <2>2, <3>1 DEF Known
  <2>6. Known'
    BY <2>2, <2>3, <2>5 DEF Known
  <2> QED
    BY <1>2, <1>3, <1>4, <2>1, <2>4, <2>6 DEF Whole, At, Free
<1> QED
  BY <1>7, <1>8, <1>9, <1>10 DEF NetInv

LEMMA EndsOff ==
  ASSUME NetInv, end_off
  PROVE  NetInv'
<1> USE NetConstants
<1>1. /\ NetTypeOK /\ Rtnl /\ Owned /\ Service /\ (flaw = {} => Whole)
      /\ net \in NetRec /\ rtnl \in RtnlRec
  BY DEF NetInv, NetTypeOK
<1>2. /\ At("end") /\ rtnl' = NetIdle
      /\ net' = IF rtnl.op = "close" THEN [net EXCEPT !.timer = FALSE]
                ELSE IF rtnl.ret # 0 THEN [net EXCEPT !.run = FALSE] ELSE Up(net)
      /\ UNCHANGED <<nq, opened, thr, xm, net_work, pend, conf, flaw>>
  BY DEF end_off
<1>3. rtnl' \in RtnlRec /\ rtnl'.op = "none" /\ rtnl'.at = "none"
  BY <1>2 DEF NetIdle, RtnlRec
<1>4. /\ rtnl.at = "end" /\ ~net.active /\ xm = 0
      /\ \/ rtnl.op = "close" /\ ~net.run
         \/ rtnl.op = "open" /\ net.run
  BY <1>1, <1>2 DEF Rtnl, At, RtnlRec
<1>5. /\ net' \in NetRec /\ UNCHANGED <<net.rxc, net.txc, net.life, net.sched>>
      /\ \/ rtnl.op = "close" /\ ~net'.run /\ ~net'.timer /\ UNCHANGED <<net.mac, net.trx, net.active>>
         \/ rtnl.op = "open" /\ rtnl.ret # 0 /\ ~net'.run /\ UNCHANGED <<net.timer, net.mac, net.trx, net.active>>
         \/ rtnl.op = "open" /\ rtnl.ret = 0 /\ net'.run
  <2>1. CASE rtnl.op = "close"
    BY Zenon, <1>1, <1>2, <1>4, <2>1 DEF NetRec
  <2>2. CASE rtnl.op # "close" /\ rtnl.ret # 0
    BY Zenon, <1>1, <1>2, <1>4, <2>2 DEF NetRec
  <2>3. CASE rtnl.op # "close" /\ rtnl.ret = 0
    BY Zenon, <1>1, <1>2, <1>4, <2>3 DEF NetRec, Up, nfb_net_transceiver_on, nfb_net_mac_on
  <2> QED
    BY <2>1, <2>2, <2>3
<1>6. NetTypeOK'
  BY <1>1, <1>2, <1>3, <1>5 DEF NetTypeOK
<1>7. Rtnl' /\ Service'
  BY Zenon, <1>1, <1>2, <1>3, <1>4, <1>5 DEF Rtnl, Service, At, Free
<1>8. Owned'
  BY <1>1, <1>2, <1>3, OwnedFrame
<1>9. flaw' = {} => Whole'
  <2> SUFFICES ASSUME flaw = {} PROVE Whole'
    BY <1>2
  <2>1. Whole
    BY <1>1
  <2>2. Known' /\ RxOpen(0)' /\ TxOpen(0)'
    BY <1>2, <1>5, <2>1 DEF Whole, Known, RxOpen, TxOpen
  <2>3. rtnl.op = "open" => rtnl.ret # 0
    BY <1>4, <2>1 DEF Whole
  <2> QED
    BY <1>2, <1>3, <1>4, <1>5, <2>1, <2>2, <2>3 DEF Whole, At, Free
<1> QED
  BY <1>6, <1>7, <1>8, <1>9 DEF NetInv

-----------------------------------------------------------------------------
LEMMA NetStep == NetInv /\ [NetNext]_netVars => NetInv'
<1> SUFFICES ASSUME NetInv, [NetNext]_netVars PROVE NetInv'
  OBVIOUS
<1>1. CASE UNCHANGED netVars
  <2>1. UNCHANGED <<net, nq, opened, thr, rtnl, xm, net_work, pend, conf, flaw>>
    BY <1>1 DEF netVars
  <2>2. NetTypeOK' /\ Rtnl' /\ Service'
    BY <2>1 DEF NetInv, NetTypeOK, Rtnl, Service, At, Free
  <2>3. Owned' /\ (flaw' = {} => Whole')
    BY <2>1, OwnedFrame, WholeFrame DEF NetInv
  <2> QED
    BY <2>2, <2>3 DEF NetInv
<1>2. CASE NetNext
  BY <1>2, Creates, Created, Destroys, Unregisters, Opens, Skips, OpensChannel, Counts, CreatesThread, Opened,
     Closes, StopsThread, ClosesQueue, ClosesTx, EndsOff, Receives, Transmits, Serves, Sets, StoreBegins, StoreEnds,
     Configures, SetsChannels DEF NetNext
<1> QED
  BY <1>1, <1>2

LEMMA NetInvQueues == NetInv => NetQueues
<1> SUFFICES ASSUME NetInv PROVE NetQueues
  OBVIOUS
<1> USE NetConstants
<1>1. /\ NetTypeOK /\ Rtnl /\ Owned /\ Service /\ (flaw = {} => Whole)
      /\ net \in NetRec /\ opened \in SUBSET Handle /\ thr \in [Handle -> {"none", "idle", "holds"}]
  BY DEF NetInv, NetTypeOK
<1>2. 1..net.rxc \subseteq RxIx /\ 1..net.txc \subseteq TxIx /\ net.rxc \in Nat
  BY <1>1 DEF NetRec, RxIx, TxIx
<1>3. ASSUME flaw = {}, Free, net.run
      PROVE  /\ \A i \in 1..net.rxc : nq.rx[i] \in opened /\ thr[nq.rx[i]] # "none"
             /\ \A i \in 1..net.txc : nq.tx[i] \in opened
             /\ Cardinality(opened) = net.rxc + net.txc
             /\ net.mac /\ net.trx /\ net.timer
             /\ opened \cap conf.disc = IF conf.discard = 1 THEN {nq.rx[i] : i \in 1..net.rxc} ELSE {}
  <2>1. Complete /\ Threads(net.rxc) /\ net.mac /\ net.trx /\ net.timer
    BY <1>1, <1>3 DEF Whole
  <2>2. \A i \in 1..net.rxc : nq.rx[i] \in opened /\ thr[nq.rx[i]] # "none"
    BY <1>1, <1>2, <2>1 DEF Threads, Owned
  <2>3. \A i \in 1..net.txc : nq.tx[i] \in opened
    BY <1>1, <1>2, <2>1 DEF Complete, TxOpen, Owned, NetRec
  <2>4. \A h \in opened : h \in conf.disc <=> conf.discard = 1 /\ \E i \in 1..net.rxc : nq.rx[i] = h
    <3>1. \A i : i \in 1..net.rxc <=> i \in RxIx /\ i =< net.rxc
      BY <1>1, <1>2 DEF RxIx, NetRec
    <3> QED
      BY <2>1, <3>1 DEF Complete, Discards
  <2>5. opened \cap conf.disc = IF conf.discard = 1 THEN {nq.rx[i] : i \in 1..net.rxc} ELSE {}
    BY <2>2, <2>4
  <2> QED
    BY <2>1, <2>2, <2>3, <2>5 DEF Complete
<1>4. ASSUME flaw = {}, Free, ~net.run
      PROVE  opened = {} /\ (\A h \in Handle : thr[h] = "none") /\ ~net.mac /\ ~net.trx /\ ~net.timer
  <2>1. opened = {}
    BY <1>1, <1>4, DownEmpty
  <2> QED
    BY <1>1, <1>4, <2>1 DEF Whole, Owned
<1>5. flaw = {} => conf.hw_addr = conf.addr /\ conf.hw_mtu = conf.mtu
  BY <1>1 DEF Whole
<1>6. /\ \A h \in Handle : thr[h] # "none" => h \in opened
      /\ xm # 0 => xm \in opened
      /\ net_work = "running" => net.sched \/ "early" \in flaw
  BY <1>1 DEF Owned, Service
<1> QED
  BY <1>3, <1>4, <1>5, <1>6 DEF NetQueues

(***************************************************************************)
(* Whatever is set, raced for or fails, no receiving thread and no         *)
(* transmission of an interface uses a queue that is closed.  An interface *)
(* that met none of the known races has all its queues, threads and        *)
(* switches while it is up, and none of them once nfb_net_open has failed  *)
(* or nfb_net_close is done.                                               *)
(***************************************************************************)
THEOREM NetQueuesSafe == NetSpec => []NetQueues
<1>1. NetSpec => []NetInv
  BY NetInitInv, NetStep, PTL DEF NetSpec
<1> QED
  BY <1>1, NetInvQueues, PTL
=============================================================================
