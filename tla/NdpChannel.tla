----------------------------- MODULE NdpChannel -----------------------------
(***************************************************************************)
(* One NDP channel (a DMA ring of the driver) shared by several            *)
(* subscriptions: channel.c and subscription.c, with the controller        *)
(* operations of ctrl_ndp.c they call and the ioctl and release handlers   *)
(* of ndp/char.c that call them.  The controller is a Medusa one.          *)
(*                                                                         *)
(* Positions are slots of the ring, 0 .. Size-1, and "& ptrmask" is        *)
(* "% Size".  On an RX channel the slots [swptr, hw_ptr) hold received     *)
(* packets that are not released yet; on a TX channel [hw_ptr, swptr) are  *)
(* published packets not sent yet.                                         *)
(*                                                                         *)
(* Locking.  channel->mutex is held through a whole start or stop;         *)
(* channel->lock (a spinlock) only around the list and the pointers.  A    *)
(* start is one step: until it links its subscription, nothing it writes   *)
(* is read without the mutex.  A stop is not: it clears locked_sub, waits  *)
(* for the controller and unlinks in separate steps, and the syncs of      *)
(* other subscriptions run between them.  A sync stores the caller's       *)
(* pointers before it takes the spinlock.                                  *)
(*                                                                         *)
(* Calls on one subscription are serial (a queue belongs to one thread),   *)
(* and its user keeps to the protocol described in netcope/ndp_tx.h.       *)
(***************************************************************************)
EXTENDS Integers, FiniteSets

CONSTANTS
  Sub,        \* subscriptions
  NoSub,      \* NULL: no lock holder, mutex not held
  Type,       \* channel->id.type
  Size,       \* slots of the ring, ptrmask + 1 (a power of two in the code)
  Request,    \* the flag sets that users subscribe with
  CtrlFlags   \* flags of the controller: {"USE_HEADER", "USE_OFFSET"}

ASSUME SubAssumption == IsFiniteSet(Sub) /\ NoSub \notin Sub
ASSUME TypeAssumption == Type \in {"RX", "TX"}
ASSUME SizeAssumption == Size \in Nat \ {0}
ASSUME FlagAssumption == "EXCLUSIVE" \notin CtrlFlags

VARIABLES
  status,               \* sub->status; FREE before create and after destroy
  pc,                   \* where the call on a subscription is
  closing,              \* subscriptions in ndp_subscription_destroy
  subscriptions_count,  \* channel->subscriptions_count
  flags,                \* channel->flags
  mutex,                \* the subscription whose stop holds channel->mutex
  start_count,          \* channel->start_count
  list_subscriptions,   \* channel->list_subscriptions
  locked_sub,           \* channel->locked_sub
  hwptr,                \* channel->hwptr
  swptr,                \* channel->swptr, the value last given to set_swptr
  sub_hwptr, sub_swptr, \* sub->hwptr and sub->swptr
  hw,                   \* the controller: "off", "on", or "halt" (running, but told to stop)
  hw_ptr                \* the slot the controller works on

users == <<status, pc, closing, subscriptions_count, flags>>
locks == <<mutex, start_count, list_subscriptions, locked_sub>>
ptrs == <<hwptr, swptr, sub_hwptr, sub_swptr>>
ctrl == <<hw, hw_ptr>>
vars == <<users, locks, ptrs, ctrl>>

Ptr == 0 .. Size - 1
Flag == {"EXCLUSIVE"} \cup CtrlFlags \cup UNION Request

\* Positions on the ring, and how far position a is ahead of b.
Mask(x) == x % Size
Dist(a, b) == Mask(a - b)

TypeOK ==
  /\ status \in [Sub -> {"FREE", "SUBSCRIBED", "RUNNING"}]
  /\ pc \in [Sub -> {"idle", "sync", "stopping", "forcing", "unlink",
                     "retry", "sleep", "unsubscribe"}]
  /\ closing \in SUBSET Sub
  /\ subscriptions_count \in Int
  /\ flags \in SUBSET Flag
  /\ mutex \in Sub \cup {NoSub}
  /\ start_count \in Int
  /\ list_subscriptions \in SUBSET Sub
  /\ locked_sub \in Sub \cup {NoSub}
  /\ hwptr \in Ptr /\ swptr \in Ptr
  /\ sub_hwptr \in [Sub -> Ptr] /\ sub_swptr \in [Sub -> Ptr]
  /\ hw \in {"off", "on", "halt"}
  /\ hw_ptr \in Ptr

Init ==
  /\ status = [s \in Sub |-> "FREE"]
  /\ pc = [s \in Sub |-> "idle"]
  /\ closing = {}
  /\ subscriptions_count = 0
  /\ flags = {}
  /\ mutex = NoSub
  /\ start_count = 0
  /\ list_subscriptions = {}
  /\ locked_sub = NoSub
  /\ hwptr = 0 /\ swptr = 0
  /\ sub_hwptr = [s \in Sub |-> 0] /\ sub_swptr = [s \in Sub |-> 0]
  /\ hw = "off"
  /\ hw_ptr = 0

Goto(s, label) == pc' = [pc EXCEPT ![s] = label]

-----------------------------------------------------------------------------
(* Subscribe and unsubscribe.                                              *)

\* Mutant: an exclusive owner is not respected by those who do not ask to be.
AcceptsIgnoringOwner(req) ==
  IF subscriptions_count = 0
  THEN req \ {"EXCLUSIVE"} = CtrlFlags
  ELSE "EXCLUSIVE" \notin req /\ req \cup flags = flags \cup CtrlFlags

\* The first subscription sets the flags; the others must match them, and be
\* allowed to share.
Accepts(req) ==
  IF subscriptions_count = 0
  THEN req \ {"EXCLUSIVE"} = CtrlFlags
  ELSE "EXCLUSIVE" \notin req \cup flags /\ req = flags \cup CtrlFlags

\* ndp_subscription_create.  A refused request (-EPERM) changes nothing: the
\* count goes up and down again and the controller's flags are constant.
Subscribe(s, req) ==
  /\ status[s] = "FREE" /\ mutex = NoSub
  /\ Accepts(req)
  /\ status' = [status EXCEPT ![s] = "SUBSCRIBED"]
  /\ subscriptions_count' = subscriptions_count + 1
  /\ flags' = IF subscriptions_count = 0 THEN req \cap {"EXCLUSIVE"} ELSE flags
  /\ UNCHANGED <<pc, closing, locks, ptrs, ctrl>>

\* The rest of ndp_subscription_destroy, after the stop (if any).
Unsubscribe(s) ==
  /\ pc[s] = "unsubscribe" /\ mutex = NoSub
  /\ subscriptions_count' = subscriptions_count - 1
  /\ status' = [status EXCEPT ![s] = "FREE"]
  /\ closing' = closing \ {s}
  /\ Goto(s, "idle")
  /\ UNCHANGED <<flags, locks, ptrs, ctrl>>

-----------------------------------------------------------------------------
(* Start.                                                                  *)

Link(s) ==
  /\ status[s] = "SUBSCRIBED" /\ pc[s] = "idle" /\ mutex = NoSub
  /\ start_count' = start_count + 1
  /\ list_subscriptions' = list_subscriptions \cup {s}
  /\ status' = [status EXCEPT ![s] = "RUNNING"]
  /\ sub_swptr' = [sub_swptr EXCEPT ![s] = hwptr']
  /\ sub_hwptr' = [sub_hwptr EXCEPT ![s] = hwptr']
  /\ UNCHANGED <<pc, closing, subscriptions_count, flags, mutex, locked_sub>>

\* The first start also starts the controller, at slot 0.  One that is still
\* running ("halt", left by a forced stop) is stopped by force first.  A
\* controller that does not start leaves the channel as it was.
StartFirst(s) ==
  /\ start_count = 0
  /\ hw' = "on" /\ hw_ptr' = 0
  /\ hwptr' = 0 /\ swptr' = 0
  /\ Link(s)

\* Mutant: a subscription joins where its last run ended.
StartJoinStale(s) ==
  /\ start_count > 0
  /\ status[s] = "SUBSCRIBED" /\ pc[s] = "idle" /\ mutex = NoSub
  /\ start_count' = start_count + 1
  /\ list_subscriptions' = list_subscriptions \cup {s}
  /\ status' = [status EXCEPT ![s] = "RUNNING"]
  /\ UNCHANGED <<pc, closing, subscriptions_count, flags, mutex, locked_sub, ptrs, ctrl>>

\* A later one joins at the newest position the channel has seen.
StartJoin(s) ==
  /\ start_count > 0
  /\ UNCHANGED <<hwptr, swptr, ctrl>>
  /\ Link(s)

-----------------------------------------------------------------------------
(* Stop.                                                                   *)

\* Mutant: the TX lock of a stopped subscription stays.
StopEnterKeepsLock(s, wait) ==
  /\ mutex = NoSub /\ mutex' = s
  /\ start_count' = start_count - 1
  /\ IF start_count = 1
     THEN Goto(s, wait) /\ hw' = (IF hw = "on" THEN "halt" ELSE hw)
     ELSE Goto(s, "unlink") /\ UNCHANGED hw
  /\ UNCHANGED <<status, subscriptions_count, flags, list_subscriptions, locked_sub,
                 ptrs, hw_ptr>>

\* Mutant: the counter is compared before it is decremented.
StopEnterOffByOne(s, wait) ==
  /\ mutex = NoSub /\ mutex' = s
  /\ locked_sub' = IF locked_sub = s THEN NoSub ELSE locked_sub
  /\ start_count' = start_count - 1
  /\ IF start_count = 0
     THEN Goto(s, wait) /\ hw' = (IF hw = "on" THEN "halt" ELSE hw)
     ELSE Goto(s, "unlink") /\ UNCHANGED hw
  /\ UNCHANGED <<status, subscriptions_count, flags, list_subscriptions, ptrs, hw_ptr>>

\* The head of ndp_channel_stop: the mutex is taken, and the last stop writes
\* STOP to the controller.
StopEnter(s, wait) ==
  /\ mutex = NoSub /\ mutex' = s
  /\ locked_sub' = IF locked_sub = s THEN NoSub ELSE locked_sub
  /\ start_count' = start_count - 1
  /\ IF start_count = 1
     THEN Goto(s, wait) /\ hw' = (IF hw = "on" THEN "halt" ELSE hw)
     ELSE Goto(s, "unlink") /\ UNCHANGED hw
  /\ UNCHANGED <<status, subscriptions_count, flags, list_subscriptions, ptrs, hw_ptr>>

\* NDP_IOC_STOP, and its repetition by libnfb as long as it gets -EAGAIN.
Stop(s) ==
  /\ status[s] = "RUNNING" /\ pc[s] \in {"idle", "retry"}
  /\ StopEnter(s, "stopping")
  /\ UNCHANGED closing

\* ndp_subscription_destroy, when the file is closed or the process dies
\* (also between two attempts to stop).
Destroy(s) ==
  /\ status[s] # "FREE" /\ pc[s] \in {"idle", "retry"}
  /\ closing' = closing \cup {s}
  /\ IF status[s] = "RUNNING"
     THEN StopEnter(s, "stopping")
     ELSE /\ Goto(s, "unsubscribe")
          /\ UNCHANGED <<status, subscriptions_count, flags, locks, ptrs, ctrl>>

\* Mutant: the second attempt is not forced either.
StopForceAgain(s) ==
  /\ pc[s] = "sleep"
  /\ StopEnter(s, "stopping")
  /\ UNCHANGED closing

\* The second, forced attempt of ndp_subscription_stop, after the sleep.
StopForce(s) ==
  /\ pc[s] = "sleep"
  /\ StopEnter(s, "forcing")
  /\ UNCHANGED closing

\* A TX channel has sent everything that was published.
Drained == Type = "TX" => hw_ptr = swptr

\* As far as the pointer in memory tells, it has not.
MaybeUnsent == Type = "TX" /\ hwptr # swptr

\* Mutant: the count is not restored.
StopAgainUncounted(s) ==
  /\ pc[s] = "stopping"
  /\ hw # "off" \/ MaybeUnsent
  /\ mutex' = NoSub
  /\ Goto(s, "sleep") \/ (s \notin closing /\ Goto(s, "retry"))
  /\ UNCHANGED <<status, closing, subscriptions_count, flags, start_count,
                 list_subscriptions, locked_sub, ptrs, ctrl>>

\* ops->stop gives up with -EAGAIN: the controller still runs, or has data to
\* send and reports no progress.  It stays stopped (or stopping) all the same.
\* ndp_subscription_stop sleeps if its caller forces it (a destroy, and every
\* stop of a queue that the kernel opened); a stop by ioctl returns -EAGAIN.
StopAgain(s) ==
  /\ pc[s] = "stopping"
  /\ hw # "off" \/ MaybeUnsent
  /\ start_count' = start_count + 1
  /\ mutex' = NoSub
  /\ Goto(s, "sleep") \/ (s \notin closing /\ Goto(s, "retry"))
  /\ UNCHANGED <<status, closing, subscriptions_count, flags,
                 list_subscriptions, locked_sub, ptrs, ctrl>>

\* ops->stop returns 0: the controller is off, or the stop is forced (and then
\* the controller may be left running).
StopDone(s) ==
  /\ pc[s] = "forcing" \/ (pc[s] = "stopping" /\ hw = "off" /\ Drained)
  /\ Goto(s, "unlink")
  /\ UNCHANGED <<status, closing, subscriptions_count, flags, locks, ptrs, ctrl>>

\* Mutant: the subscription stays on the list.
UnlinkKeeps(s) ==
  /\ pc[s] = "unlink"
  /\ mutex' = NoSub
  /\ status' = [status EXCEPT ![s] = "SUBSCRIBED"]
  /\ Goto(s, IF s \in closing THEN "unsubscribe" ELSE "idle")
  /\ UNCHANGED <<closing, subscriptions_count, flags, start_count,
                 list_subscriptions, locked_sub, ptrs, ctrl>>

\* The tail of ndp_channel_stop and of ndp_subscription_stop.
Unlink(s) ==
  /\ pc[s] = "unlink"
  /\ list_subscriptions' = list_subscriptions \ {s}
  /\ mutex' = NoSub
  /\ status' = [status EXCEPT ![s] = "SUBSCRIBED"]
  /\ Goto(s, IF s \in closing THEN "unsubscribe" ELSE "idle")
  /\ UNCHANGED <<closing, subscriptions_count, flags, start_count, locked_sub, ptrs, ctrl>>

-----------------------------------------------------------------------------
(* Sync.  ops->get_hwptr reads a pointer the controller writes to memory   *)
(* from time to time: any value between the last one read and hw_ptr.      *)

Unreported == Dist(hw_ptr, hwptr)

\* An RX user releases n of the slots it was given and enters NDP_IOC_SYNC;
\* sub->swptr is stored before the spinlock is taken.
RxRelease(s, n) ==
  /\ Type = "RX" /\ status[s] = "RUNNING" /\ pc[s] = "idle"
  /\ n <= Dist(sub_hwptr[s], sub_swptr[s])
  /\ sub_swptr' = [sub_swptr EXCEPT ![s] = Mask(@ + n)]
  /\ Goto(s, "sync")
  /\ UNCHANGED <<status, closing, subscriptions_count, flags, locks,
                 hwptr, swptr, sub_hwptr, ctrl>>

\* Slots that subscription t has not released, as seen by the channel.
Lag(t) == Dist(hwptr, sub_swptr[t])

\* Mutant: the search keeps the smallest lag.
Nearest(t) == \A u \in list_subscriptions : Lag(t) <= Lag(u)

\* The search for the farthest swptr ends at t.
Farthest(t) == \A u \in list_subscriptions : Lag(u) <= Lag(t)

\* ndp_channel_rxsync, under the spinlock; n more slots are reported.
RxSync(s, n) ==
  /\ Type = "RX" /\ pc[s] = "sync"
  /\ \E t \in list_subscriptions : Farthest(t) /\ swptr' = sub_swptr[t]
  /\ n <= Unreported
  /\ hwptr' = Mask(hwptr + n)
  /\ sub_hwptr' = [sub_hwptr EXCEPT ![s] = hwptr']
  /\ Goto(s, "idle")
  /\ UNCHANGED <<status, closing, subscriptions_count, flags, locks, sub_swptr, ctrl>>

\* A TX user publishes put slots of the window it holds (none when it holds
\* none), asks for want slots behind them, and enters NDP_IOC_SYNC.
TxRequest(s, put, want) ==
  /\ Type = "TX" /\ status[s] = "RUNNING" /\ pc[s] = "idle"
  /\ put <= Dist(sub_swptr[s], sub_hwptr[s])
  /\ sub_hwptr' = [sub_hwptr EXCEPT ![s] = Mask(@ + put)]
  /\ sub_swptr' = [sub_swptr EXCEPT ![s] = Mask(sub_hwptr[s] + put + want)]
  /\ Goto(s, "sync")
  /\ UNCHANGED <<status, closing, subscriptions_count, flags, locks, hwptr, swptr, ctrl>>

\* Free slots behind swptr; one slot always stays empty.
FreeSlots == Mask(hwptr' - swptr' - 1)

\* The locking part of ndp_channel_txsync: the window starts at swptr and is as
\* long as asked for, but not longer than the free space.
Window(s, n) ==
  LET asked == Dist(sub_swptr[s], sub_hwptr[s])
      len == IF asked < FreeSlots THEN asked ELSE FreeSlots
  IN  /\ n <= Unreported
      /\ hwptr' = Mask(hwptr + n)
      /\ locked_sub' = IF len = 0 THEN NoSub ELSE s
      /\ sub_hwptr' = [sub_hwptr EXCEPT ![s] = swptr']
      /\ sub_swptr' = [sub_swptr EXCEPT ![s] = Mask(swptr' + len)]
      /\ Goto(s, "idle")
      /\ UNCHANGED <<status, closing, subscriptions_count, flags,
                     mutex, start_count, list_subscriptions, ctrl>>

\* Mutant: the end of the requested window is published.
TxSyncHolderSwapped(s, n) ==
  /\ Type = "TX" /\ pc[s] = "sync" /\ locked_sub = s
  /\ swptr' = sub_swptr[s]
  /\ Window(s, n)

\* ndp_channel_txsync of the lock holder publishes first.
TxSyncHolder(s, n) ==
  /\ Type = "TX" /\ pc[s] = "sync" /\ locked_sub = s
  /\ swptr' = sub_hwptr[s]
  /\ Window(s, n)

TxSyncFree(s, n) ==
  /\ Type = "TX" /\ pc[s] = "sync" /\ locked_sub = NoSub
  /\ UNCHANGED swptr
  /\ Window(s, n)

\* Mutant: the refused caller keeps the window it asked for.
TxSyncOtherKeeps(s) ==
  /\ Type = "TX" /\ pc[s] = "sync" /\ locked_sub \notin {s, NoSub}
  /\ Goto(s, "idle")
  /\ UNCHANGED <<status, closing, subscriptions_count, flags, locks, ptrs, ctrl>>

\* Another subscription holds the lock: the caller gets an empty window.
TxSyncOther(s) ==
  /\ Type = "TX" /\ pc[s] = "sync" /\ locked_sub \notin {s, NoSub}
  /\ sub_hwptr' = [sub_hwptr EXCEPT ![s] = swptr]
  /\ sub_swptr' = [sub_swptr EXCEPT ![s] = swptr]
  /\ Goto(s, "idle")
  /\ UNCHANGED <<status, closing, subscriptions_count, flags, locks, hwptr, swptr, ctrl>>

-----------------------------------------------------------------------------
(* The controller.                                                         *)

\* A packet is received into the next slot, as long as a slot is free.
HwReceive ==
  /\ Type = "RX" /\ hw # "off"
  /\ Mask(swptr - hw_ptr - 1) > 0
  /\ hw_ptr' = Mask(hw_ptr + 1)
  /\ UNCHANGED <<users, locks, ptrs, hw>>

\* The next published packet is sent.
HwSend ==
  /\ Type = "TX" /\ hw # "off"
  /\ hw_ptr # swptr
  /\ hw_ptr' = Mask(hw_ptr + 1)
  /\ UNCHANGED <<users, locks, ptrs, hw>>

\* A controller told to stop comes to rest, drained or not.
HwHalt ==
  /\ hw = "halt"
  /\ hw' = "off"
  /\ UNCHANGED <<users, locks, ptrs, hw_ptr>>

Next ==
  \/ \E s \in Sub, req \in Request : Subscribe(s, req)
  \/ \E s \in Sub : Unsubscribe(s)
  \/ \E s \in Sub : StartFirst(s)
  \/ \E s \in Sub : StartJoin(s)
  \/ \E s \in Sub : Stop(s)
  \/ \E s \in Sub : Destroy(s)
  \/ \E s \in Sub : StopForce(s)
  \/ \E s \in Sub : StopAgain(s)
  \/ \E s \in Sub : StopDone(s)
  \/ \E s \in Sub : Unlink(s)
  \/ \E s \in Sub, n \in Ptr : RxRelease(s, n)
  \/ \E s \in Sub, n \in Ptr : RxSync(s, n)
  \/ \E s \in Sub, put \in Ptr, want \in Ptr : TxRequest(s, put, want)
  \/ \E s \in Sub, n \in Ptr : TxSyncHolder(s, n)
  \/ \E s \in Sub, n \in Ptr : TxSyncFree(s, n)
  \/ \E s \in Sub : TxSyncOther(s)
  \/ HwReceive
  \/ HwSend
  \/ HwHalt

Spec == Init /\ [][Next]_vars

\* The steps of a call that wait for nothing but the processor.
Proceeds(s) ==
  StopAgain(s) \/ StopDone(s) \/ Unlink(s) \/ TxSyncOther(s)
    \/ \E n \in Ptr : RxSync(s, n) \/ TxSyncHolder(s, n) \/ TxSyncFree(s, n)

\* A call inside the driver goes on.  The mutex is fair: a sleeper gets it in
\* the end even if others keep taking it.  Nothing is assumed of Stop,
\* Destroy and the controller: a user may stay in any state between two
\* calls, and a controller told to stop need never do so.
CallFairness ==
  \A s \in Sub :
    WF_vars(Proceeds(s)) /\ SF_vars(StopForce(s)) /\ SF_vars(Unsubscribe(s))

\* Readers that run do not sync for ever without releasing what they were
\* given, and the controller reports its position sooner or later (the update
\* timeout set by nc_ndp_ctrl_start).
ReaderFairness ==
  \A s \in Sub :
    /\ SF_vars(\E n \in Ptr : n = Dist(sub_hwptr[s], sub_swptr[s]) /\ RxRelease(s, n))
    /\ SF_vars(\E n \in Ptr : n = Unreported /\ RxSync(s, n))

FairSpec == Spec /\ CallFairness /\ ReaderFairness

-----------------------------------------------------------------------------
(* Properties.                                                             *)

Members == {s \in Sub : status[s] # "FREE"}

\* The stop that is between its decrement of start_count and its unlink.
Stopping == {s \in Sub : pc[s] \in {"stopping", "forcing", "unlink"}}

\* The counters that decide who sets the flags and who starts and stops the
\* controller count what they should: subscriptions_count the subscriptions
\* that exist, start_count the linked ones without the one being stopped,
\* through every retried, forced and interrupted stop.
CountsExact ==
  /\ subscriptions_count = Cardinality(Members)
  /\ start_count = Cardinality(list_subscriptions \ Stopping)

\* An exclusive subscription (NDP_CHANNEL_FLAG_EXCLUSIVE) is the only one of
\* its channel as long as it exists.
ExclusiveAlone ==
  "EXCLUSIVE" \in flags => \A s, t \in Members : s = t

\* The controller is not left started when nobody runs: with no subscription
\* linked it was told to stop, also after a process died in the middle.
StoppedWhenUnused ==
  list_subscriptions = {} => hw # "on"

\* RX: walking back from the controller's slot one meets the channel's hwptr,
\* then the hwptr and the swptr of every linked subscription, then the swptr
\* the controller was given.  So a packet a reader was shown stays in the ring
\* until that reader releases it, whatever the other readers release.
RxOrder ==
  Type = "RX" =>
    \A s \in list_subscriptions :
      /\ Dist(hw_ptr, hwptr) <= Dist(hw_ptr, sub_hwptr[s])
      /\ Dist(hw_ptr, sub_hwptr[s]) <= Dist(hw_ptr, sub_swptr[s])
      /\ Dist(hw_ptr, sub_swptr[s]) <= Dist(hw_ptr, swptr)

\* TX: between calls only the lock holder has a window, it starts where the
\* published data ends, and it lies in slots the controller has sent, so no
\* writer touches a packet that waits to be sent or another writer's packet.
TxWindows ==
  Type = "TX" =>
    \A s \in list_subscriptions : pc[s] = "idle" =>
      IF s = locked_sub
      THEN /\ sub_hwptr[s] = swptr /\ sub_swptr[s] # swptr
           /\ Dist(sub_swptr[s], swptr) <= Mask(hw_ptr - swptr - 1)
      ELSE sub_hwptr[s] = sub_swptr[s]

\* The lock of a TX channel is never held by a subscription that was stopped
\* or has died: everyone else would be refused for ever.
LockHolderRuns ==
  locked_sub # NoSub =>
    locked_sub \in list_subscriptions /\ pc[locked_sub] \in {"idle", "sync"}

\* Slots are handed to the controller for good.  On RX, swptr never moves
\* back over slots the controller may have written since; on TX, it never moves
\* back over published packets nor forward past the free space.
SwptrForward ==
  [][\/ start_count = 0
     \/ Type = "RX" /\ Dist(hw_ptr, swptr') <= Dist(hw_ptr, swptr)
     \/ Type = "TX" /\ Dist(swptr', hw_ptr) >= Dist(swptr, hw_ptr)
     \/ hw_ptr' # hw_ptr]_vars

\* Destroying a subscription ends, even if its controller never stops and
\* others keep starting and stopping: closing a file, or the exit of a killed
\* process, does not hang.
DestroyCompletes ==
  \A s \in Sub : s \in closing ~> s \notin closing

\* One reader that leaves or joins does not stall the others: while readers
\* keep reading, a full ring gets room again (or the channel is stopped).
FullRingDrains ==
  (Type = "RX" /\ hw = "on" /\ Mask(swptr - hw_ptr - 1) = 0)
    ~> (hw # "on" \/ Mask(swptr - hw_ptr - 1) > 0)

\* A queue whose start has succeeded can receive (or transmit) packets: when
\* no call is under way, the controller of a running subscription is started
\* and was not told to stop.
StartedQueueLive ==
  \A s \in Sub :
    status[s] = "RUNNING" /\ (\A t \in Sub : pc[t] = "idle") => hw = "on"
=============================================================================
