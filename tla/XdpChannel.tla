----------------------------- MODULE XdpChannel -----------------------------
(***************************************************************************)
(* One queue pair of an XDP interface: starting it in page pool mode (pp)  *)
(* or in AF_XDP mode (xsk), stopping it, and switching between the modes   *)
(* when a socket binds or closes, while its NAPI polls run.                *)
(*                                                                         *)
(* Calls are serialised (rtnl and state_mutex); chan.pc is where the       *)
(* current one is.  A failure unwinds as the labels of the code do.        *)
(***************************************************************************)
EXTENDS Integers, Sequences

CONSTANTS
    Pool,          \* AF_XDP buffer pools
    NoPool,
    AllocFails     \* set of <<mode, side, resource>> whose allocation may fail

VARIABLES
    chan,    \* running, xsk, pool, socket bound, queue started; the call: pc,
             \* what is left of it, mode, result
    ctl,     \* side -> "none", "open", "run"
    held,    \* side -> resource -> how often it is held
    napi,    \* side -> "none", "added", "on"
    thread,  \* sides whose kthread exists
    polling, \* sides whose NAPI poll is in progress
    isup     \* the interface is open

chVars == <<chan, ctl, held, napi, thread, polling, isup>>

Sides == {"rx", "tx"}

(* What nfb_xctrl_alloc_pp and nfb_xctrl_alloc_xsk acquire, and when.      *)
Turn == [ctrl |-> 1, ring |-> 2, buffs |-> 3, desc |-> 4, update |-> 5, hdr |-> 6, pool |-> 7,
         rxq_info |-> 8, mem_model |-> 9, comp |-> 10]

Resource == DOMAIN Turn
Nothing == [x \in Resource |-> 0]

Acquired(mode, side) ==
    {"ctrl", "ring", "desc", "update", "comp"}
      \cup (IF side = "rx" THEN {"hdr", "rxq_info", "mem_model"} ELSE {})
      \cup (IF side = "rx" /\ mode = "pp" THEN {"buffs", "pool"} ELSE {})

Before(mode, side, x) == {y \in Acquired(mode, side) : Turn[y] < Turn[x]}

Holding(got) == [x \in Resource |-> IF x \in got THEN 1 ELSE 0]

\* Mutant: the label one below, which skips the last thing acquired.
Released_late(mode, side, x) ==
    LET got == Before(mode, side, x)
    IN  Holding({y \in got : \E z \in got : Turn[y] < Turn[z]})

(* What the error labels release when acquiring x fails.  The labels of    *)
(* the page pool mode unregister the memory model, which destroys the      *)
(* pool, and destroy the pool; and they free buffs, which the tx side      *)
(* never set.                                                              *)
Released(mode, side, x) ==
    LET got == Before(mode, side, x)
    IN  [y \in Resource |->
           CASE y = "pool" /\ y \in got -> IF "mem_model" \in got THEN 2 ELSE 1
             [] y = "buffs" /\ mode = "pp" /\ side = "tx" /\ "ring" \in got -> 1
             [] OTHER -> IF y \in got THEN 1 ELSE 0]

(* What is left when acquiring x fails: nothing, if the labels are right.  *)
Left(mode, side, x) ==
    [y \in Resource |-> Holding(Before(mode, side, x))[y] - Released(mode, side, x)[y]]

(* nfb_xctrl_destroy: unregistering the memory model destroys the pool.    *)
Destroyed(r, side) == [r EXCEPT ![side] = Nothing]
DestroyBoth == [s \in Sides |-> Nothing]

ChAt(l) == chan.pc = l

(* The call is over, or goes on with its next part.                        *)
ChReturn(c, ok) ==
    IF c.todo = <<>> THEN [c EXCEPT !.pc = "idle", !.ok = ok]
    ELSE [c EXCEPT !.pc = Head(c.todo), !.todo = Tail(c.todo), !.ok = ok]

-----------------------------------------------------------------------------
(* channel_start_pp, channel_start_xsk                                     *)

start_check ==
    /\ ChAt("start")
    /\ IF chan.running THEN /\ chan' = ChReturn(chan, FALSE)
                            /\ UNCHANGED napi
       ELSE /\ chan' = [chan EXCEPT !.pc = "alloc_rx"]
            /\ napi' = [rx |-> "added", tx |-> IF chan.mode = "xsk" THEN "added" ELSE "none"]
    /\ UNCHANGED <<ctl, held, thread, polling, isup>>

chan_alloc(side) ==
    /\ ChAt(IF side = "rx" THEN "alloc_rx" ELSE "alloc_tx")
    /\ held' = [held EXCEPT ![side] = Holding(Acquired(chan.mode, side))]
    /\ ctl' = [ctl EXCEPT ![side] = "open"]
    /\ chan' = [chan EXCEPT !.pc = IF side = "rx" THEN "alloc_tx" ELSE "start_rx"]
    /\ UNCHANGED <<napi, thread, polling, isup>>

(* The ctrl of the other side is destroyed, the NAPI instances deleted.    *)
chan_alloc_fail(side, x) ==
    /\ ChAt(IF side = "rx" THEN "alloc_rx" ELSE "alloc_tx")
    /\ <<chan.mode, side, x>> \in AllocFails
    /\ held' = [DestroyBoth EXCEPT ![side] = Left(chan.mode, side, x)]
    /\ ctl' = [s \in Sides |-> "none"]
    /\ napi' = [s \in Sides |-> "none"]
    /\ chan' = ChReturn(chan, FALSE)
    /\ UNCHANGED <<thread, polling, isup>>

chan_ctrl_start(side) ==
    /\ ChAt(IF side = "rx" THEN "start_rx" ELSE "start_tx")
    /\ ctl' = [ctl EXCEPT ![side] = "run"]
    /\ chan' = IF side = "rx" THEN [chan EXCEPT !.pc = "start_tx"]
               ELSE [chan EXCEPT !.pc = "thread_rx", !.xsk = chan.mode = "xsk"]
    /\ UNCHANGED <<held, napi, thread, polling, isup>>

(* A controller does not start, or the first kthread is not created.       *)
start_fail ==
    /\ chan.pc \in {"start_rx", "start_tx", "thread_rx"}
    /\ ctl' = [s \in Sides |-> "none"] /\ held' = DestroyBoth
    /\ napi' = [s \in Sides |-> "none"]
    /\ chan' = ChReturn(chan, FALSE)
    /\ UNCHANGED <<thread, polling, isup>>

create_thread_rx ==
    /\ ChAt("thread_rx")
    /\ thread' = thread \cup {"rx"}
    /\ napi' = [napi EXCEPT !.rx = "on"]
    /\ chan' = [chan EXCEPT !.pc = "thread_tx"]
    /\ UNCHANGED <<ctl, held, polling, isup>>

create_thread_tx ==
    /\ ChAt("thread_tx")
    /\ thread' = thread \cup {"tx"}
    /\ napi' = IF chan.xsk THEN [napi EXCEPT !.tx = "on"] ELSE napi
    /\ chan' = ChReturn([chan EXCEPT !.queue = TRUE, !.running = TRUE], TRUE)
    /\ UNCHANGED <<ctl, held, polling, isup>>

(* err_kthread_tx: the rx thread is collected, its NAPI disabled, which    *)
(* waits for a poll in progress; then as above.                            *)
create_thread_tx_fail ==
    /\ ChAt("thread_tx") /\ "rx" \notin polling
    /\ thread' = {}
    /\ ctl' = [s \in Sides |-> "none"] /\ held' = DestroyBoth
    /\ napi' = [s \in Sides |-> "none"]
    /\ chan' = ChReturn(chan, FALSE)
    /\ UNCHANGED <<polling, isup>>

-----------------------------------------------------------------------------
(* channel_stop                                                            *)

stop_check ==
    /\ ChAt("stop")
    /\ chan' = IF chan.running THEN [chan EXCEPT !.pc = "stop_rx"] ELSE ChReturn(chan, FALSE)
    /\ UNCHANGED <<ctl, held, napi, thread, polling, isup>>

\* Mutant: NAPI is not waited for.
stop_rx_no_wait ==
    /\ ChAt("stop_rx")
    /\ thread' = thread \ {"rx"}
    /\ napi' = [napi EXCEPT !.rx = "none"]
    /\ chan' = [chan EXCEPT !.pc = "stop_tx", !.queue = FALSE]
    /\ UNCHANGED <<ctl, held, polling, isup>>

(* The thread is collected, NAPI disabled (waiting for a poll) and         *)
(* deleted; the transmit queue is stopped.                                 *)
stop_rx ==
    /\ ChAt("stop_rx") /\ "rx" \notin polling
    /\ thread' = thread \ {"rx"}
    /\ napi' = [napi EXCEPT !.rx = "none"]
    /\ chan' = [chan EXCEPT !.pc = "stop_tx", !.queue = FALSE]
    /\ UNCHANGED <<ctl, held, polling, isup>>

stop_tx ==
    /\ ChAt("stop_tx") /\ (chan.xsk => "tx" \notin polling)
    /\ thread' = thread \ {"tx"}
    /\ napi' = IF chan.xsk THEN [napi EXCEPT !.tx = "none"] ELSE napi
    /\ chan' = [chan EXCEPT !.pc = "destroy"]
    /\ UNCHANGED <<ctl, held, polling, isup>>

stop_destroy ==
    /\ ChAt("destroy")
    /\ ctl' = [s \in Sides |-> "none"]
    /\ held' = Destroyed(Destroyed(held, "rx"), "tx")
    /\ chan' = ChReturn([chan EXCEPT !.running = FALSE], TRUE)
    /\ UNCHANGED <<napi, thread, polling, isup>>

-----------------------------------------------------------------------------
(* The calls                                                               *)

xdp_open ==
    /\ ChAt("idle") /\ ~isup
    /\ isup' = TRUE
    /\ chan' = [chan EXCEPT !.pc = "start", !.mode = "pp"]
    /\ UNCHANGED <<ctl, held, napi, thread, polling>>

xdp_stop ==
    /\ ChAt("idle") /\ isup
    /\ isup' = FALSE
    /\ chan' = [chan EXCEPT !.pc = "stop", !.queue = FALSE]
    /\ UNCHANGED <<ctl, held, napi, thread, polling>>

(* A socket binds: the channel is stopped and started in AF_XDP mode.      *)
setup_xsk_pool(p) ==
    /\ ChAt("idle") /\ isup /\ ~chan.bound
    /\ chan' = [chan EXCEPT !.pc = "stop", !.pool = p, !.mode = "xsk", !.todo = <<"start", "bind">>]
    /\ UNCHANGED <<ctl, held, napi, thread, polling, isup>>

(* A socket whose channel did not start is not bound.  The pointer stays.  *)
setup_bind ==
    /\ ChAt("bind")
    /\ chan' = ChReturn([chan EXCEPT !.bound = chan.ok], chan.ok)
    /\ UNCHANGED <<ctl, held, napi, thread, polling, isup>>

(* The socket closes, also after the interface did: it is started in page  *)
(* pool mode, whether or not it ran.                                       *)
teardown_xsk_pool ==
    /\ ChAt("idle") /\ chan.bound
    /\ chan' = [chan EXCEPT !.pc = "stop", !.mode = "pp", !.todo = <<"start", "unpool">>]
    /\ UNCHANGED <<ctl, held, napi, thread, polling, isup>>

teardown_unpool ==
    /\ ChAt("unpool")
    /\ chan' = ChReturn([chan EXCEPT !.pool = NoPool, !.bound = FALSE], chan.ok)
    /\ UNCHANGED <<ctl, held, napi, thread, polling, isup>>

(* A NAPI poll: scheduled by the thread or by a wakeup while it is on.     *)
poll_begin(side) ==
    /\ napi[side] = "on" /\ side \notin polling
    /\ polling' = polling \cup {side}
    /\ UNCHANGED <<chan, ctl, held, napi, thread, isup>>

poll_end(side) ==
    /\ side \in polling
    /\ polling' = polling \ {side}
    /\ UNCHANGED <<chan, ctl, held, napi, thread, isup>>

-----------------------------------------------------------------------------
ChannelInit ==
    /\ chan = [running |-> FALSE, xsk |-> FALSE, pool |-> NoPool, bound |-> FALSE, queue |-> FALSE,
               pc |-> "idle", todo |-> <<>>, mode |-> "pp", ok |-> TRUE]
    /\ ctl = [s \in Sides |-> "none"] /\ held = DestroyBoth
    /\ napi = [s \in Sides |-> "none"]
    /\ thread = {} /\ polling = {} /\ isup = FALSE

ChannelNext ==
    \/ start_check \/ start_fail
    \/ create_thread_rx \/ create_thread_tx \/ create_thread_tx_fail
    \/ stop_check \/ stop_rx \/ stop_tx \/ stop_destroy
    \/ xdp_open \/ xdp_stop \/ teardown_xsk_pool \/ teardown_unpool \/ setup_bind
    \/ \E p \in Pool : setup_xsk_pool(p)
    \/ \E side \in Sides :
          \/ chan_alloc(side) \/ chan_ctrl_start(side)
          \/ \E x \in Resource : chan_alloc_fail(side, x)
          \/ poll_begin(side) \/ poll_end(side)

ChannelSpec == ChannelInit /\ [][ChannelNext]_chVars

-----------------------------------------------------------------------------
(* Properties                                                              *)

(* A NAPI poll in progress finds both controllers there and started: it    *)
(* dereferences rxq->ctrl and txq->ctrl, which channel_stop and the error  *)
(* paths of channel_start free.                                            *)
XdpPollAlive == polling # {} => \A s \in Sides : ctl[s] = "run"

(* The failures whose labels release what was acquired: all but that of    *)
(* nc_ndp_ctrl_open on the receive side of the page pool mode, and those   *)
(* on its transmit side after the ring.                                    *)
CleanFails ==
    {f \in {"pp", "xsk"} \X Sides \X Resource :
        /\ f[3] \in Acquired(f[1], f[2])
        /\ f[1] = "pp" => f[3] \in IF f[2] = "rx" THEN Resource \ {"comp"} ELSE {"ctrl", "ring"}}

(* A channel that does not run keeps nothing: whatever allocation,         *)
(* controller or thread failed on the way, all that was acquired has been  *)
(* released once, and the channel can be started in either mode.           *)
XdpUnwound ==
    (ChAt("idle") /\ ~chan.running)
        => held = DestroyBoth /\ thread = {} /\ ~chan.queue /\ \A s \in Sides : napi[s] = "none"
=============================================================================
