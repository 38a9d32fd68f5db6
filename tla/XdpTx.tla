------------------------------- MODULE XdpTx -------------------------------
(***************************************************************************)
(* The transmit queue of an XDP channel.  Frames come from the network     *)
(* stack (skb), from a redirect (frame), from XDP_TX in page pool mode     *)
(* (pp), from an AF_XDP socket (xsk) and from XDP_TX in AF_XDP mode        *)
(* (rexmit).  Each part of a frame takes a type 2 descriptor; a type 0     *)
(* descriptor goes before it when the upper address bits change.  Every    *)
(* operation runs under tx_lock and is one step.                           *)
(*                                                                         *)
(* The card (external) walks the ring and reports hdp in the update        *)
(* buffer.                                                                 *)
(***************************************************************************)
EXTENDS Integers, FiniteSets, Sequences

LOCAL INSTANCE SequencesExt

CONSTANTS
    Frame,
    NoFrame,
    XdpWorlds,      \* set of [Frame -> [kind, at]]; at: upper address of each part
    NbDesc,         \* descriptors in the ring, a power of two
    Budget,         \* bound: NAPI budget
    FragMapFails,   \* mapping a fragment for DMA fails "never", where the parts
                    \* before it needed no type 0 descriptor ("same"), or "any"
    MidPacket,      \* whether the card may report hdp in the middle of a packet
    StopTries       \* bound: attempts to stop before the stop is forced

ASSUME XdpConstants == NbDesc > 0 /\ Budget > 0 /\ StopTries > 0

VARIABLES
    xframe,   \* what the frames are; never changes
    xst,      \* "run", "stop" or "closed"
    xtry,     \* stop attempts
    xc,       \* struct nc_ndp_ctrl: sdp, hdp, last_upper_addr
    descs,    \* desc_buffer_virt
    bufs,     \* tx.buffers
    xheld,    \* parts of frames whose memory the driver keeps
    xmapped,  \* parts mapped for DMA
    card      \* sdp register, position, reported hdp, upper address

xdpVars == <<xframe, xst, xtry, xc, descs, bufs, xheld, xmapped, card>>

Slot == 0 .. NbDesc - 1
Incr(i) == (i + 1) % NbDesc
Between(a, b) == {i \in Slot : (i - a) % NbDesc < (b - a) % NbDesc}
FreeDesc == (xc.hdp - xc.sdp - 1) % NbDesc

NoDesc == [t |-> 0, upper |-> "none", part |-> <<NoFrame, 0>>, next |-> FALSE]
NoBuf == [type |-> "bug", part |-> <<NoFrame, 0>>]

NParts(f) == Len(xframe[f].at)
Parts(f) == [k \in 1 .. NParts(f) |-> <<f, k>>]
PartsOf(f) == {<<f, k>> : k \in 1 .. NParts(f)}
Upper(p) == xframe[p[1]].at[p[2]]

(* A frame the driver may be given: its memory is not in use.              *)
Available(f) == PartsOf(f) \cap (xheld \cup xmapped) = {}

-----------------------------------------------------------------------------
(* What the entry of a part in tx.buffers says, by the frame's kind: only  *)
(* the head of an skb or a frame carries the pointer, a later part of a    *)
(* page pool frame needs nothing.                                          *)
BufOf(p) ==
    LET kind == xframe[p[1]].kind
    IN  IF kind = "pp" /\ p[2] > 1 THEN [type |-> "type0", part |-> p]
        ELSE [type |-> kind, part |-> p]

\* Mutant: the upper address is remembered, the descriptor is not written.
Enqueue_no_desc0(r, p) ==
    [c |-> [r.c EXCEPT !.sdp = Incr(r.c.sdp), !.last_upper_addr = Upper(p)],
     d |-> [r.d EXCEPT ![r.c.sdp] = [t |-> 2, upper |-> Upper(p), part |-> p,
                                     next |-> p[2] < NParts(p[1])]],
     b |-> [r.b EXCEPT ![r.c.sdp] = BufOf(p)]]

(* One part: type 0 descriptor when the upper address differs, then type 2.*)
Enqueue(r, p) ==
    LET new == r.c.last_upper_addr # Upper(p)
        at == IF new THEN Incr(r.c.sdp) ELSE r.c.sdp
        d0 == IF new THEN [r.d EXCEPT ![r.c.sdp] = [NoDesc EXCEPT !.upper = Upper(p)]] ELSE r.d
        b0 == IF new THEN [r.b EXCEPT ![r.c.sdp] = [type |-> "type0", part |-> p]] ELSE r.b
    IN  [c |-> [r.c EXCEPT !.sdp = Incr(at), !.last_upper_addr = Upper(p)],
         d |-> [d0 EXCEPT ![at] = [t |-> 2, upper |-> Upper(p), part |-> p,
                                   next |-> p[2] < NParts(p[1])]],
         b |-> [b0 EXCEPT ![at] = BufOf(p)]]

EnqueueAll(ps) == FoldLeft(Enqueue, [c |-> xc, d |-> descs, b |-> bufs], ps)

Kept(f) == xframe[f].kind \in {"skb", "frame"}

(* Mapped by dma_map_single; the other kinds are mapped by their pool.     *)
MapParts(ps) == {p \in Range(ps) : Kept(p[1])}

Submit(ps, flush) ==
    LET r == EnqueueAll(ps)
    IN  /\ xc' = r.c /\ descs' = r.d /\ bufs' = r.b
        /\ xheld' = xheld \cup Range(ps)
        /\ xmapped' = xmapped \cup MapParts(ps)
        /\ card' = IF flush THEN [card EXCEPT !.sdp = r.c.sdp] ELSE card

-----------------------------------------------------------------------------
(* nfb_xctrl_tx_submit_frame_needs_lock, and its like in start_xmit and    *)
(* rexmit_xsk: refused (and freed by the caller) when two descriptors for  *)
(* each part are not free.                                                 *)
Xmit(f, flush) ==
    /\ xst = "run" /\ Available(f)
    /\ FreeDesc >= 2 * NParts(f)
    /\ Submit(Parts(f), flush)
    /\ UNCHANGED <<xframe, xst, xtry>>

(* More packets may follow (netdev_xmit_more), or a flush be left to the   *)
(* caller of ndo_xdp_xmit; XDP_TX leaves it to the next poll.              *)
start_xmit(f, flush) == xframe[f].kind = "skb" /\ Xmit(f, flush)
xdp_xmit(f, flush) == xframe[f].kind = "frame" /\ Xmit(f, flush)
rexmit_pp(f) == xframe[f].kind = "pp" /\ Xmit(f, FALSE)
rexmit_xsk(f) == xframe[f].kind = "rexmit" /\ Xmit(f, FALSE)

(* Fragment k cannot be mapped: sdp is left where it was and the entries   *)
(* behind it are unmapped, as many as there are mapped parts.  The upper   *)
(* address stays remembered.                                               *)
xmit_unmap(f, k) ==
    /\ FragMapFails # "never" /\ xst = "run" /\ Available(f) /\ Kept(f)
    /\ k \in 2 .. NParts(f) /\ FreeDesc >= 2 * NParts(f)
    /\ LET r == EnqueueAll(SubSeq(Parts(f), 1, k - 1))
           seen == {(xc.sdp + j) % NbDesc : j \in 0 .. k - 2}
           unmapped == {r.b[i].part : i \in {i \in seen : r.b[i].type = xframe[f].kind}}
       IN  /\ FragMapFails = "any" \/ r.c.last_upper_addr = xc.last_upper_addr
           /\ xc' = [xc EXCEPT !.last_upper_addr = r.c.last_upper_addr]
           /\ descs' = r.d /\ bufs' = r.b
           /\ xmapped' = xmapped \cup (Range(SubSeq(Parts(f), 1, k - 1)) \ unmapped)
    /\ UNCHANGED <<xframe, xst, xtry, xheld, card>>

(* nfb_xctrl_napi_poll_tx_xsk: a batch from the socket, when there is room *)
(* for a full budget.                                                      *)
napi_poll_tx_xsk(fs) ==
    /\ xst = "run" /\ \A f \in Range(fs) : xframe[f].kind = "xsk" /\ Available(f)
    /\ FreeDesc >= 2 * Budget
    /\ Submit(FlattenSeq([i \in 1 .. Len(fs) |-> Parts(fs[i])]), TRUE)
    /\ UNCHANGED <<xframe, xst, xtry>>

-----------------------------------------------------------------------------
(* What releasing an entry of tx.buffers frees and unmaps.                 *)
Freed(b) ==
    CASE b.type \in {"skb", "frame", "pp"} -> IF b.part[2] = 1 THEN PartsOf(b.part[1]) ELSE {}
      [] b.type \in {"xsk", "rexmit"} -> {b.part}
      [] OTHER -> {}
Unmapped(b) == IF b.type \in {"skb", "frame"} THEN {b.part} ELSE {}

(* Everything from hdp to the new hdp is released.                         *)
tx_free_buffers(new) ==
    LET done == Between(xc.hdp, new)
    IN  /\ xheld' = xheld \ UNION {Freed(bufs[i]) : i \in done}
        /\ xmapped' = xmapped \ UNION {Unmapped(bufs[i]) : i \in done}
        /\ bufs' = [i \in Slot |-> IF i \in done THEN NoBuf ELSE bufs[i]]

\* Mutant: up to what was submitted, whatever the card reported.
napi_poll_free_all ==
    /\ xst = "run"
    /\ tx_free_buffers(xc.sdp)
    /\ xc' = [xc EXCEPT !.hdp = xc.sdp]
    /\ card' = [card EXCEPT !.sdp = xc.sdp]
    /\ UNCHANGED <<xframe, xst, xtry, descs>>

(* The receive polls flush what XDP_TX submitted and release what the card *)
(* reported.                                                               *)
napi_poll_free ==
    /\ xst = "run"
    /\ tx_free_buffers(card.told)
    /\ xc' = [xc EXCEPT !.hdp = card.told]
    /\ card' = [card EXCEPT !.sdp = xc.sdp]
    /\ UNCHANGED <<xframe, xst, xtry, descs>>

-----------------------------------------------------------------------------
(* nfb_xctrl_destroy: the queue is stopped, first in good order, then by   *)
(* force; each attempt re-reads hdp.  Then hdp is set to sdp and the       *)
(* buffers from hdp to sdp are released.                                   *)
xctrl_stop ==
    /\ xst \in {"run", "stop"} /\ xtry < StopTries
    /\ LET hdp == card.told
           idle == hdp = xc.sdp /\ card.at = card.sdp
           c == [xc EXCEPT !.hdp = IF idle THEN xc.sdp ELSE hdp]
       IN  /\ xc' = c
           /\ xst' = IF idle THEN "destroy" ELSE "stop"
           /\ xtry' = xtry + 1
    /\ UNCHANGED <<xframe, descs, bufs, xheld, xmapped, card>>

xctrl_stop_force ==
    /\ xst = "stop" /\ xtry = StopTries
    /\ xst' = "destroy"
    /\ xc' = [xc EXCEPT !.hdp = card.told]
    /\ card' = [card EXCEPT !.sdp = card.at]
    /\ UNCHANGED <<xframe, xtry, descs, bufs, xheld, xmapped>>

xctrl_destroy ==
    /\ xst = "destroy"
    /\ xc' = [xc EXCEPT !.hdp = xc.sdp]
    /\ LET done == Between(xc'.hdp, xc.sdp)
       IN  /\ xheld' = xheld \ UNION {Freed(bufs[i]) : i \in done}
           /\ xmapped' = xmapped \ UNION {Unmapped(bufs[i]) : i \in done}
    /\ xst' = "closed"
    /\ UNCHANGED <<xframe, xtry, descs, bufs, card>>

NewCtrl == [sdp |-> 0, hdp |-> 0, last_upper_addr |-> "none"]
NewCard == [sdp |-> 0, at |-> 0, told |-> 0, upper |-> "none"]

(* nfb_xctrl_alloc and nfb_xctrl_start: a new ring.                        *)
xctrl_start ==
    /\ xst = "closed"
    /\ xst' = "run" /\ xtry' = 0
    /\ xc' = NewCtrl /\ card' = NewCard
    /\ descs' = [i \in Slot |-> NoDesc]
    /\ bufs' = [i \in Slot |-> [NoBuf EXCEPT !.type = "type0"]]
    /\ UNCHANGED <<xframe, xheld, xmapped>>

-----------------------------------------------------------------------------
(* The card (external): it takes the next descriptor, and reports hdp.     *)
card_step ==
    /\ card.at # card.sdp
    /\ card' = [card EXCEPT !.at = Incr(@),
                            !.upper = IF descs[card.at].t = 0 THEN descs[card.at].upper ELSE @]
    /\ UNCHANGED <<xframe, xst, xtry, xc, descs, bufs, xheld, xmapped>>

card_update ==
    /\ card.told # card.at
    /\ MidPacket \/ (descs[(card.at - 1) % NbDesc].t = 2 /\ ~descs[(card.at - 1) % NbDesc].next)
    /\ card' = [card EXCEPT !.told = card.at]
    /\ UNCHANGED <<xframe, xst, xtry, xc, descs, bufs, xheld, xmapped>>

-----------------------------------------------------------------------------
XdpInit ==
    /\ xframe \in XdpWorlds
    /\ xst = "run" /\ xtry = 0
    /\ xc = NewCtrl /\ card = NewCard
    /\ descs = [i \in Slot |-> NoDesc]
    /\ bufs = [i \in Slot |-> [NoBuf EXCEPT !.type = "type0"]]
    /\ xheld = {} /\ xmapped = {}

XdpNext ==
    \/ \E f \in Frame :
          \/ \E flush \in BOOLEAN : start_xmit(f, flush) \/ xdp_xmit(f, flush)
          \/ rexmit_pp(f) \/ rexmit_xsk(f)
          \/ \E k \in 2 .. NParts(f) : xmit_unmap(f, k)
    \/ \E fs \in {<<f>> : f \in Frame} \cup {<<f, g>> : f, g \in Frame} :
          Len(fs) <= Budget /\ IsInjective(fs) /\ napi_poll_tx_xsk(fs)
    \/ napi_poll_free
    \/ xctrl_stop \/ xctrl_stop_force \/ xctrl_destroy \/ xctrl_start
    \/ card_step \/ card_update

XdpSpec == XdpInit /\ [][XdpNext]_xdpVars

-----------------------------------------------------------------------------
(* Properties                                                              *)

Pending == Between(card.at, card.sdp)

(* The card reads every part from where it lies: when it comes to a type 2 *)
(* descriptor, the last type 0 descriptor it took is the one with the      *)
(* part's upper address (ctrl->c.last_upper_addr is the driver's memory of *)
(* it, over restarts and wraps of the ring).                               *)
XdpFetch ==
    (card.at # card.sdp /\ descs[card.at].t = 2) => card.upper = descs[card.at].upper

(* The memory of every part the card has yet to read is still the          *)
(* driver's and still mapped, and no entry that waits for its release has  *)
(* been released before, which would hit the BUG() in                      *)
(* nfb_xctrl_tx_free_buffers.                                              *)
XdpHeld ==
    /\ \A i \in Pending : descs[i].t = 2 =>
          /\ descs[i].part \in xheld
          /\ Kept(descs[i].part[1]) => descs[i].part \in xmapped
    /\ xst = "run" => \A i \in Between(xc.hdp, xc.sdp) : bufs[i].type # "bug"

(* A destroyed queue keeps no buffer: all that were enqueued are freed.    *)
XdpAllFreed == xst = "closed" => xheld = {} /\ xmapped = {}
=============================================================================
