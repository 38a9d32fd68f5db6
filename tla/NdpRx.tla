------------------------------- MODULE NdpRx -------------------------------
(***************************************************************************)
(* The receive path of one started NDP queue, end to end: the card, the    *)
(* memory it writes, the controller half of the kernel driver that posts   *)
(* buffers to it, and the burst functions of libnfb that an application    *)
(* calls.  There is one subscriber; what several of them do to each other  *)
(* is the subject of NdpChannel.                                           *)
(*                                                                         *)
(*   mode "sze"        protocol 1: one ring of 8-byte words, the frame     *)
(*                     header in front of its data                         *)
(*   mode "medusa"     protocol 2: a descriptor ring, a header ring and    *)
(*                     one data buffer for every header                    *)
(*   mode "calypte"    protocol 3: a header ring with a valid bit and a    *)
(*                     ring of data blocks                                 *)
(*   mode "userspace"  protocol 3 with NDP_CHANNEL_FLAG_USERSPACE: the     *)
(*                     library drives the registers itself                 *)
(*                                                                         *)
(* A burst function and the synchronisation it calls are one action.  The  *)
(* card only ever adds frames, so a step of it in the middle of a burst    *)
(* has the effect of a step before or after it.  The library, controller   *)
(* and card keep their fields in the records q, c and card.                *)
(***************************************************************************)
EXTENDS Integers, Sequences, FiniteSets, FiniteSetsExt, SequencesExt

CONSTANTS
    Sizes,         \* mode -> headers, descriptors, blocks or words in a ring
    Burst,         \* NDP_CTRL_RX_DESC_BURST
    AccMax,        \* headers released before userspace mode writes a register
    Lens,          \* mode -> lengths of a frame in blocks or words
    Wants,         \* the burst sizes an application asks for
    Upper(_),      \* buffer -> upper address bits, as set by descriptor type 0
    Offset,        \* initial_offset of a protocol 1 ring
    Modes,         \* the kinds of queue
    GetAgain,      \* the kinds whose user gets a second burst before a put
    DirtyRestart   \* the kinds whose user restarts a queue that is not clean

ASSUME RxConstants ==
    /\ Modes \subseteq {"sze", "medusa", "calypte", "userspace"}
    /\ GetAgain \subseteq Modes /\ DirtyRestart \subseteq Modes
    /\ Sizes \in [Modes -> Nat] /\ Wants \subseteq Nat \ {0}
    /\ \A m \in Modes : Burst \in 1..Sizes[m] /\ AccMax \in 1..Sizes[m]
                         /\ Lens[m] \subseteq 1..Sizes[m] /\ Offset \in 0..Sizes[m]-1

(* Descriptor rings hold 512 entries or more and a burst is 64; data rings *)
(* are much longer than the frames libnfb keeps back.                      *)
ASSUME RxRoom ==
    /\ "medusa" \in Modes => Sizes["medusa"] >= 2 * Burst + 2
    /\ "sze" \in Modes => 
         \A n \in Lens["sze"] : Sizes["sze"] \div 2 + n < Sizes["sze"]
    /\ "userspace" \in Modes => 
         \A n \in Lens["userspace"] : AccMax * n < Sizes["userspace"]

VARIABLES mode, q, c, card, desc, hdr, data, held, out

vars == <<mode, q, c, card, desc, hdr, data, held, out>>

Size == Sizes[mode]
Mask(x) == x % Size
Dist(a, b) == Mask(a - b)
Pos == 0..Size-1

(* Frames are numbered, so that any two that are in the ring at the same   *)
(* time differ; protocol 1 numbers them by the word they begin at.         *)
Numbers == 2 * Size
Frame == 0..Numbers-1
None == -1               \* memory no frame was written to
NoUpper == -1            \* last_upper_addr = ~0
NoHeader == [frame |-> None, len |-> 0, ptr |-> 0, free |-> 0, valid |-> 0]

-----------------------------------------------------------------------------
(* Controller: posting receive buffers (protocol 2)                        *)

\* Mutant: the buffer for which the upper address was set is passed over.
FillDescSkips(s) ==
    LET b == s.c.mps
        t == IF Upper(b) # s.c.upper THEN 0 ELSE 2 IN
    [c |-> [s.c EXCEPT !.upper = Upper(b), !.mps = Mask(b + 1), !.sdp = Mask(@ + 1)],
     desc |-> [s.desc EXCEPT ![s.c.sdp] = [type |-> t, buf |-> b]]]

(* One round of the loop: a descriptor of type 0 when the upper part of    *)
(* the address changes, else the buffer itself.                            *)
FillDesc(s) ==
    LET b == s.c.mps IN
    IF Upper(b) # s.c.upper
    THEN [c |-> [s.c EXCEPT !.upper = Upper(b), !.sdp = Mask(@ + 1)],
          desc |-> [s.desc EXCEPT ![s.c.sdp] = [type |-> 0, buf |-> b]]]
    ELSE [c |-> [s.c EXCEPT !.mps = Mask(b + 1), !.sdp = Mask(@ + 1)],
          desc |-> [s.desc EXCEPT ![s.c.sdp] = [type |-> 2, buf |-> b]]]

mps_fill_rx_descs(s, count) ==
    FoldLeft(LAMBDA t, i : FillDesc(t), s, [i \in 1..count |-> i])

\* Mutant: a frame that used one descriptor is taken for one that used two.
FreeDescTwoEach(cc, count) == 2 * count

(* Descriptors the card used for the count frames behind shp: 1 or 2 each. *)
FreeDesc(cc, count) ==
    MapThenSumSet(LAMBDA i : hdr[Mask(cc.shp + i)].free, 0..count-1)

(* What a release of the headers up to ptr does to the controller, the     *)
(* descriptor ring and the two registers of the card.                      *)
medusa_set_swptr(cc, ptr) ==
    LET free == cc.free + FreeDesc(cc, Dist(ptr, cc.shp))
        s == mps_fill_rx_descs(
                 [c |-> [cc EXCEPT !.shp = ptr, !.free = free % Burst], desc |-> desc],
                 (free \div Burst) * Burst)
    IN [c |-> s.c, desc |-> s.desc, flush |-> free >= Burst]

Blocks(cc, count) ==
    MapThenSumSet(LAMBDA i : hdr[Mask(cc.shp + i)].len, 0..count-1)

\* Mutant: a data block is released for each header, whatever its length.
calypte_set_swptr_by_header(cc, ptr) ==
    [c |-> [cc EXCEPT !.shp = ptr, !.sdp = ptr], desc |-> desc, flush |-> ptr # cc.shp]

calypte_set_swptr(cc, ptr) ==
    LET count == Dist(ptr, cc.shp) IN
    [c |-> [cc EXCEPT !.shp = ptr, !.sdp = Mask(@ + Blocks(cc, count))],
     desc |-> desc, flush |-> count > 0]

(* The same release by the library: a register write for every AccMax      *)
(* headers.  Field free holds uspace_acc.                                  *)
userspace_set_swptr(cc, ptr) ==
    LET count == Dist(ptr, cc.shp)
        acc == cc.free + count IN
    [c |-> [cc EXCEPT !.shp = ptr, !.sdp = Mask(@ + Blocks(cc, count)),
                      !.free = IF count > 0 /\ acc >= AccMax THEN 0 ELSE acc],
     desc |-> desc, flush |-> count > 0 /\ acc >= AccMax]

sze_set_swptr(cc, ptr) ==
    [c |-> [cc EXCEPT !.shp = Mask(ptr - Offset)], desc |-> desc, flush |-> TRUE]

set_swptr(cc, ptr) ==
    CASE mode = "medusa"    -> medusa_set_swptr(cc, ptr)
      [] mode = "calypte"   -> calypte_set_swptr(cc, ptr)
      [] mode = "userspace" -> userspace_set_swptr(cc, ptr)
      [] mode = "sze"       -> sze_set_swptr(cc, ptr)

-----------------------------------------------------------------------------
(* Controller: what the card has received                                  *)

Flip(v, p) == IF p >= Size THEN 1 - v ELSE v

(* Headers behind h whose valid bit is the expected one; the expected bit  *)
(* changes when the scan passes the end of the ring.                       *)
Scan(h, v) ==
    Max({k \in 0..Size : \A j \in 0..k-1 : hdr[Mask(h + j)].valid = Flip(v, h + j)})

(* Protocols 1 and 2 read the position the card last wrote to the update   *)
(* buffer, at any time up to the present; it is the end of some frame.     *)
Reported(cc) ==
    CASE mode = "medusa" -> {Mask(cc.hhp + n) : n \in 0..Dist(card.hhp, cc.hhp)}
      [] mode = "sze"    -> {Mask(p + Offset) :
                               p \in {p \in Pos : Dist(p, cc.hhp - Offset) <=
                                                  Dist(card.hhp, cc.hhp - Offset)
                                          /\ (p = card.hhp \/ hdr[Mask(p + Offset)].len > 0)}}
      [] OTHER           -> {Mask(cc.hhp + Scan(cc.hhp, IF mode = "calypte" THEN cc.flag
                                                                          ELSE q.flag))}

get_hwptr(cc, h) ==
    [cc EXCEPT !.hhp = h,
               !.flag = IF mode = "calypte" THEN Flip(@, cc.hhp + Scan(cc.hhp, @)) ELSE @]

(* The memory that belongs to the frame of header p.                       *)
Start(p) == IF mode \in {"medusa", "sze"} THEN p ELSE hdr[p].ptr
Extent(p) == {Mask(Start(p) + j) : j \in 0..hdr[p].len-1}

(* What is put back is no frame any more: all that is kept of it in memory *)
(* is the valid bit, so that a stale read shows.                           *)
Forget(sw) ==
    LET old == {Mask(q.sw + i) : i \in 0..Dist(sw, q.sw)-1}
        at == UNION {Extent(p) : p \in old} IN
    /\ hdr' = [p \in Pos |-> IF p \in old THEN [NoHeader EXCEPT !.valid = hdr[p].valid]
                                           ELSE hdr[p]]
    /\ data' = [p \in Pos |-> IF p \in at THEN None ELSE data[p]]

(* ndp_channel_rxsync for a single subscriber: release up to sw, then      *)
(* learn that the card is at h, one of Learned(sw).                        *)
Pushed(sw) == IF sw # q.sw THEN set_swptr(c, sw) ELSE [c |-> c, desc |-> desc, flush |-> FALSE]
Learned(sw) == Reported(Pushed(sw).c)

rxsync(sw, h) ==
    LET s == Pushed(sw) IN
    /\ desc' = s.desc
    /\ card' = IF s.flush THEN [card EXCEPT !.sdp = s.c.sdp, !.shp = s.c.shp] ELSE card
    /\ Forget(sw)
    /\ c' = get_hwptr(s.c, h)

NoSync == UNCHANGED <<c, desc, card, hdr, data>>

-----------------------------------------------------------------------------
(* Library: ndp_rx_burst_get                                               *)

(* An application that may not get a second burst puts the first one back. *)
MayGet == card.on /\ (held = {} \/ mode \in GetAgain)

Hand(frames, extents) ==
    /\ out' = frames
    /\ held' = held \cup {[frame |-> frames[i], at |-> extents[i]] : i \in 1..Len(frames)}

Keep == UNCHANGED <<held, out>>

rx_lock_v1(h) ==
    [q EXCEPT !.rhp = q.sw + q.off,
              !.avail = Dist(h, q.sw + q.off), !.total = Dist(h, q.sw)]

rx_lock_v2(h) ==
    [q EXCEPT !.avail = Dist(h, q.rhp), !.rhp = IF @ >= Size THEN @ - Size ELSE @]

rx_lock_v3(h) == [q EXCEPT !.avail = Dist(h, q.rhp)]

(* One round of the loop over a burst.  A header that is malformed or ends *)
(* behind the data makes the library give up.                              *)
ReadFrame(l) ==
    LET p == Mask(l.rhp)
        n == hdr[p].len IN
    IF l.avail = 0 THEN q' = l /\ Keep
    ELSE IF n = 0 \/ n > l.avail THEN q' = l /\ Hand(<<None>>, <<{}>>)
    ELSE /\ q' = [l EXCEPT !.rhp = @ + n, !.off = @ + n, !.avail = @ - n]
         /\ Hand(<<data[p]>>, <<Extent(p)>>)

(* A burst of n frames runs that round n times.                            *)
burst_get_v1 ==
    /\ mode = "sze" /\ MayGet
    /\ IF q.avail = 0 THEN \E h \in Learned(q.sw) : rxsync(q.sw, h) /\ ReadFrame(rx_lock_v1(h))
                      ELSE ReadFrame(q) /\ NoSync
    /\ UNCHANGED mode

(* Packets the loop fills: all of them, or, with a valid bit, those before *)
(* the first header that does not look valid.                              *)
Filled(count) ==
    IF mode = "medusa" THEN count
    ELSE Max({k \in 0..count :
                \A j \in 0..k-1 : hdr[Mask(q.rhp + j)].valid = Flip(q.flag, q.rhp + j)})

ReadBurst(l, count) ==
    LET n == Filled(count)
        slot(i) == Mask(q.rhp + i - 1) IN
    /\ q' = [l EXCEPT !.avail = @ - count,
                      !.rhp = IF mode = "medusa" THEN @ + count ELSE Mask(@ + count)]
    /\ IF count = 0 THEN Keep
       ELSE Hand([i \in 1..count |-> IF i <= n THEN data[Start(slot(i))] ELSE None],
                 [i \in 1..count |-> IF i <= n THEN Extent(slot(i)) ELSE {}])

burst_get(want) ==
    /\ mode # "sze" /\ MayGet
    /\ LET Locked(h) ==
             LET l == IF mode = "medusa" THEN rx_lock_v2(h) ELSE rx_lock_v3(h)
             IN ReadBurst(l, IF l.avail < want THEN l.avail ELSE want) IN
       IF q.avail < want THEN \E h \in Learned(q.sw) : rxsync(q.sw, h) /\ Locked(h)
                         ELSE ReadBurst(q, want) /\ NoSync
    /\ UNCHANGED mode

-----------------------------------------------------------------------------
(* Library: ndp_rx_burst_put                                               *)

Released == held' = {} /\ out' = <<>> /\ UNCHANGED mode

(* Protocol 1 keeps what was read until it is more than half of the ring.  *)
burst_put_v1 ==
    /\ mode = "sze" /\ card.on
    /\ LET n == q.total - q.avail
           sw == Mask(q.sw + n) IN
       IF n > Size \div 2
       THEN (\E h \in Learned(sw) : rxsync(sw, h)) /\ q' = [q EXCEPT !.sw = sw, !.total = @ - n, !.off = 0]
       ELSE UNCHANGED q /\ NoSync
    /\ Released

(* The valid flag changes when the released position passes the end of the *)
(* ring.                                                                   *)
rx_unlock(sw) ==
    q' = [q EXCEPT !.sw = sw,
                   !.flag = IF mode # "medusa" /\ sw < q.sw THEN 1 - @ ELSE @]

burst_put ==
    /\ mode # "sze" /\ card.on
    /\ LET sw == Mask(q.rhp) IN (\E h \in Learned(sw) : rxsync(sw, h)) /\ rx_unlock(sw)
    /\ Released

-----------------------------------------------------------------------------
(* Starting and stopping the queue                                         *)

NewCtrl == [shp |-> 0, hhp |-> 0, sdp |-> 0, free |-> 0, mps |-> 0, upper |-> NoUpper, flag |-> 1]

NewQueue == [rhp |-> 0, avail |-> 0, flag |-> 1, sw |-> 0, total |-> 0, off |-> 0]

(* ndp_close_queue and ndp_open_rx_queue: a new struct nc_ndp_queue.       *)
queue_reopen ==
    /\ ~card.on
    /\ q' = NewQueue
    /\ c' = IF mode = "userspace" THEN NewCtrl ELSE c
    /\ UNCHANGED <<mode, card, desc, hdr, data, held, out>>

(* What the library does not reset when a queue is started again, and what *)
(* therefore has to be in its first state for a restart to work.           *)
Clean ==
    CASE mode = "medusa"    -> q.avail = 0
      [] mode = "calypte"   -> q.avail = 0 /\ q.flag = 1
      [] mode = "userspace" -> q.avail = 0 /\ q.flag = 1 /\ q.rhp = 0
                                 /\ c.shp = 0 /\ c.hhp = 0 /\ c.sdp = 0
      [] mode = "sze"       -> q.off = 0

(* Nothing that was received before a start is a frame of this run.  The   *)
(* valid bits are cleared by the driver.                                   *)
NoHeaders == [p \in Pos |-> NoHeader]
NoData == [p \in Pos |-> None]

(* The controller's own start, with the buffers it posts at once.          *)
ctrl_start ==
    IF mode = "medusa" THEN mps_fill_rx_descs([c |-> NewCtrl, desc |-> desc], Size - Burst)
    ELSE [c |-> [NewCtrl EXCEPT !.hhp = IF mode = "sze" THEN Offset ELSE 0], desc |-> desc]

queue_start ==
    /\ ~card.on
    /\ Clean \/ mode \in DirtyRestart
    /\ LET s == ctrl_start IN
       /\ c' = IF mode = "userspace" THEN c ELSE s.c
       /\ desc' = s.desc
       /\ card' = [card EXCEPT !.on = TRUE, !.hhp = 0, !.hdp = 0, !.shp = 0, !.pend = 0, !.bit = 1, !.seq = 0,
                               !.sdp = IF mode = "medusa" THEN s.c.sdp ELSE 0]
       /\ q' = [q EXCEPT !.sw = s.c.hhp,
                         !.rhp = IF mode \in {"medusa", "calypte"} THEN s.c.hhp ELSE @]
    /\ hdr' = NoHeaders /\ data' = NoData
    /\ out' = <<>>
    /\ UNCHANGED <<mode, held>>

queue_stop ==
    /\ card.on
    /\ card' = [card EXCEPT !.on = FALSE]
    /\ q' = IF mode = "sze" THEN [q EXCEPT !.avail = 0] ELSE q
    /\ held' = {} /\ out' = <<>>
    /\ UNCHANGED <<mode, c, desc, hdr, data>>

-----------------------------------------------------------------------------
(* The card                                                                *)

(* Room for a frame of n blocks or words.                                  *)
Room(n) ==
    CASE mode = "medusa" -> card.hdp # card.sdp /\ desc[card.hdp].type = 2
      [] mode = "sze"    -> Dist(card.hhp, card.shp) + n < Size
      [] OTHER           -> Dist(card.hhp, card.shp) < Size - 1
                              /\ Dist(card.hdp, card.sdp) + n < Size

(* A descriptor of type 0 sets the upper part of the addresses to follow.  *)
CardUpper ==
    /\ mode = "medusa" /\ card.on
    /\ card.hdp # card.sdp /\ desc[card.hdp].type = 0
    /\ card' = [card EXCEPT !.hdp = Mask(@ + 1), !.pend = 1,
                            !.upper = Upper(desc[card.hdp].buf)]
    /\ UNCHANGED <<mode, q, c, desc, hdr, data, held, out>>

(* A frame of n units arrives.  The valid bit is 1 in the first round over *)
(* the headers, 0 in the second, and so on.                                *)
CardReceive(n) ==
    /\ card.on /\ Room(n)
    /\ LET slot == IF mode = "sze" THEN Mask(card.hhp + Offset) ELSE card.hhp
           into == CASE mode = "medusa" -> {b \in {desc[card.hdp].buf} : Upper(b) = card.upper}
                     [] mode = "sze"    -> {Mask(slot + j) : j \in 0..n-1}
                     [] OTHER           -> {Mask(card.hdp + j) : j \in 0..n-1} IN
       /\ hdr' = [p \in Pos |->
                    IF p = slot THEN [frame |-> card.seq, len |-> n, ptr |-> card.hdp,
                                      free |-> 1 + card.pend, valid |-> card.bit]
                    ELSE IF mode = "sze" /\ p \in into THEN [hdr[p] EXCEPT !.len = 0]
                    ELSE hdr[p]]
       /\ data' = [p \in Pos |-> IF p \in into THEN card.seq ELSE data[p]]
       /\ card' = [card EXCEPT !.hhp = Mask(@ + IF mode = "sze" THEN n ELSE 1),
                               !.hdp = Mask(@ + n), !.pend = 0,
                               !.bit = IF card.hhp = Size - 1 THEN 1 - @ ELSE @,
                               !.seq = (@ + IF mode = "sze" THEN n ELSE 1) % Numbers]
    /\ UNCHANGED <<mode, q, c, desc, held, out>>

-----------------------------------------------------------------------------
Init ==
    /\ mode \in Modes
    /\ q = NewQueue
    /\ c = NewCtrl
    /\ card = [on |-> FALSE, hhp |-> 0, hdp |-> 0, shp |-> 0, sdp |-> 0, pend |-> 0,
               upper |-> NoUpper, bit |-> 1, seq |-> 0]
    /\ desc = [p \in Pos |-> [type |-> 0, buf |-> 0]]
    /\ hdr = NoHeaders /\ data = NoData
    /\ held = {} /\ out = <<>>

Next ==
    \/ queue_reopen
    \/ queue_start
    \/ queue_stop
    \/ burst_get_v1
    \/ \E want \in Wants : burst_get(want)
    \/ burst_put_v1
    \/ burst_put
    \/ CardUpper
    \/ \E n \in Lens[mode] : CardReceive(n)

Spec == Init /\ [][Next]_vars

-----------------------------------------------------------------------------
(* Properties                                                              *)

ReadPos == Mask(IF mode = "sze" THEN q.sw + q.off ELSE q.rhp)
CardPos == Mask(IF mode = "sze" THEN card.hhp + Offset ELSE card.hhp)

(* The frames in memory that the library has not handed out yet.           *)
Unread ==
    LET all == [i \in 1..Dist(CardPos, ReadPos) |-> hdr[Mask(ReadPos + i - 1)]]
        fs == SelectSeq(all, LAMBDA x : x.len > 0)
    IN IF card.on THEN [i \in 1..Len(fs) |-> fs[i].frame] ELSE <<>>

(* The records keep to their ranges.  In particular the library's read     *)
(* position never leaves the double mapping of the header ring, although   *)
(* it is advanced without wrapping (nc_ndp_v2_rx_burst_get, q->u.v1.data). *)
RxTypeOK ==
    /\ mode \in Modes
    /\ q.rhp \in 0..2*Size-1 /\ q.avail \in Pos /\ q.sw \in Pos
    /\ q.total \in Pos /\ q.off \in Pos /\ q.flag \in 0..1
    /\ {c.shp, c.hhp, c.sdp, c.mps, card.hhp, card.hdp, card.shp, card.sdp} \subseteq Pos
    /\ c.free \in 0..(IF mode = "medusa" THEN Burst ELSE AccMax)-1
    /\ data \in [Pos -> Frame \cup {None}]

(* What an application holds stays as it was received until it calls       *)
(* ndp_rx_burst_put: the card is never given a buffer, a block or a word   *)
(* of a packet that burst_get returned and burst_put has not released.     *)
RxHeldIntact == \A r \in held : \A p \in r.at : data[p] = r.frame

(* When everything that was received has been read and put back, the card  *)
(* has room for another frame: no descriptor, block or header is lost, and *)
(* what is kept back (a part of a descriptor burst, headers not reported   *)
(* yet, half of a protocol 1 ring) never stops reception.                  *)
RxNoStarvation ==
    (card.on /\ held = {} /\ CardPos = ReadPos /\ (mode # "sze" => q.sw = Mask(q.rhp)))
        => IF mode = "medusa"
           THEN \E i \in 0..Dist(card.sdp, card.hdp)-1 : desc[Mask(card.hdp + i)].type = 2
           ELSE \A n \in Lens[mode] : Room(n)

(* Every packet a burst returns is filled in (nc_ndp_v3_rx_burst_get       *)
(* returns count even when it left the loop at a header that is not valid).*)
RxFilled == None \notin ToSet(out)

Fifo == INSTANCE NdpFifo WITH
    queue <- Unread, Frame <- Nat, Capacity <- Max({Sizes[m] : m \in Modes}) - 1

(* The receive path is a FIFO: each burst is the next frames the card      *)
(* received, complete, once each and in their order.                       *)
RxFifo == Fifo!Spec
=============================================================================
