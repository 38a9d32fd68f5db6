------------------------------- MODULE XdpRx -------------------------------
(***************************************************************************)
(* The receive queue of an XDP channel, in page pool and in AF_XDP mode.   *)
(* A poll fills the descriptor ring with free buffers, batch by batch,     *)
(* then takes the packets whose headers the card has reported.  A packet   *)
(* longer than a buffer takes several, in the order they were posted: the  *)
(* driver finds them in xdp_ring, from pbp on, and never sees which        *)
(* buffers the card used.                                                  *)
(***************************************************************************)
EXTENDS Integers, FiniteSets, Sequences

LOCAL INSTANCE SequencesExt

CONSTANTS
    Buf,         \* buffers of the pool
    NoBuffer,
    BufUpper,    \* Buf -> upper address bits
    RxDesc,      \* descriptors, headers and entries of xdp_ring, a power of two
    RxBatch,     \* NFB_XDP_CTRL_PACKET_BURST
    RxBudget,    \* bound: NAPI budget
    MaxParts     \* bound: buffers of one packet

ASSUME XdpRxConstants == RxDesc > 0 /\ RxBatch > 0 /\ RxBudget > 0 /\ MaxParts > 0

VARIABLES
    rpc,      \* where the poll is: "idle", "fill", "recv", "closed"
    rleft,    \* packets the poll has yet to take
    rc,       \* struct nc_ndp_ctrl: sdp, hdp, shp, last_upper_addr; fbp, pbp
    rdesc,    \* descriptor ring
    xring,    \* xdp_ring
    rcard,    \* the card: sdp and shp registers, positions, reported ones
    rhdr,     \* header ring: the buffers of the packet (the code sees how many)
    bowner    \* buffer -> "pool", "ring" or "stack"

xrxVars == <<rpc, rleft, rc, rdesc, xring, rcard, rhdr, bowner>>

TypeZero == [t |-> 0, buf |-> NoBuffer]
RSlot == 0 .. RxDesc - 1
RIncr(i) == (i + 1) % RxDesc
RDist(a, b) == (b - a) % RxDesc
RxFree == (rc.hdp - rc.sdp - 1) % RxDesc

-----------------------------------------------------------------------------
(* nfb_xctrl_napi_poll: the fill comes first.                              *)
poll_rx ==
    /\ rpc = "idle"
    /\ rpc' = "fill"
    /\ rc' = [rc EXCEPT !.hdp = rcard.toldD]
    /\ UNCHANGED <<rleft, rdesc, xring, rcard, rhdr, bowner>>

RoomToFill(c) ==
    /\ (c.pbp - c.fbp - 1) % RxDesc >= RxBatch
    /\ (c.hdp - c.sdp - 1) % RxDesc >= RxBatch

\* Mutant: a buffer that found no descriptor is counted in xdp_ring.
Post_early(r, b) ==
    LET new == r.c.last_upper_addr # BufUpper[b]
        c0 == IF new /\ r.free > 0
              THEN [r.c EXCEPT !.sdp = RIncr(@), !.last_upper_addr = BufUpper[b]] ELSE r.c
        d0 == IF new /\ r.free > 0
              THEN [r.d EXCEPT ![r.c.sdp] = TypeZero] ELSE r.d
        free0 == IF new /\ r.free > 0 THEN r.free - 1 ELSE r.free
    IN  IF r.stop \/ free0 = 0
        THEN [r EXCEPT !.c = [c0 EXCEPT !.fbp = RIncr(@)], !.d = d0, !.free = free0, !.stop = TRUE,
                       !.x[r.c.fbp] = b]
        ELSE [c |-> [c0 EXCEPT !.sdp = RIncr(@), !.fbp = RIncr(@)],
              d |-> [d0 EXCEPT ![c0.sdp] = [t |-> 2, buf |-> b]],
              x |-> [r.x EXCEPT ![r.c.fbp] = b],
              free |-> free0 - 1, stop |-> FALSE, posted |-> r.posted \cup {b}]

(* One buffer of a batch: a type 0 descriptor when the upper address       *)
(* differs, then type 2 and the entry of xdp_ring.  Without a free         *)
(* descriptor the batch ends and the buffer goes back to the pool.         *)
Post(r, b) ==
    LET new == r.c.last_upper_addr # BufUpper[b]
        c0 == IF new /\ r.free > 0
              THEN [r.c EXCEPT !.sdp = RIncr(@), !.last_upper_addr = BufUpper[b]] ELSE r.c
        d0 == IF new /\ r.free > 0
              THEN [r.d EXCEPT ![r.c.sdp] = TypeZero] ELSE r.d
        free0 == IF new /\ r.free > 0 THEN r.free - 1 ELSE r.free
    IN  IF r.stop THEN r
        ELSE IF free0 = 0 THEN [r EXCEPT !.c = c0, !.d = d0, !.free = 0, !.stop = TRUE]
        ELSE [c |-> [c0 EXCEPT !.sdp = RIncr(@), !.fbp = RIncr(@)],
              d |-> [d0 EXCEPT ![c0.sdp] = [t |-> 2, buf |-> b]],
              x |-> [r.x EXCEPT ![r.c.fbp] = b],
              free |-> free0 - 1, stop |-> FALSE, posted |-> r.posted \cup {b}]

(* nfb_xctrl_rx_fill: a batch of buffers bs, shorter when an allocation    *)
(* fails.  hdp is read again at the start of the next batch.               *)
rx_fill(bs) ==
    /\ rpc = "fill" /\ RoomToFill(rc)
    /\ \A b \in Range(bs) : bowner[b] = "pool"
    /\ LET r == FoldLeft(Post, [c |-> rc, d |-> rdesc, x |-> xring, free |-> RxFree,
                                stop |-> FALSE, posted |-> {}], bs)
       IN  /\ rc' = [r.c EXCEPT !.hdp = rcard.toldD]
           /\ rdesc' = r.d /\ xring' = r.x
           /\ bowner' = [b \in Buf |-> IF b \in r.posted THEN "ring" ELSE bowner[b]]
    /\ UNCHANGED <<rpc, rleft, rcard, rhdr>>

(* No room for a batch, or nothing could be allocated (a page may be       *)
(* refused at any time): sdp is flushed and the number of packets read, at *)
(* most a budget.                                                          *)
rx_filled ==
    /\ rpc = "fill"
    /\ rpc' = "recv"
    /\ rcard' = [rcard EXCEPT !.sdp = rc.sdp]
    /\ LET n == RDist(rc.shp, rcard.toldH)
       IN  rleft' = IF n < RxBudget THEN n ELSE RxBudget
    /\ UNCHANGED <<rc, rdesc, xring, rhdr, bowner>>

\* Mutant: a packet that fills its last buffer takes one more.
PartsIn_more(h) == Len(h) + 1

(* How many buffers the length in the header means.                        *)
PartsIn(h) == Len(h)

(* nfb_xctrl_rx: the next packet, its buffers from xdp_ring.  The program  *)
(* drops it (back to the pool) or passes, transmits or redirects it.       *)
rx_packet(to) ==
    /\ rpc = "recv" /\ rleft > 0
    /\ LET n == PartsIn(rhdr[rc.shp])
           taken == {xring[(rc.pbp + k) % RxDesc] : k \in 0 .. n - 1}
       IN  /\ bowner' = [b \in Buf |-> IF b \in taken THEN to ELSE bowner[b]]
           /\ rc' = [rc EXCEPT !.shp = RIncr(@), !.pbp = (@ + n) % RxDesc]
           /\ rhdr' = [rhdr EXCEPT ![rc.shp] = <<>>]
           /\ xring' = [i \in RSlot |-> IF RDist(rc.pbp, i) < n THEN NoBuffer ELSE xring[i]]
    /\ rleft' = rleft - 1
    /\ UNCHANGED <<rpc, rdesc, rcard>>

(* sp_flush and the end of the poll.                                       *)
rx_done ==
    /\ rpc = "recv" /\ rleft = 0
    /\ rpc' = "idle"
    /\ rcard' = [rcard EXCEPT !.sdp = rc.sdp, !.shp = rc.shp]
    /\ UNCHANGED <<rleft, rc, rdesc, xring, rhdr, bowner>>

(* The stack, another queue or the socket gives a buffer back.             *)
buffer_return(b) ==
    /\ bowner[b] = "stack"
    /\ bowner' = [bowner EXCEPT ![b] = "pool"]
    /\ UNCHANGED <<rpc, rleft, rc, rdesc, xring, rcard, rhdr>>

-----------------------------------------------------------------------------
(* The card (external).  A packet of n parts takes the next n type 2       *)
(* descriptors, with the type 0 ones among them, and one header.  What is  *)
(* behind it in the ring is not read again and forgotten.                  *)

RECURSIVE TypeTwos(_, _)
TypeTwos(at, n) ==
    IF n = 0 \/ at = rcard.sdp THEN <<>>
    ELSE IF rdesc[at].t = 2 THEN <<at>> \o TypeTwos(RIncr(at), n - 1)
    ELSE TypeTwos(RIncr(at), n)

rcard_packet(n) ==
    LET ds == TypeTwos(rcard.at, n)
    IN  /\ Len(ds) = n
        /\ RDist(rcard.shp, RIncr(rcard.hhp)) # 0
        /\ rhdr' = [rhdr EXCEPT ![rcard.hhp] = [k \in 1 .. n |-> rdesc[ds[k]].buf]]
        /\ rcard' = [rcard EXCEPT !.at = RIncr(ds[n]), !.hhp = RIncr(@)]
        /\ rdesc' = [i \in RSlot |-> IF RDist(rcard.at, i) <= RDist(rcard.at, ds[n]) THEN TypeZero
                                                                               ELSE rdesc[i]]
        /\ UNCHANGED <<rpc, rleft, rc, xring, bowner>>

rcard_update ==
    /\ <<rcard.toldD, rcard.toldH>> # <<rcard.at, rcard.hhp>>
    /\ rcard' = [rcard EXCEPT !.toldD = rcard.at, !.toldH = rcard.hhp]
    /\ UNCHANGED <<rpc, rleft, rc, rdesc, xring, rhdr, bowner>>

-----------------------------------------------------------------------------
XdpRxInit ==
    /\ rpc = "idle" /\ rleft = 0
    /\ rc = [sdp |-> 0, hdp |-> 0, shp |-> 0, last_upper_addr |-> "none", fbp |-> 0, pbp |-> 0]
    /\ rdesc = [i \in RSlot |-> TypeZero]
    /\ xring = [i \in RSlot |-> NoBuffer]
    /\ rcard = [sdp |-> 0, shp |-> 0, at |-> 0, hhp |-> 0, toldD |-> 0, toldH |-> 0]
    /\ rhdr = [i \in RSlot |-> <<>>]
    /\ bowner = [b \in Buf |-> "pool"]

XdpRxNext ==
    \/ poll_rx \/ rx_filled \/ rx_done
    \/ \E bs \in UNION {[1 .. n -> Buf] : n \in 1 .. RxBatch} :
          IsInjective(bs) /\ rx_fill(bs)
    \/ \E to \in {"pool", "stack"} : rx_packet(to)
    \/ \E b \in Buf : buffer_return(b)
    \/ \E n \in 1 .. MaxParts : rcard_packet(n)
    \/ rcard_update

XdpRxSpec == XdpRxInit /\ [][XdpRxNext]_xrxVars

-----------------------------------------------------------------------------
(* Properties                                                              *)

Unread == [k \in 1 .. RDist(rc.shp, rcard.hhp) |-> rhdr[(rc.shp + k - 1) % RxDesc]]

(* The buffers that the driver will take from xdp_ring for the packets it  *)
(* has not read are the ones the card wrote these packets to, in order:    *)
(* pbp and fbp count buffers, hdp and sdp count descriptors of both types, *)
(* shp counts packets, and no two of them move together.                   *)
XdpRxMatch ==
    LET wrote == FlattenSeq(Unread)
    IN  \A k \in DOMAIN wrote : wrote[k] = xring[(rc.pbp + k - 1) % RxDesc]

(* A buffer that the card may yet write, or has written and the driver not *)
(* read, is neither in the pool nor with the stack.                        *)
XdpRxOwned ==
    /\ \A k \in 0 .. RDist(rcard.at, rcard.sdp) - 1 :
          LET d == rdesc[(rcard.at + k) % RxDesc] IN d.t = 2 => bowner[d.buf] = "ring"
    /\ \A k \in DOMAIN Unread : \A j \in DOMAIN Unread[k] : bowner[Unread[k][j]] = "ring"
=============================================================================
