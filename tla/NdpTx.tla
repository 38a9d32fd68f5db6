------------------------------- MODULE NdpTx -------------------------------
(***************************************************************************)
(* The transmit path of one NDP queue, end to end: the burst functions of  *)
(* libnfb, the channel that lets one subscriber at a time write, the       *)
(* controller half of the kernel driver and the card.  The kinds of queue  *)
(* are those of NdpRx, without userspace mode.  Another subscriber of the  *)
(* same channel ("other") takes the write lock and publishes frames, too,  *)
(* except on a calypte queue, where each library instance keeps a data     *)
(* position of its own.                                                    *)
(*                                                                         *)
(* A call is one action, unless it waits for the card in the middle: then  *)
(* job says how far it got.  A read of the card's position is exact; an    *)
(* older value is the same read before the card's last steps.              *)
(***************************************************************************)
EXTENDS Integers, Sequences, FiniteSets, FiniteSetsExt, SequencesExt, TLC

CONSTANTS
    Sizes,         \* mode -> headers, descriptors, blocks or words in a ring
    Lens,          \* mode -> lengths of a frame in blocks or words
    Counts,        \* mode -> the burst sizes an application asks for
    OtherCounts,   \* those of the other subscriber
    Upper(_),      \* buffer -> upper address bits, as set by descriptor type 0
    Offset,        \* initial_offset of a protocol 1 ring
    Modes,         \* the kinds of queue
    GetAgain       \* those where burst_get may follow burst_get before a put

ASSUME TxConstants ==
    /\ Modes \subseteq {"sze", "medusa", "calypte"}
    /\ Sizes \in [Modes -> Nat] /\ OtherCounts \subseteq Nat \ {0}
    /\ \A m \in Modes : /\ Lens[m] \subseteq 1..Sizes[m]-1 /\ Counts[m] \subseteq Nat \ {0}
                        /\ Offset \in 0..Sizes[m]-1

(* A protocol 2 ring has as many descriptors as headers, and set_swptr     *)
(* tells the card of none of them before it has written all.  What is      *)
(* published at once (a burst on top of a quarter of the ring) has to fit  *)
(* between them with the type 0 descriptors.                               *)
ASSUME TxRoom ==
    "medusa" \in Modes \ GetAgain =>
        LET size == Sizes["medusa"]
            changes == Cardinality({b \in 0..size-1 : Upper(b) # Upper((b + 1) % size)}) IN
        \A k \in Counts["medusa"] : size \div 4 + k + changes + 1 < size

VARIABLES mode, q, ch, c, card, hdr, data, job, out

vars == <<mode, q, ch, c, card, hdr, data, job, out>>

Size == Sizes[mode]
Mask(x) == x % Size
Dist(a, b) == Mask(a - b)
Pos == 0..Size-1
Numbers == Size \div Min(Lens[mode])    \* frames in the queue at the same time differ
None == -1               \* memory that holds no frame
NoUpper == -1            \* last_upper_addr = ~0
TooLong == 0             \* stands for a length above frame_size_max

-----------------------------------------------------------------------------
(* Controller                                                              *)

(* Descriptors the card finished since hdp was read, and the frames there  *)
(* are among them.  A finished descriptor is forgotten.                    *)
NoDesc == [type |-> 2, buf |-> 0]

DescsDone(cc) == {Mask(cc.hdp + i) : i \in 0..Dist(card.hdp, cc.hdp)-1}

get_hwptr(cc) ==
    CASE mode = "medusa" ->
           LET done == DescsDone(cc)
               hdrs == Cardinality({p \in done : cc.desc[p].type = 2}) IN
           [cc EXCEPT !.hdp = card.hdp, !.free = @ + Cardinality(done), !.hhp = Mask(@ + hdrs),
                      !.desc = [p \in Pos |-> IF p \in done THEN NoDesc ELSE @[p]]]
      [] mode = "calypte" ->
           [cc EXCEPT !.hdp = card.hdp, !.free = @ + Dist(card.hdp, cc.hdp), !.hhp = card.hhp]
      [] mode = "sze" ->
           [cc EXCEPT !.hhp = Mask(card.hdp + Offset)]

Blocks(cc, ptr) ==
    MapThenSumSet(LAMBDA i : hdr[Mask(cc.shp + i)].len, 0..Dist(ptr, cc.shp)-1)

calypte_set_swptr(cc, ptr) ==
    LET n == Blocks(cc, ptr) IN
    [cc EXCEPT !.shp = ptr, !.free = @ - n, !.sdp = Mask(@ + n)]

sze_set_swptr(cc, ptr) == [cc EXCEPT !.shp = Mask(ptr - Offset)]

-----------------------------------------------------------------------------
(* Channel                                                                 *)

Lockable(cc, w) == Dist(cc.hhp, w + 1)

(* sync.size, which only Calypte sets (get_free_space).                    *)
FreeSpace(cc) == IF mode = "calypte" THEN cc.free ELSE 0

(* The end of ndp_channel_txsync for a subscription that holds the lock or *)
(* takes it: w is channel->swptr after set_swptr left the controller in cc *)
(* and want what the library wants to lock behind it.                      *)
Lock(s, cc, w, want) ==
    LET d == get_hwptr(cc)
        chlen == Lockable(d, w)
        len == IF want < chlen THEN want ELSE chlen IN
    [q |-> [s.q EXCEPT !.hw = w, !.sw = Mask(w + len)],
     ch |-> [sw |-> w, lock |-> IF len = 0 THEN "none" ELSE "us"],
     c |-> d]

(* set_swptr of the controllers that never wait.                           *)
set_swptr(cc, ptr) ==
    IF mode = "sze" THEN sze_set_swptr(cc, ptr) ELSE calypte_set_swptr(cc, ptr)

(* ndp_channel_txsync for the queue of s, which has set q.hw and q.sw.     *)
txsync(s) ==
    CASE s.ch.lock = "us" ->
           LET cc == IF s.q.hw = s.ch.sw THEN s.c ELSE set_swptr(s.c, s.q.hw) IN
           Lock(s, cc, s.q.hw, Dist(s.q.sw, s.q.hw))
      [] s.ch.lock = "none" -> Lock(s, s.c, s.ch.sw, Dist(s.q.sw, s.q.hw))
      [] s.ch.lock = "other" -> [s EXCEPT !.q.hw = s.ch.sw, !.q.sw = s.ch.sw]

Now == [q |-> q, ch |-> ch, c |-> c]

Become(s) == q' = s.q /\ ch' = s.ch /\ c' = s.c

-----------------------------------------------------------------------------
(* Library                                                                 *)

(* tx_lock asks for the whole ring.  Unpublished frames stay where they    *)
(* are; a queue that held no lock moves to where the channel is.           *)
v1_tx_lock(s) ==
    LET t == txsync([s EXCEPT !.q.sw = Mask(s.q.hw - 1)]) IN
    [t EXCEPT !.q.avail = Dist(t.q.sw, t.q.hw + t.q.rhp)]

\* Mutant: the position is not moved to where another subscriber stopped.
tx_lock_stays(s) ==
    LET t == txsync([s EXCEPT !.q.sw = Mask(s.q.hw - 1)]) IN
    [t EXCEPT !.q.avail = Dist(t.q.sw, s.q.rhp), !.q.bytes = FreeSpace(t.c)]

tx_lock(s) ==
    LET t == txsync([s EXCEPT !.q.sw = Mask(s.q.hw - 1)])
        rhp == IF s.q.sw = s.q.hw THEN t.q.hw ELSE s.q.rhp IN
    [t EXCEPT !.q.rhp = rhp, !.q.avail = Dist(t.q.sw, rhp), !.q.bytes = FreeSpace(t.c)]

(* The frames a burst writes: k frames of n units behind position p.       *)
NewFrames(k) == [i \in 1..k |-> (q.seq + i - 1) % Numbers]
Mem(m, p, n, frame) == [x \in Pos |-> IF Dist(x, p) < n THEN frame ELSE m[x]]
NoHeader == [len |-> 0, at |-> 0]
Headers(m, p, k, step, h(_)) ==
    [x \in Pos |-> LET d == Dist(x, p) IN
                   IF d >= k * step THEN m[x]
                   ELSE IF d % step = 0 THEN h(d \div step + 1) ELSE NoHeader]
Contents(m, p, k, n) ==
    [x \in Pos |-> IF Dist(x, p) < k * n THEN NewFrames(k)[Dist(x, p) \div n + 1] ELSE m[x]]

(* All or nothing: when the frames do not fit the positions are rolled     *)
(* back, but what the lock changed stays.                                  *)
v1_tx_burst_get(k, n) ==
    LET s == IF q.avail < k * n THEN v1_tx_lock(Now) ELSE Now
        p == Mask(s.q.hw + s.q.rhp) IN
    /\ mode = "sze" /\ n # TooLong
    /\ IF s.q.avail < k * n
       THEN Become([s EXCEPT !.q.avail = q.avail]) /\ UNCHANGED <<hdr, data>>
       ELSE /\ Become([s EXCEPT !.q.rhp = @ + k * n, !.q.avail = @ - k * n,
                                !.q.got = TRUE, !.q.seq = (@ + k) % Numbers])
            /\ hdr' = Headers(hdr, p, k, n, LAMBDA i : [len |-> n, at |-> 0])
            /\ data' = Contents(data, p, k, n)
    /\ UNCHANGED <<mode, card, job, out>>

v2_tx_burst_get(k, n) ==
    LET s == IF q.avail < k THEN tx_lock(Now) ELSE Now IN
    /\ mode = "medusa"
    /\ IF s.q.avail < k \/ n = TooLong
       THEN Become(s) /\ UNCHANGED data
       ELSE /\ Become([s EXCEPT !.q.rhp = @ + k, !.q.avail = @ - k, !.q.got = TRUE,
                                !.q.seq = (@ + k) % Numbers])
            /\ data' = Contents(data, s.q.rhp, k, 1)
    /\ UNCHANGED <<mode, card, hdr, job, out>>

v3_tx_burst_get(k, n) ==
    LET s == IF q.avail < k THEN tx_lock(Now) ELSE Now IN
    /\ mode = "calypte" /\ q.pend = <<>>
    /\ IF s.q.avail < k \/ n = TooLong
       THEN Become(s) /\ UNCHANGED hdr
       ELSE /\ Become([s EXCEPT !.q.rhp = @ + k, !.q.avail = @ - k, !.q.got = TRUE,
                                !.q.seq = (@ + k) % Numbers, !.q.sdp = Mask(@ + k * n), !.q.pend = NewFrames(k)])
            /\ hdr' = Headers(hdr, s.q.rhp, k, 1,
                              LAMBDA i : [len |-> n, at |-> Mask(s.q.sdp + (i - 1) * n)])
    /\ UNCHANGED <<mode, card, data, job, out>>

(* Publish everything and give the lock back; then is the job that follows.*)
v1_tx_burst_flush(then) ==
    LET w == Mask(q.hw + q.rhp) IN
    /\ Become(txsync([Now EXCEPT !.q.hw = w, !.q.sw = w, !.q.avail = 0, !.q.rhp = 0,
                                   !.q.got = FALSE]))
    /\ card' = [card EXCEPT !.sdp = c'.shp]
    /\ job' = [job EXCEPT !.at = then]

Flushed(s) ==
    LET w == IF s.q.rhp >= Size THEN s.q.rhp - Size ELSE s.q.rhp IN
    [s EXCEPT !.q.hw = w, !.q.sw = w, !.q.rhp = w, !.q.avail = 0, !.q.got = FALSE]

v2_tx_burst_flush(then) ==
    LET s == Flushed(Now) IN
    /\ IF s.ch.lock = "us" /\ s.q.hw # s.ch.sw
       THEN /\ Become([s EXCEPT !.ch.sw = s.q.hw])
            /\ job' = [at |-> "push", left |-> Dist(s.q.hw, s.ch.sw), then |-> then]
       ELSE Become(txsync(s)) /\ job' = [job EXCEPT !.at = then]
    /\ UNCHANGED card

v3_tx_burst_flush(then) ==
    /\ IF q.pend = <<>>
       THEN Become(txsync(Flushed(Now))) /\ job' = [job EXCEPT !.at = then]
       ELSE job' = [at |-> "copy", left |-> Len(q.pend), then |-> then]
            /\ UNCHANGED <<q, ch, c>>
    /\ UNCHANGED card

burst_get(k, n) ==
    /\ job.at = "idle" /\ (q.got => mode \in GetAgain)
    /\ v1_tx_burst_get(k, n) \/ v2_tx_burst_get(k, n) \/ v3_tx_burst_get(k, n)

Flush(then) ==
    /\ CASE mode = "sze" -> v1_tx_burst_flush(then)
         [] mode = "medusa" -> v2_tx_burst_flush(then)
         [] mode = "calypte" -> v3_tx_burst_flush(then)
    /\ UNCHANGED <<mode, hdr, data, out>>

(* Protocols 1 and 2 keep a burst until a quarter of the ring waits.       *)
Due ==
    CASE mode = "sze" -> q.rhp > Size \div 4
      [] mode = "medusa" -> Dist(q.rhp, q.hw) > Size \div 4
      [] mode = "calypte" -> TRUE

burst_put ==
    /\ job.at = "idle" /\ q.got
    /\ \/ Due /\ Flush("idle")
       \/ ~Due /\ q' = [q EXCEPT !.got = FALSE]
          /\ UNCHANGED <<mode, ch, c, card, hdr, data, job, out>>

burst_flush == job.at = "idle" /\ Flush("idle")

-----------------------------------------------------------------------------
(* Calls that wait for the card                                            *)

(* One frame of medusa_tx_set_swptr.  next is its local sdp.               *)

PostFrame(cc) ==
    LET new == Upper(cc.mps) # cc.upper
        at == IF new THEN Mask(cc.next + 1) ELSE cc.next IN
    [cc EXCEPT !.free = @ - (IF new THEN 2 ELSE 1), !.mps = Mask(@ + 1),
               !.upper = Upper(cc.mps), !.next = Mask(at + 1),
               !.desc = (at :> [type |-> 2, buf |-> cc.mps])
                        @@ (cc.next :> [type |-> 0, buf |-> cc.mps]) @@ @]

medusa_push ==
    /\ job.at = "push" /\ job.left > 0 /\ c.free >= 2
    /\ c' = PostFrame(c)
    /\ job' = [job EXCEPT !.left = @ - 1]
    /\ UNCHANGED <<mode, q, ch, card, hdr, data, out>>

\* Mutant: the loop waits without looking at the card.
wait_for_free_desc_blind ==
    /\ job.at = "push" /\ job.left > 0 /\ c.free < 2
    /\ UNCHANGED vars

wait_for_free_desc ==
    /\ job.at = "push" /\ job.left > 0 /\ c.free < 2
    /\ c' = get_hwptr(c)
    /\ UNCHANGED <<mode, q, ch, card, hdr, data, job, out>>

(* The end of set_swptr, and of the sync it is part of.  The loop stops    *)
(* short when a kill is pending; shp takes the new pointer all the same.   *)
medusa_publish(killed) ==
    /\ job.at = "push"
    /\ IF killed THEN job.left > 0 /\ c.free < 2 ELSE job.left = 0
    /\ Become(Lock(Now, [c EXCEPT !.sdp = c.next, !.shp = ch.sw], ch.sw, 0))
    /\ card' = [card EXCEPT !.sdp = c.next]
    /\ job' = [job EXCEPT !.at = IF killed THEN "killed" ELSE job.then, !.left = 0]
    /\ UNCHANGED <<mode, hdr, data, out>>

(* One frame of v3_tx_burst_put.                                           *)
CopyAt == Mask(q.rhp - job.left)

calypte_copy ==
    LET h == hdr[CopyAt] IN
    /\ job.at = "copy" /\ job.left > 0 /\ q.bytes >= h.len
    /\ data' = Mem(data, h.at, h.len, Head(q.pend))
    /\ card' = [card EXCEPT !.shp = Mask(CopyAt + 1)]
    /\ q' = [q EXCEPT !.bytes = @ - h.len, !.pend = Tail(@)]
    /\ job' = [job EXCEPT !.left = @ - 1]
    /\ UNCHANGED <<mode, ch, c, hdr, out>>

request_space ==
    /\ job.at = "copy" /\ job.left > 0 /\ q.bytes < hdr[CopyAt].len
    /\ LET s == txsync([Now EXCEPT !.q.hw = CopyAt]) IN
       Become([s EXCEPT !.q.bytes = FreeSpace(s.c)])
    /\ UNCHANGED <<mode, card, hdr, data, job, out>>

calypte_copied ==
    /\ job.at = "copy" /\ job.left = 0
    /\ Flush(job.then)
-----------------------------------------------------------------------------
(* Start and stop                                                          *)

Stopped == [at |-> "stopped", left |-> 0, then |-> "idle"]

Blank == /\ hdr' = [p \in Pos |-> NoHeader]
         /\ data' = [p \in Pos |-> None]

NewCtrl == [shp |-> 0, hhp |-> 0, sdp |-> 0, hdp |-> 0, mps |-> 0, upper |-> NoUpper, next |-> 0,
            desc |-> [p \in Pos |-> NoDesc], free |-> IF mode = "sze" THEN 0 ELSE Size - 1]

NewCard == [sdp |-> 0, shp |-> 0, hdp |-> 0, hhp |-> 0, upper |-> NoUpper]

FirstHwptr == IF mode = "sze" THEN Offset ELSE 0

(* The kernel leaves the library's positions of a TX queue alone.          *)
queue_start ==
    /\ job.at = "stopped"
    /\ c' = NewCtrl /\ card' = NewCard
    /\ ch' = [sw |-> FirstHwptr, lock |-> "none"]
    /\ q' = [q EXCEPT !.seq = 0]
    /\ job' = [job EXCEPT !.at = "idle"]
    /\ UNCHANGED <<mode, hdr, data, out>>

queue_stop == job.at = "idle" /\ ch.lock # "other" /\ Flush("stopping")

(* ops->stop: -EAGAIN, and the library tries again, until the card is done *)
(* with all it was given.  Calypte takes back what the card has not begun. *)
Drained ==
    CASE mode = "sze" -> card.hdp = c.shp
      [] mode = "medusa" -> card.hdp = c.sdp
      [] mode = "calypte" -> TRUE

\* Mutant: the loop ends on -EAGAIN, too.
ctrl_stop_at_once ==
    /\ job.at \in {"stopping", "killed"}
    /\ job' = Stopped
    /\ ch' = [ch EXCEPT !.lock = "none"]
    /\ q' = [q EXCEPT !.avail = IF mode = "sze" THEN 0 ELSE @]
    /\ card' = NewCard /\ c' = NewCtrl /\ out' = <<>>
    /\ Blank
    /\ UNCHANGED mode

(* A killed process stops its queue with force.                            *)
ctrl_stop ==
    /\ (job.at = "stopping" /\ Drained) \/ job.at = "killed"
    /\ job' = Stopped
    /\ ch' = [ch EXCEPT !.lock = "none"]
    /\ q' = [q EXCEPT !.avail = IF mode = "sze" THEN 0 ELSE @]
    /\ card' = NewCard /\ c' = NewCtrl /\ out' = <<>>
    /\ Blank
    /\ UNCHANGED mode

-----------------------------------------------------------------------------
(* The other subscriber of the channel                                     *)

Shared == mode # "calypte" /\ job.at = "idle"

OtherLock ==
    LET d == get_hwptr(c) IN
    /\ Shared /\ ch.lock = "none" /\ Lockable(d, ch.sw) > 0
    /\ c' = d /\ ch' = [ch EXCEPT !.lock = "other"]
    /\ UNCHANGED <<mode, q, card, hdr, data, job, out>>

(* It writes k frames, publishes them and gives the lock back.             *)
OtherFlush(k) ==
    LET d == get_hwptr(c)
        n == Min(Lens[mode])
        r == FoldLeft(LAMBDA cc, i : PostFrame(cc), d, [i \in 1..k |-> i])
        w == Mask(ch.sw + k * n) IN
    /\ Shared /\ ch.lock = "other" /\ k * n <= Lockable(d, ch.sw)
    /\ ch' = [sw |-> w, lock |-> "none"]
    /\ q' = [q EXCEPT !.seq = (@ + k) % Numbers]
    /\ data' = Contents(data, ch.sw, k, n)
    /\ CASE mode = "sze" ->
              /\ c' = sze_set_swptr(d, w)
              /\ card' = [card EXCEPT !.sdp = c'.shp]
              /\ hdr' = Headers(hdr, ch.sw, k, n, LAMBDA i : [len |-> n, at |-> 0])
         [] mode = "medusa" ->
              /\ d.free >= 2 * k
              /\ c' = [r EXCEPT !.sdp = r.next, !.shp = w]
              /\ card' = [card EXCEPT !.sdp = r.next]
              /\ UNCHANGED hdr
    /\ UNCHANGED <<mode, job, out>>

-----------------------------------------------------------------------------
(* Card (external)                                                         *)

(* What a frame that was sent leaves in memory is forgotten.               *)
Sent(p, n) ==
    LET words == {data[Mask(p + i)] : i \in 0..n-1} IN
    /\ out' = <<IF Cardinality(words) = 1 THEN data[p] ELSE None>>
    /\ data' = Mem(data, p, n, None)

Running == job.at # "stopped"

CardSend ==
    /\ Running
    /\ \/ LET p == Mask(card.hdp + Offset) IN
          /\ mode = "sze" /\ card.hdp # card.sdp
          /\ Sent(p, hdr[p].len)
          /\ hdr' = [hdr EXCEPT ![p] = NoHeader]
          /\ card' = [card EXCEPT !.hdp = Mask(@ + hdr[p].len)]
       \/ LET d == c.desc[card.hdp] IN
          /\ mode = "medusa" /\ card.hdp # card.sdp /\ d.type = 2
          /\ IF card.upper = Upper(d.buf) THEN Sent(d.buf, 1) ELSE out' = <<None>> /\ UNCHANGED data
          /\ card' = [card EXCEPT !.hdp = Mask(@ + 1), !.hhp = Mask(@ + 1)]
          /\ UNCHANGED hdr
       \/ LET h == hdr[card.hhp] IN
          /\ mode = "calypte" /\ card.hhp # card.shp
          /\ Sent(h.at, h.len)
          /\ hdr' = [hdr EXCEPT ![card.hhp].at = 0]
          /\ card' = [card EXCEPT !.hdp = Mask(@ + h.len), !.hhp = Mask(@ + 1)]
    /\ UNCHANGED <<mode, q, ch, c, job>>

CardUpper ==
    /\ Running /\ mode = "medusa" /\ card.hdp # card.sdp /\ c.desc[card.hdp].type = 0
    /\ card' = [card EXCEPT !.upper = Upper(c.desc[card.hdp].buf), !.hdp = Mask(@ + 1)]
    /\ UNCHANGED <<mode, q, ch, c, hdr, data, job, out>>

-----------------------------------------------------------------------------
Init ==
    /\ mode \in Modes
    /\ q = [rhp |-> 0, avail |-> 0, hw |-> 0, sw |-> 0, bytes |-> 0,
            sdp |-> 0, pend |-> <<>>, seq |-> 0, got |-> FALSE]
    /\ ch = [sw |-> 0, lock |-> "none"]
    /\ c = NewCtrl /\ card = NewCard
    /\ hdr = [p \in Pos |-> NoHeader]
    /\ data = [p \in Pos |-> None]
    /\ job = Stopped /\ out = <<>>

Wait ==
    \/ medusa_push \/ wait_for_free_desc \/ medusa_publish(FALSE)
    \/ calypte_copy \/ request_space \/ calypte_copied
    \/ ctrl_stop

Card == CardSend \/ CardUpper

Next ==
    \/ queue_start \/ queue_stop
    \/ \E k \in Counts[mode], n \in Lens[mode] \cup {TooLong} : burst_get(k, n)
    \/ burst_put \/ burst_flush
    \/ Wait
    \/ medusa_publish(TRUE)
    \/ OtherLock \/ \E k \in OtherCounts : OtherFlush(k)
    \/ Card

(* A call that was made goes on, or the card works on what it was given,   *)
(* as long as one of them can.                                             *)
Fairness == WF_vars(Wait \/ Card)

Spec == Init /\ [][Next]_vars /\ Fairness

-----------------------------------------------------------------------------
(* Properties                                                              *)

(* The frames behind the card's position, oldest first: those a burst_get  *)
(* has handed out for writing and those of the other subscriber.           *)
Unsent ==
    CASE job.at = "stopped" -> <<>>
      [] mode = "calypte" ->
           [i \in 1..Dist(card.shp, card.hhp) |-> data[hdr[Mask(card.hhp + i - 1)].at]] \o q.pend
      [] mode = "medusa" ->
           LET end == IF ch.lock = "us" THEN q.rhp ELSE ch.sw IN
           [i \in 1..Dist(end, card.hhp) |-> data[Mask(card.hhp + i - 1)]]
      [] mode = "sze" ->
           LET first == Mask(card.hdp + Offset)
               end == IF ch.lock = "us" THEN q.hw + q.rhp ELSE ch.sw
               starts == SelectSeq([i \in 1..Dist(end, first) |-> Mask(first + i - 1)],
                                   LAMBDA p : hdr[p].len > 0) IN
           [i \in 1..Len(starts) |-> data[starts[i]]]

(* The records keep to their ranges: the write position stays inside the   *)
(* double mapping, and the driver's counts of free descriptors and free    *)
(* blocks never fall below zero nor pass the size of the ring.             *)
TxTypeOK ==
    /\ mode \in Modes
    /\ q.rhp \in 0..2*Size-1 /\ {q.avail, q.hw, q.sw, q.bytes, q.sdp} \subseteq Pos
    /\ {ch.sw, c.shp, c.hhp, c.sdp, c.hdp, c.mps, c.free} \subseteq Pos
    /\ {card.sdp, card.shp, card.hdp, card.hhp} \subseteq Pos
    /\ ch.lock \in {"none", "us", "other"}
    /\ job.at \in {"stopped", "idle", "push", "copy", "stopping", "killed"}

Fifo == INSTANCE NdpFifo WITH
    queue <- Unsent, Frame <- Nat, Capacity <- Max({Sizes[m] : m \in Modes}) - 1

(* The transmit path is a FIFO: the card sends each frame that was written *)
(* into the ring once, complete and in order, whichever subscriber wrote   *)
(* it; nothing still to be sent is overwritten.                            *)
TxFifo == Fifo!Spec

(* Stopping a queue that was not killed loses nothing on protocols 1 and 2 *)
(* (ndp_queue_stop flushes, then repeats the ioctl while it says EAGAIN).  *)
TxStopKeepsFrames ==
    [][(job.at = "stopping" /\ job'.at = "stopped" /\ mode # "calypte") => Unsent = <<>>]_vars

(* A call that waits for the card returns: for descriptors under the       *)
(* channel's spinlock, for room in the card's memory, or for the queue to  *)
(* drain.                                                                  *)
TxCallReturns ==
    job.at \in {"push", "copy", "stopping"} ~> job.at \in {"idle", "stopped"}
=============================================================================
