------------------------------ MODULE NdpFifo ------------------------------
(***************************************************************************)
(* What a started NDP queue promises, in either direction: the frames that *)
(* go in come out once each, complete and in order, in bursts of any size; *)
(* starting or stopping the queue discards what is inside.                 *)
(*                                                                         *)
(* On a receive queue the card accepts frames and ndp_rx_burst_get         *)
(* delivers bursts; on a transmit queue ndp_tx_burst_put accepts bursts    *)
(* and the card delivers frames.  NdpRx and NdpTx implement this module.   *)
(***************************************************************************)
EXTENDS Naturals, Sequences

CONSTANTS Frame,          \* what a frame can be
          Capacity        \* the most frames a queue holds

VARIABLES queue,          \* the frames inside, oldest first
          out             \* the burst delivered last, until it is released

Init == queue = <<>> /\ out = <<>>

Accept ==
    /\ queue' \in Seq(Frame)
    /\ Len(queue') \in Len(queue)..Capacity
    /\ SubSeq(queue', 1, Len(queue)) = queue
    /\ UNCHANGED out

Deliver(n) ==
    /\ out' = SubSeq(queue, 1, n)
    /\ queue' = SubSeq(queue, n + 1, Len(queue))

Release == out' = <<>> /\ UNCHANGED queue

Reset == queue' = <<>> /\ out' = <<>>

Next ==
    \/ Accept
    \/ \E n \in 1..Len(queue) : Deliver(n)
    \/ Release
    \/ Reset

Spec == Init /\ [][Next]_<<queue, out>>
=============================================================================
