------------------------------ MODULE MCNdpTx ------------------------------
(***************************************************************************)
(* The transmit path of every kind of queue on small rings: each wraps     *)
(* round many times, a burst fills the ring or does not fit, and on the    *)
(* protocol 2 ring the upper part of the buffer addresses changes twice.   *)
(***************************************************************************)
EXTENDS NdpTx

RingSizes == [sze |-> 8, medusa |-> 8, calypte |-> 4]
FrameLens == [sze |-> {2, 3}, medusa |-> {1}, calypte |-> {1, 2}]
BurstSizes == [sze |-> {1, 2}, medusa |-> {1, 2}, calypte |-> {3}]
MCSizes == [m \in Modes |-> RingSizes[m]]
MCLens == [m \in Modes |-> FrameLens[m]]
MCCounts == [m \in Modes |-> BurstSizes[m]]
UpperOfBuffer(b) == b \div 4
=============================================================================
