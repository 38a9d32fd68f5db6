------------------------------ MODULE MCNdpRx ------------------------------
(***************************************************************************)
(* The receive path on a ring of eight (four for Calypte): every kind of   *)
(* queue wraps round its ring several times before a state repeats, frames *)
(* take up to three blocks, and the upper part of the buffer addresses     *)
(* changes twice.                                                          *)
(***************************************************************************)
EXTENDS NdpRx

RingSizes == [sze |-> 8, medusa |-> 8, calypte |-> 4, userspace |-> 8]
FrameLens == [sze |-> {2, 3}, medusa |-> {1}, calypte |-> {1, 2}, userspace |-> {2, 3}]
MCSizes == [m \in Modes |-> RingSizes[m]]
MCLens == [m \in Modes |-> FrameLens[m]]
UpperOfBuffer(b) == b \div 4
=============================================================================
