------------------------------ MODULE MCXdpRx ------------------------------
EXTENDS XdpRx
MCBufUpper == [b1 |-> "a", b2 |-> "b"]
=============================================================================
