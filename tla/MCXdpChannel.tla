---------------------------- MODULE MCXdpChannel ----------------------------
EXTENDS XdpChannel
MCAllocFails == CleanFails
=============================================================================
