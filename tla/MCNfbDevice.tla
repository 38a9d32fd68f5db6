---------------------------- MODULE MCNfbDevice ----------------------------
EXTENDS NfbDevice
=============================================================================
