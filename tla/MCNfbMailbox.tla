---------------------------- MODULE MCNfbMailbox ----------------------------
EXTENDS NfbMailbox
MCMbWorlds == {[proto |-> "bmc", late |-> "before_next"], [proto |-> "sdm", late |-> "never"]}
=============================================================================
