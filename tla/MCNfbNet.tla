------------------------------ MODULE MCNfbNet ------------------------------
(* Two queues for receiving, one for transmitting.                         *)
EXTENDS NfbNet
MCNetWorlds == {{"store"}, {"service"}, {"faults"}, {"discard"}, {"config"}}
=============================================================================
