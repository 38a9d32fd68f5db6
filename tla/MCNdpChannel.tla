---------------------------- MODULE MCNdpChannel ----------------------------
(***************************************************************************)
(* Two subscriptions on a ring of a few slots; requests to share the       *)
(* channel, to own it, and one with flags the controller does not have.    *)
(***************************************************************************)
EXTENDS NdpChannel, TLC

CONSTANTS a, b

MCSub == {a, b}
MCCtrlFlags == {"USE_HEADER", "USE_OFFSET"}
MCRequest == {MCCtrlFlags, MCCtrlFlags \cup {"EXCLUSIVE"}, {"USERSPACE", "EXCLUSIVE"}}
SharedRequest == {MCCtrlFlags}
Symmetry == Permutations(MCSub)
=============================================================================
