----------------------------- MODULE MCNfbLock -----------------------------
(***************************************************************************)
(* Two kernel modules sharing kernel_app, and a process with two comps     *)
(* open on one file; one component with two features (a single one and     *)
(* both together are requested), so that requests overlap, are disjoint,   *)
(* and are merged into one item.                                           *)
(***************************************************************************)
EXTENDS NfbLock, TLC

CONSTANTS k1, k2, u1, u2, kernel, proc, dma, f1, f2

MCClient == {k1, k2, u1, u2}
MCApp == {kernel, proc}
MCAppOf == k1 :> kernel @@ k2 :> kernel @@ u1 :> proc @@ u2 :> proc
MCPath == {dma}
MCFeature == {f1, f2}
MCRequest == {{f1}, {f2}, {f1, f2}}
=============================================================================
