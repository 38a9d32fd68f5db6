----------------------------- MODULE MCNfbFile -----------------------------
(* What applications do with the device file: the component locks that the  *)
(* lock ioctls take, and the open, release and reload of the character      *)
(* device.  The two share no state but the file, so a behaviour is about    *)
(* one of them, which part says; no fairness condition of either is         *)
(* enabled in the initial state of the other.                               *)
EXTENDS MCNfbLock, NfbDevice

VARIABLE part

FileInit == part \in {"lock", "device"} /\ Init /\ DeviceInit

FileNext ==
  \/ part = "lock" /\ Next /\ UNCHANGED <<part, devVars>>
  \/ part = "device" /\ DeviceNext /\ UNCHANGED <<part, vars>>

FileSpec == FileInit /\ [][FileNext]_<<part, vars, devVars>> /\ Fairness /\ DeviceFairness
=============================================================================
