----------------------------- MODULE NfbDevice -----------------------------
(***************************************************************************)
(* The life of one /dev/nfb character device: its publication by the       *)
(* device core, the files that are opened on it, and the reload of the     *)
(* firmware, which one file requests and the last release carries out by   *)
(* removing the device and probing it anew.                                *)
(*                                                                         *)
(* A file is a process; fl[p].at says where in a call it is.  Steps of     *)
(* different files interleave wherever the code holds no common lock.      *)
(***************************************************************************)
EXTENDS Integers, FiniteSets

CONSTANTS
    Proc,       \* files
    Booter,     \* those opened with O_APPEND, to reload
    Image,      \* boot_id of the binary slots
    NoImage,
    LeakBound   \* bound: opens that were counted and failed

ASSUME DeviceConstants ==
    IsFiniteSet(Proc) /\ Booter \subseteq Proc /\ NoImage \notin Image /\ LeakBound \in Nat

VARIABLES
    dev,      \* struct nfb_device: status, published, openers, lr_cb
    boot,     \* struct nfb_boot: num_image; and the state of the bridge
    fl,       \* file -> [at, old]; old: it belongs to a removed device
    drivers,  \* status OK of the drivers: "boot", "ndp", "net"
    booted,   \* image the card was last booted from
    leaked    \* opens that failed after they were counted

devVars == <<dev, boot, fl, drivers, booted, leaked>>

AllDrivers == {"boot", "ndp", "net"}

NewDev == [status |-> "init", published |-> FALSE, openers |-> 0, lr_cb |-> FALSE]
Closed == [at |-> "closed", old |-> FALSE]

FileAt(p, l) == fl[p].at = l
FileGoto(p, l) == fl' = [fl EXCEPT ![p].at = l]

(* A file that was looked up on, counted by and not yet released from the  *)
(* present device.                                                         *)
Counted == {p \in Proc : ~fl[p].old /\ fl[p].at \in {"counted", "open", "setcb", "released"}}
Opened == {p \in Proc : fl[p].at \in {"open", "setcb"}}

(* Those for which openers was incremented and not yet decremented: a file *)
(* that is about to be refused, too.                                       *)
Holders == {p \in Proc : ~fl[p].old /\ fl[p].at \in {"counted", "open", "setcb", "released", "refused"}}

-----------------------------------------------------------------------------
(* nfb_char_open                                                           *)

(* The status is read under open_lock, and the lock is given back.         *)
char_open_lookup(p) ==
    /\ FileAt(p, "closed") /\ dev.published /\ dev.status = "ok"
    /\ FileGoto(p, "looked")
    /\ UNCHANGED <<dev, boot, drivers, booted, leaked>>

\* Mutant: the file that is refused is counted, too.
char_open_count_all(p) ==
    /\ FileAt(p, "looked")
    /\ dev' = [dev EXCEPT !.openers = IF fl[p].old THEN @ ELSE @ + 1]
    /\ FileGoto(p, "counted")
    /\ UNCHANGED <<boot, drivers, booted, leaked>>

(* atomic_inc_return.  The device may be gone by now (old): then the       *)
(* counter belongs to freed memory and is nobody's.                        *)
char_open_count(p) ==
    /\ FileAt(p, "looked")
    /\ dev' = [dev EXCEPT !.openers = IF fl[p].old THEN @ ELSE @ + 1]
    /\ FileGoto(p, IF p \in Booter /\ ~fl[p].old /\ dev.openers > 0 THEN "refused" ELSE "counted")
    /\ UNCHANGED <<boot, drivers, booted, leaked>>

char_open_refuse(p) ==
    /\ FileAt(p, "refused")
    /\ dev' = [dev EXCEPT !.openers = IF fl[p].old THEN @ ELSE @ - 1]
    /\ fl' = [fl EXCEPT ![p] = Closed]
    /\ UNCHANGED <<boot, drivers, booted, leaked>>

(* No memory, or the open of a child driver fails: those already opened    *)
(* are released, but the file stays counted.                               *)
char_open_fail(p) ==
    /\ leaked < LeakBound /\ FileAt(p, "counted")
    /\ leaked' = IF fl[p].old THEN leaked ELSE leaked + 1
    /\ fl' = [fl EXCEPT ![p] = Closed]
    /\ UNCHANGED <<dev, boot, drivers, booted>>

char_open(p) ==
    /\ FileAt(p, "counted")
    /\ FileGoto(p, "open")
    /\ UNCHANGED <<dev, boot, drivers, booted, leaked>>

-----------------------------------------------------------------------------
(* nfb_boot_ioctl                                                          *)

(* Error reporting of the bridge is saved and switched off.                *)
ioctl_error_disable(p) ==
    /\ FileAt(p, "open") /\ p \in Booter /\ "boot" \in drivers /\ ~fl[p].old
    /\ boot' = [boot EXCEPT !.saved = boot.errors, !.errors = "off"]
    /\ UNCHANGED <<dev, fl, drivers, booted, leaked>>

(* num_image is set before the callback is, and char_lr_cb is tested       *)
(* before open_lock is taken.                                              *)
ioctl_reload(p, image) ==
    /\ FileAt(p, "open") /\ p \in Booter /\ "boot" \in drivers /\ ~fl[p].old
    /\ boot' = [boot EXCEPT !.num_image = image]
    /\ FileGoto(p, IF dev.lr_cb THEN "open" ELSE "setcb")
    /\ UNCHANGED <<dev, drivers, booted, leaked>>

set_lr_callback(p) ==
    /\ FileAt(p, "setcb")
    /\ dev' = IF fl[p].old THEN dev ELSE [dev EXCEPT !.status = "release", !.lr_cb = TRUE]
    /\ FileGoto(p, "open")
    /\ UNCHANGED <<boot, drivers, booted, leaked>>

-----------------------------------------------------------------------------
(* nfb_char_release                                                        *)

(* The child drivers and the component locks are released first.           *)
char_release(p) ==
    /\ FileAt(p, "open")
    /\ FileGoto(p, "released")
    /\ UNCHANGED <<dev, boot, drivers, booted, leaked>>

(* atomic_dec_return, ...                                                  *)
char_release_count(p) ==
    /\ FileAt(p, "released")
    /\ dev' = [dev EXCEPT !.openers = IF fl[p].old THEN @ ELSE @ - 1]
    /\ fl' = [fl EXCEPT ![p] = IF dev'.openers = 0 /\ ~@.old THEN [@ EXCEPT !.at = "last"]
                                                             ELSE Closed]
    /\ UNCHANGED <<boot, drivers, booted, leaked>>

\* Mutant: the callback is run by the file that asked for it alone.
char_release_last_own(p) ==
    /\ FileAt(p, "last")
    /\ fl' = [fl EXCEPT ![p] = IF dev.lr_cb /\ ~@.old /\ p \in Booter
                               THEN [@ EXCEPT !.at = "reload"] ELSE Closed]
    /\ UNCHANGED <<dev, boot, drivers, booted, leaked>>

(* ... and the test of char_lr_cb, which may be another file's by now.     *)
char_release_last(p) ==
    /\ FileAt(p, "last")
    /\ fl' = [fl EXCEPT ![p] = IF dev.lr_cb /\ ~@.old THEN [@ EXCEPT !.at = "reload"] ELSE Closed]
    /\ UNCHANGED <<dev, boot, drivers, booted, leaked>>

-----------------------------------------------------------------------------
(* nfb_boot_reload, run by the last release                                *)

(* The driver of the network interfaces goes first, the command is sent.   *)
reload_command(p) ==
    /\ FileAt(p, "reload")
    /\ drivers' = drivers \ {"net"}
    /\ booted' = boot.num_image
    /\ FileGoto(p, "remove")
    /\ UNCHANGED <<dev, boot, leaked>>

(* nfb_remove: drivers are detached, then the device is unpublished and    *)
(* its memory freed.  Files that still refer to it refer to freed memory.  *)
nfb_remove_drivers(p) ==
    /\ FileAt(p, "remove") /\ drivers # {}
    /\ drivers' = {}
    /\ UNCHANGED <<dev, boot, fl, booted, leaked>>

nfb_remove(p) ==
    /\ FileAt(p, "remove") /\ drivers = {}
    /\ dev' = NewDev
    /\ leaked' = 0
    /\ fl' = [f \in Proc |-> IF f = p THEN [at |-> "rescan", old |-> TRUE]
                             ELSE IF fl[f].at = "closed" THEN fl[f] ELSE [fl[f] EXCEPT !.old = TRUE]]
    /\ UNCHANGED <<boot, drivers, booted>>

(* The rescan probes the device again: nfb_probe publishes it, attaches    *)
(* the drivers and enables opens.  Then the bridge is restored.            *)
nfb_probe_publish(p) ==
    /\ FileAt(p, "rescan") /\ ~dev.published
    /\ dev' = [dev EXCEPT !.published = TRUE]
    /\ UNCHANGED <<boot, fl, drivers, booted, leaked>>

nfb_probe_drivers(p) ==
    /\ FileAt(p, "rescan") /\ dev.published /\ dev.status = "init" /\ drivers = {}
    /\ drivers' = AllDrivers
    /\ UNCHANGED <<dev, boot, fl, booted, leaked>>

nfb_probe_enable(p) ==
    /\ FileAt(p, "rescan") /\ dev.published /\ dev.status = "init" /\ drivers = AllDrivers
    /\ dev' = [dev EXCEPT !.status = "ok"]
    /\ FileGoto(p, "restore")
    /\ UNCHANGED <<boot, drivers, booted, leaked>>

reload_rescan(p) ==
    /\ FileAt(p, "restore")
    /\ boot' = [boot EXCEPT !.errors = boot.saved]
    /\ fl' = [fl EXCEPT ![p] = Closed]
    /\ UNCHANGED <<dev, drivers, booted, leaked>>

-----------------------------------------------------------------------------
DeviceInit ==
    /\ dev = [NewDev EXCEPT !.status = "ok", !.published = TRUE]
    /\ boot = [num_image |-> NoImage, errors |-> "on", saved |-> "zero"]
    /\ fl = [p \in Proc |-> Closed]
    /\ drivers = AllDrivers
    /\ booted = NoImage
    /\ leaked = 0

(* The steps of a call that was begun, and the close of an open file.      *)
FileStep(p) ==
    \/ char_open_count(p) \/ char_open_refuse(p) \/ char_open(p)
    \/ set_lr_callback(p)
    \/ char_release(p) \/ char_release_count(p) \/ char_release_last(p)
    \/ reload_command(p) \/ nfb_remove_drivers(p) \/ nfb_remove(p)
    \/ nfb_probe_publish(p) \/ nfb_probe_drivers(p) \/ nfb_probe_enable(p)
    \/ reload_rescan(p)

DeviceNext ==
    \E p \in Proc :
       \/ char_open_lookup(p) \/ char_open_fail(p)
       \/ ioctl_error_disable(p)
       \/ \E image \in Image : ioctl_reload(p, image)
       \/ FileStep(p)

(* Calls return, and every application closes its file in the end.         *)
DeviceFairness == \A p \in Proc : WF_devVars(FileStep(p))

DeviceSpec == DeviceInit /\ [][DeviceNext]_devVars /\ DeviceFairness

-----------------------------------------------------------------------------
(* Properties                                                              *)

(* openers is exact, although nfb_char_open and nfb_char_release count     *)
(* outside any lock: it is the number of files that raised it, and of the  *)
(* opens that failed after they had.                                       *)
OpenersExact == dev.openers = Cardinality(Holders) + leaked

(* A file that is opened with O_APPEND is the only one at that moment      *)
(* (nfb_char_open's test of the count it has just raised).                 *)
AppendAlone ==
    [][\A p \in Booter : (FileAt(p, "looked") /\ fl'[p].at = "counted" /\ ~fl[p].old)
                            => Counted = {}]_devVars

(* The release that counts openers down to 0, and goes on to look at the   *)
(* callback, leaves no file of the device open (nfb_char_release).         *)
LastLeavesNone ==
    [][\A p \in Proc : (FileAt(p, "released") /\ fl'[p].at = "last") => Counted' = {}]_devVars

(* A reload is carried out by the last opener: nobody has the device open  *)
(* when the card is told to boot another image.                            *)
ReloadIsLast == \A p \in Proc : FileAt(p, "reload") => Opened = {}

(* A reload that was accepted takes place once the files are closed,       *)
(* unless an open failed after it was counted: then openers never reaches  *)
(* zero.                                                                   *)
ReloadHappens ==
    (dev.status = "release" /\ leaked = 0) ~> (dev.status = "init" \/ leaked > 0)
=============================================================================
