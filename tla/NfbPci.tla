------------------------------- MODULE NfbPci -------------------------------
(***************************************************************************)
(* The PCI half of the kernel driver: a card has one main endpoint and any *)
(* number of secondary ones ("subs"), each of them probed and removed on   *)
(* its own.  A main creates the nfb device and attaches the subs that have *)
(* the same serial number (DSN), a sub looks for its main, and whichever   *)
(* comes last must find the other.  They meet under three kinds of lock:   *)
(* global_pci_device_list_lock, global_try_attach_lock and the attach_lock *)
(* of every endpoint.                                                      *)
(*                                                                         *)
(* An nfb device is named by the endpoint that created it.  One process    *)
(* per endpoint runs probe and remove; job says how far it is.             *)
(***************************************************************************)
EXTENDS Naturals, FiniteSets

CONSTANTS
    Endpoint,
    NoOne,     \* no lock holder, no nfb device
    Main,      \* endpoints with driver_data and index 0
    Dsn,       \* endpoint -> device serial number, 0 when it has none
    PciWorlds     \* [present, overlap, subid]: the endpoints of the machine;
               \* whether probes may overlap; the mains with a sub_device_id

ASSUME PciConstants ==
    /\ Main \subseteq Endpoint /\ NoOne \notin Endpoint
    /\ Dsn \in [Endpoint -> Nat]
    /\ \A m, n \in Main : Dsn[m] = Dsn[n] /\ Dsn[m] # 0 => m = n   \* a card has one main
    /\ \A w \in PciWorlds : w.present \subseteq Endpoint /\ w.subid \subseteq Main

VARIABLES
    pci_world,
    pci_rec,            \* struct nfb_pci_device of each endpoint
    list_lock, try_lock, attach_lock,
    pci_devices,    \* nfb -> the endpoints in its list
    served,         \* nfb -> the endpoints its drivers were told of
    alive,          \* the nfb devices that exist
    pci_job

pciVars == <<pci_world, pci_rec, list_lock, try_lock, attach_lock, pci_devices, served, alive, pci_job>>

NewPciRec == [known |-> FALSE, drvdata |-> FALSE, main |-> FALSE, sub |-> FALSE, nfb |-> NoOne]
PciIdle == [at |-> "idle", tgt |-> NoOne, todo |-> {}, nfb |-> NoOne]

PciAt(e, l) == pci_job[e].at = l
PciBusy(e) == ~PciAt(e, "idle")
PciBound(e) == pci_rec[e].drvdata /\ ~PciBusy(e)
PciGoto(e, l) == pci_job' = [pci_job EXCEPT ![e].at = l]

Unheld(lock) == lock = NoOne
SameDevices == UNCHANGED <<pci_devices, served, alive>>
SameLocks == UNCHANGED <<list_lock, try_lock, attach_lock>>

-----------------------------------------------------------------------------
(* Which endpoint may become part of which device                          *)

is_attachable(nfb, e) ==
    /\ nfb # NoOne /\ nfb # e
    /\ nfb \in pci_world.subid => e \notin Main
    /\ nfb \notin pci_world.subid => pci_rec[nfb].drvdata /\ pci_rec[e].drvdata

device_is_attachable(nfb, e) ==
    pci_rec[e].nfb = NoOne /\ Dsn[nfb] # 0 /\ Dsn[nfb] = Dsn[e]

attach_endpoint(nfb, e) ==
    /\ pci_rec' = [pci_rec EXCEPT ![e].nfb = nfb]
    /\ pci_devices' = [pci_devices EXCEPT ![nfb] = @ \cup {e}]

-----------------------------------------------------------------------------
(* nfb_pci_probe                                                           *)

(* The PCI core runs one probe or remove at a time, unless endpoints are   *)
(* bound through sysfs or asynchronously.                                  *)
MayBegin == \A e \in Endpoint : ~PciBusy(e)

pci_probe(e) ==
    /\ e \in pci_world.present /\ ~PciBusy(e) /\ ~pci_rec[e].drvdata
    /\ MayBegin \/ (pci_world.overlap /\ \A d \in Endpoint : pci_job[d].at \notin {"rmlock", "rmsub", "detach"})
    /\ pci_job' = [pci_job EXCEPT ![e] = [PciIdle EXCEPT !.at = "list", !.tgt = e]]
    /\ UNCHANGED <<pci_world, pci_rec>> /\ SameLocks /\ SameDevices

(* nfb_pci_device_find_or_create: the list is locked first, the endpoint   *)
(* while the list is, and the list lock is given back.                     *)
find_lock(e) ==
    /\ PciAt(e, "list") /\ Unheld(list_lock)
    /\ list_lock' = e
    /\ PciGoto(e, "attach")
    /\ UNCHANGED <<pci_world, pci_rec, try_lock, attach_lock>> /\ SameDevices

find_or_create(e) ==
    LET t == pci_job[e].tgt IN
    /\ PciAt(e, "attach") /\ Unheld(attach_lock[t])
    /\ attach_lock' = [attach_lock EXCEPT ![t] = e]
    /\ list_lock' = NoOne
    /\ pci_rec' = [pci_rec EXCEPT ![t].known = TRUE]
    /\ PciGoto(e, IF t = e THEN "pci_probe" ELSE "slave")
    /\ UNCHANGED <<pci_world, try_lock>> /\ SameDevices

UnlockEndpoint(e) == attach_lock' = [attach_lock EXCEPT ![e] = NoOne]

probe_sub(e) ==
    /\ PciAt(e, "pci_probe") /\ e \notin Main
    /\ pci_rec' = [pci_rec EXCEPT ![e].drvdata = TRUE, ![e].sub = TRUE]
    /\ UnlockEndpoint(e) /\ PciGoto(e, "try")
    /\ UNCHANGED <<pci_world, list_lock, try_lock>> /\ SameDevices

(* nfb_pci_probe_main up to the search for subs, and its failure without a *)
(* usable device tree.                                                     *)
probe_main(e) ==
    /\ PciAt(e, "pci_probe") /\ e \in Main
    /\ pci_rec' = [pci_rec EXCEPT ![e].drvdata = TRUE, ![e].main = TRUE, ![e].nfb = e]
    /\ alive' = alive \cup {e}
    /\ pci_devices' = [pci_devices EXCEPT ![e] = {e}]
    /\ pci_job' = [pci_job EXCEPT ![e].at = "scan", ![e].todo = pci_world.present \ {e}]
    /\ UNCHANGED <<pci_world, served>> /\ SameLocks

probe_main_fails(e) ==
    /\ PciAt(e, "pci_probe") /\ e \in Main
    /\ UnlockEndpoint(e)
    /\ pci_job' = [pci_job EXCEPT ![e] = PciIdle]
    /\ UNCHANGED <<pci_world, pci_rec, list_lock, try_lock>> /\ SameDevices

(* nfb_pci_attach_all_slaves                                               *)
attach_all_slaves(e) ==
    /\ PciAt(e, "scan")
    /\ \E s \in pci_job[e].todo :
          pci_job' = [pci_job EXCEPT ![e].todo = @ \ {s}, ![e].tgt = s,
                             ![e].at = IF is_attachable(e, s) THEN "list" ELSE @]
    /\ UNCHANGED <<pci_world, pci_rec>> /\ SameLocks /\ SameDevices

attach_slave(e) ==
    LET s == pci_job[e].tgt IN
    /\ PciAt(e, "slave")
    /\ IF device_is_attachable(e, s) THEN attach_endpoint(e, s)
                                     ELSE UNCHANGED <<pci_rec, pci_devices>>
    /\ UnlockEndpoint(s) /\ PciGoto(e, "scan")
    /\ UNCHANGED <<pci_world, list_lock, try_lock, served, alive>>

(* nfb_probe: the drivers see the endpoints that are attached by now.      *)
nfb_probe(e) ==
    /\ PciAt(e, "scan") /\ pci_job[e].todo = {}
    /\ served' = [served EXCEPT ![e] = pci_devices[e]]
    /\ UnlockEndpoint(e) /\ PciGoto(e, "try")
    /\ UNCHANGED <<pci_world, pci_rec, list_lock, try_lock, pci_devices, alive>>

-----------------------------------------------------------------------------
(* nfb_pci_try_attach                                                      *)

try_attach_lock(e) ==
    /\ \/ PciAt(e, "try") /\ Unheld(try_lock) /\ try_lock' = e /\ PciGoto(e, "trylist")
          /\ UNCHANGED <<list_lock, attach_lock>>
       \/ PciAt(e, "trylist") /\ Unheld(list_lock) /\ list_lock' = e /\ PciGoto(e, "tryself")
          /\ UNCHANGED <<try_lock, attach_lock>>
       \/ PciAt(e, "tryself") /\ Unheld(attach_lock[e])
          /\ attach_lock' = [attach_lock EXCEPT ![e] = e]
          /\ pci_job' = [pci_job EXCEPT ![e].at = "loop",
                                ![e].todo = {d \in Endpoint \ {e} : pci_rec[d].known}]
          /\ UNCHANGED <<try_lock, list_lock>>
    /\ UNCHANGED <<pci_world, pci_rec>> /\ SameDevices

\* Mutant: only a main looks for the other half of its card.
try_attach_as_main(e) ==
    /\ PciAt(e, "loop")
    /\ \E d \in pci_job[e].todo :
          /\ pci_job' = [pci_job EXCEPT ![e].todo = @ \ {d}]
          /\ LET nfb == IF pci_rec[e].main THEN pci_rec[e].nfb ELSE NoOne IN
             IF Unheld(attach_lock[d]) /\ pci_rec[d].sub
                  /\ is_attachable(nfb, d) /\ device_is_attachable(nfb, d)
             THEN attach_endpoint(nfb, d)
                  /\ served' = [served EXCEPT ![nfb] = @ \cup {d}]
             ELSE UNCHANGED <<pci_rec, pci_devices, served>>
    /\ UNCHANGED <<pci_world, alive>> /\ SameLocks

(* One endpoint of the list, unless somebody holds it (mutex_trylock): a   *)
(* main takes a sub, a sub looks for its main.  nfb_probe_endpoint_late    *)
(* tells the drivers.                                                      *)
try_attach(e) ==
    /\ PciAt(e, "loop")
    /\ \E d \in pci_job[e].todo :
          /\ pci_job' = [pci_job EXCEPT ![e].todo = @ \ {d}]
          /\ LET nfb == IF pci_rec[e].main THEN pci_rec[e].nfb ELSE pci_rec[d].nfb
                 sub == IF pci_rec[e].main THEN d ELSE e IN
             IF /\ Unheld(attach_lock[d])
                /\ IF pci_rec[e].main THEN pci_rec[d].sub ELSE pci_rec[d].main
                /\ is_attachable(nfb, sub) /\ device_is_attachable(nfb, sub)
             THEN attach_endpoint(nfb, sub)
                  /\ served' = [served EXCEPT ![nfb] = @ \cup {sub}]
             ELSE UNCHANGED <<pci_rec, pci_devices, served>>
    /\ UNCHANGED <<pci_world, alive>> /\ SameLocks

try_attach_done(e) ==
    /\ PciAt(e, "loop") /\ pci_job[e].todo = {}
    /\ UnlockEndpoint(e) /\ list_lock' = NoOne /\ try_lock' = NoOne
    /\ pci_job' = [pci_job EXCEPT ![e] = PciIdle]
    /\ UNCHANGED <<pci_world, pci_rec>> /\ SameDevices

-----------------------------------------------------------------------------
(* nfb_pci_remove                                                          *)

(* The device is looked up before the endpoint is locked.                  *)
pci_remove(e) ==
    /\ PciBound(e) /\ MayBegin
    /\ pci_job' = [pci_job EXCEPT ![e].at = "rmlock", ![e].nfb = pci_rec[e].nfb]
    /\ UNCHANGED <<pci_world, pci_rec>> /\ SameLocks /\ SameDevices

(* A main that goes away has its drivers detached (nfb_remove).            *)
remove_lock(e) ==
    /\ PciAt(e, "rmlock") /\ Unheld(attach_lock[e])
    /\ attach_lock' = [attach_lock EXCEPT ![e] = e]
    /\ IF pci_rec[e].main
       THEN /\ pci_rec' = [pci_rec EXCEPT ![e].main = FALSE]
            /\ served' = [served EXCEPT ![pci_job[e].nfb] = {}]
            /\ PciGoto(e, "detach")
       ELSE UNCHANGED <<pci_rec, served>> /\ PciGoto(e, "rmsub")
    /\ UNCHANGED <<pci_world, list_lock, try_lock, pci_devices, alive>>

(* nfb_pci_detach_endpoint finds the endpoint only in the device's list.   *)
detach_endpoint(nfb, e) ==
    /\ pci_devices' = [pci_devices EXCEPT ![nfb] = @ \ {e}]
    /\ pci_rec' = [pci_rec EXCEPT ![e].nfb = IF e \in pci_devices[nfb] THEN NoOne ELSE @]

Unprobed(e) == [NewPciRec EXCEPT !.known = TRUE, !.nfb = pci_rec[e].nfb]

remove_sub(e) ==
    LET nfb == pci_job[e].nfb
        in == nfb # NoOne /\ e \in pci_devices[nfb] IN
    /\ PciAt(e, "rmsub")
    /\ pci_rec' = [pci_rec EXCEPT ![e] = IF in THEN [Unprobed(e) EXCEPT !.nfb = NoOne] ELSE Unprobed(e)]
    /\ pci_devices' = [n \in Endpoint |-> IF n = nfb THEN pci_devices[n] \ {e} ELSE pci_devices[n]]
    /\ served' = [n \in Endpoint |-> IF n = nfb THEN served[n] \ {e} ELSE served[n]]
    /\ UnlockEndpoint(e)
    /\ pci_job' = [pci_job EXCEPT ![e] = PciIdle]
    /\ UNCHANGED <<pci_world, list_lock, try_lock, alive>>

\* Mutant: the subs are left in the list of the device that is destroyed.
detach_self_only(e) ==
    /\ PciAt(e, "detach")
    /\ e \in pci_devices[pci_job[e].nfb] /\ detach_endpoint(pci_job[e].nfb, e)
    /\ pci_job' = [pci_job EXCEPT ![e].at = "destroy"]
    /\ UNCHANGED <<pci_world, served, alive>> /\ SameLocks

detach_endpoints(e) ==
    LET nfb == pci_job[e].nfb IN
    /\ PciAt(e, "detach")
    /\ \E d \in pci_devices[nfb] :
          /\ d = e \/ Unheld(attach_lock[d])
          /\ detach_endpoint(nfb, d)
          /\ PciGoto(e, IF pci_devices[nfb] = {d} THEN "destroy" ELSE "detach")
    /\ UNCHANGED <<pci_world, served, alive>> /\ SameLocks

remove_main(e) ==
    /\ PciAt(e, "destroy")
    /\ alive' = alive \ {pci_job[e].nfb}
    /\ pci_rec' = [pci_rec EXCEPT ![e] = Unprobed(e)]
    /\ UnlockEndpoint(e)
    /\ pci_job' = [pci_job EXCEPT ![e] = PciIdle]
    /\ UNCHANGED <<pci_world, list_lock, try_lock, pci_devices, served>>

-----------------------------------------------------------------------------
PciInit ==
    /\ pci_world \in PciWorlds
    /\ pci_rec = [e \in Endpoint |-> NewPciRec]
    /\ list_lock = NoOne /\ try_lock = NoOne
    /\ attach_lock = [e \in Endpoint |-> NoOne]
    /\ pci_devices = [e \in Endpoint |-> {}] /\ served = [e \in Endpoint |-> {}]
    /\ alive = {}
    /\ pci_job = [e \in Endpoint |-> PciIdle]

PciStep(e) ==
    \/ find_lock(e) \/ find_or_create(e)
    \/ probe_sub(e) \/ probe_main(e) \/ probe_main_fails(e)
    \/ attach_all_slaves(e) \/ attach_slave(e) \/ nfb_probe(e)
    \/ try_attach_lock(e) \/ try_attach(e) \/ try_attach_done(e)
    \/ remove_lock(e) \/ remove_sub(e) \/ detach_endpoints(e) \/ remove_main(e)

PciNext == \E e \in Endpoint : pci_probe(e) \/ pci_remove(e) \/ PciStep(e)

PciSpec == PciInit /\ [][PciNext]_pciVars

-----------------------------------------------------------------------------
(* Properties                                                              *)

(* Whatever the order of the probes, however those of one card overlap,    *)
(* and although try_attach passes over an endpoint it cannot lock: once    *)
(* nobody is in the driver, a sub and a main of one card that are both     *)
(* bound are parts of one device, and the device's drivers know of every   *)
(* endpoint it has.                                                        *)
PciAllAttached ==
    MayBegin =>
        /\ \A m, s \in Endpoint :
              (pci_rec[m].main /\ pci_rec[s].sub /\ Dsn[m] = Dsn[s] /\ Dsn[m] # 0) => pci_rec[s].nfb = m
        /\ \A m \in Endpoint : served[m] = pci_devices[m]

(* No endpoint refers to a device that was destroyed, neither in its       *)
(* record nor in a remove that looked it up before taking the lock; and an *)
(* endpoint is in the list of the device it refers to and in no other.     *)
(* Removes run alone, as the PCI core's own do (MayBegin).                 *)
PciNoDangling ==
    /\ \A e \in Endpoint : pci_rec[e].nfb # NoOne => pci_rec[e].nfb \in alive
    /\ \A e \in Endpoint : pci_job[e].nfb # NoOne => pci_job[e].nfb \in alive
    /\ \A m, e \in Endpoint : e \in pci_devices[m] <=> pci_rec[e].nfb = m

=============================================================================
