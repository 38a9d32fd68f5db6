---------------------------- MODULE NfbPciProofs ----------------------------
(***************************************************************************)
(* No endpoint of any machine refers to an nfb device that was destroyed.  *)
(*                                                                         *)
(* PciNoDangling is not inductive: that a main which is probed finds its   *)
(* list empty, that one which attaches subs is alive, and that a remove's  *)
(* device is still the endpoint's when it takes the lock depends on where  *)
(* every other endpoint is.  PciInv says what is true at each place.       *)
(***************************************************************************)
EXTENDS NfbPci, TLAPS

PciState == {"idle", "list", "attach", "pci_probe", "slave", "scan", "try", "trylist", "tryself",
             "loop", "rmlock", "rmsub", "detach", "destroy"}
MaybeNfb == Endpoint \cup {NoOne}
RecType == [known : BOOLEAN, drvdata : BOOLEAN, main : BOOLEAN, sub : BOOLEAN, nfb : MaybeNfb]
JobType == [at : PciState, tgt : MaybeNfb, todo : SUBSET Endpoint, nfb : MaybeNfb]

PciTypeOK ==
    /\ pci_world \in PciWorlds
    /\ pci_rec \in [Endpoint -> RecType]
    /\ pci_devices \in [Endpoint -> SUBSET Endpoint]
    /\ alive \in SUBSET Main
    /\ pci_job \in [Endpoint -> JobType]

Removing(e) == pci_job[e].at \in {"rmlock", "rmsub", "detach", "destroy"}
RemovesAlone(e) == pci_job[e].at \in {"rmlock", "rmsub", "detach"}

(* Probing an endpoint for itself, and a main that goes through its subs.  *)
Probing(e) == \/ pci_job[e].at \in {"list", "attach"} /\ pci_job[e].tgt = e
              \/ pci_job[e].at = "pci_probe"
Scanning(e) == \/ pci_job[e].at \in {"list", "attach"} /\ pci_job[e].tgt # e
               \/ pci_job[e].at \in {"scan", "slave"}

(* An endpoint and its device: the list holds those that refer to it, it   *)
(* exists, and it is a main's own.                                         *)
RecInv ==
    /\ \A m, e \in Endpoint : e \in pci_devices[m] <=> pci_rec[e].nfb = m
    /\ \A e \in Endpoint : pci_rec[e].nfb # NoOne => pci_rec[e].nfb \in alive
    /\ \A e \in Main : pci_rec[e].nfb # NoOne => pci_rec[e].nfb = e
    /\ \A e \in Endpoint : pci_rec[e].main => e \in Main /\ pci_rec[e].nfb = e
    /\ \A e \in alive : pci_rec[e].drvdata

(* Where an endpoint is in probe or remove, and what it may rely on there. *)
JobOk(e) ==
    /\ pci_job[e].at \in {"list", "attach", "slave"} => pci_job[e].tgt \in Endpoint
    /\ Probing(e) => ~pci_rec[e].drvdata
    /\ Scanning(e) => pci_rec[e].main
    /\ e \in Main /\ pci_rec[e].drvdata => pci_rec[e].main \/ pci_job[e].at \in {"detach", "destroy"}
    /\ Removing(e) => pci_rec[e].drvdata
    /\ ~Removing(e) => pci_job[e].nfb = NoOne
    /\ pci_job[e].at \in {"rmlock", "rmsub"} => pci_job[e].nfb = pci_rec[e].nfb
    /\ pci_job[e].at = "rmsub" => e \notin Main
    /\ pci_job[e].at \in {"detach", "destroy"} => pci_job[e].nfb = e /\ e \in alive /\ ~pci_rec[e].main
    /\ pci_job[e].at = "destroy" => pci_devices[e] = {}

JobInv == \A e \in Endpoint : JobOk(e)

(* A remove begins when nobody else is in the driver, and no probe begins  *)
(* before it has emptied the list.                                         *)
AloneInv ==
    \A e, d \in Endpoint : e # d =>
       /\ Removing(e) => ~Removing(d)
       /\ RemovesAlone(e) => pci_job[d].at = "idle"

PciInv == PciTypeOK /\ RecInv /\ JobInv /\ AloneInv

-----------------------------------------------------------------------------
(* What a step leaves alone                                                *)

\* What is true of an endpoint stays true when neither its job nor its record changes.
LEMMA JobFrame ==
  ASSUME NEW d \in Endpoint, JobOk(d), pci_job'[d] = pci_job[d], pci_rec'[d] = pci_rec[d],
         d \in alive => d \in alive', pci_devices[d] = {} => pci_devices'[d] = {}
  PROVE  JobOk(d)'
BY DEF JobOk, Probing, Scanning, Removing

\* A step of an endpoint that is in the driver, and that does not begin a remove.
LEMMA AloneFrame ==
  ASSUME AloneInv, NEW e \in Endpoint, PciBusy(e),
         \A d \in Endpoint \ {e} : pci_job'[d] = pci_job[d],
         Removing(e)' => Removing(e), RemovesAlone(e)' => RemovesAlone(e)
  PROVE  AloneInv'
BY DEF AloneInv, Removing, RemovesAlone, PciBusy, PciAt

\* A step that changes no record and no device.
LEMMA RecFrame ==
  ASSUME RecInv, UNCHANGED <<pci_rec, pci_devices, alive>>
  PROVE  RecInv'
BY DEF RecInv

LEMMA TypesOfUpdates ==
  /\ NewPciRec \in RecType /\ PciIdle \in JobType
  /\ \A r \in RecType, n \in MaybeNfb :
        /\ [r EXCEPT !.nfb = n] \in RecType
        /\ [r EXCEPT !.nfb = n].nfb = n /\ [r EXCEPT !.nfb = n].main = r.main
        /\ [r EXCEPT !.nfb = n].drvdata = r.drvdata
  /\ \A j \in JobType, l \in PciState :
        /\ [j EXCEPT !.at = l] \in JobType
        /\ [j EXCEPT !.at = l].at = l /\ [j EXCEPT !.at = l].nfb = j.nfb /\ [j EXCEPT !.at = l].tgt = j.tgt
<1>1. NewPciRec \in RecType /\ PciIdle \in JobType
  BY DEF NewPciRec, PciIdle, RecType, JobType, MaybeNfb, PciState
<1>2. \A r \in RecType, n \in MaybeNfb :
        /\ [r EXCEPT !.nfb = n] \in RecType
        /\ [r EXCEPT !.nfb = n].nfb = n /\ [r EXCEPT !.nfb = n].main = r.main
        /\ [r EXCEPT !.nfb = n].drvdata = r.drvdata
  BY DEF RecType
<1>3. \A j \in JobType, l \in PciState :
        /\ [j EXCEPT !.at = l] \in JobType
        /\ [j EXCEPT !.at = l].at = l /\ [j EXCEPT !.at = l].nfb = j.nfb /\ [j EXCEPT !.at = l].tgt = j.tgt
  BY DEF JobType
<1> QED
  BY <1>1, <1>2, <1>3

\* What PciGoto changes.
LEMMA GotoView ==
  ASSUME PciTypeOK, NEW e \in Endpoint, NEW l \in PciState, PciGoto(e, l)
  PROVE  /\ pci_job' \in [Endpoint -> JobType]
         /\ pci_job'[e].at = l /\ pci_job'[e].nfb = pci_job[e].nfb /\ pci_job'[e].tgt = pci_job[e].tgt
         /\ \A d \in Endpoint \ {e} : pci_job'[d] = pci_job[d]
<1>1. pci_job' = [pci_job EXCEPT ![e] = [pci_job[e] EXCEPT !.at = l]] /\ pci_job[e] \in JobType
  BY DEF PciGoto, PciTypeOK
<1>2. pci_job'[e] = [pci_job[e] EXCEPT !.at = l] /\ [pci_job[e] EXCEPT !.at = l] \in JobType
  BY <1>1, TypesOfUpdates DEF PciTypeOK
<1> QED
  BY <1>1, <1>2, TypesOfUpdates DEF PciTypeOK

\* A step that changes the job of one endpoint, and nothing else that PciInv is about.
LEMMA QuietStep ==
  ASSUME PciInv, NEW e \in Endpoint, UNCHANGED <<pci_world, pci_rec, pci_devices, alive>>,
         pci_job' \in [Endpoint -> JobType], \A d \in Endpoint \ {e} : pci_job'[d] = pci_job[d],
         JobOk(e)', AloneInv'
  PROVE  PciInv'
<1>1. \A d \in Endpoint \ {e} : JobOk(d)'
  BY JobFrame DEF PciInv, JobInv
<1>2. JobInv'
  BY <1>1 DEF JobInv
<1> QED
  BY <1>2, RecFrame DEF PciInv, PciTypeOK

-----------------------------------------------------------------------------
(* The steps that change no record                                         *)

LEMMA ProbeBegins ==
  ASSUME PciInv, NEW e \in Endpoint, pci_probe(e)
  PROVE  PciInv'
<1> DEFINE j == [PciIdle EXCEPT !.at = "list", !.tgt = e]
<1>1. j \in JobType /\ j.at = "list" /\ j.tgt = e /\ j.nfb = NoOne
  BY Zenon DEF PciIdle, JobType, MaybeNfb, PciState
<1>2. /\ pci_job' \in [Endpoint -> JobType] /\ pci_job'[e] = j
      /\ \A d \in Endpoint \ {e} : pci_job'[d] = pci_job[d]
  BY <1>1 DEF pci_probe, PciInv, PciTypeOK
<1>3. UNCHANGED <<pci_world, pci_rec, pci_devices, alive>> /\ ~pci_rec[e].drvdata
  BY DEF pci_probe, SameDevices
<1>4. JobOk(e)'
  BY <1>1, <1>2, <1>3 DEF JobOk, Probing, Scanning, Removing
<1>5. \A d \in Endpoint : pci_job[d].at \notin {"rmlock", "rmsub", "detach"}
  BY DEF pci_probe, MayBegin, PciBusy, PciAt
<1>6. AloneInv'
  BY Zenon, <1>1, <1>2, <1>5 DEF AloneInv, Removing, RemovesAlone, PciInv
<1> QED
  BY <1>2, <1>3, <1>4, <1>6, QuietStep

LEMMA RemoveBegins ==
  ASSUME PciInv, NEW e \in Endpoint, pci_remove(e)
  PROVE  PciInv'
<1>0. PciTypeOK /\ JobOk(e) /\ pci_rec[e] \in RecType /\ pci_job[e] \in JobType
  BY DEF PciInv, JobInv, PciTypeOK
<1> DEFINE j == [pci_job[e] EXCEPT !.at = "rmlock", !.nfb = pci_rec[e].nfb]
<1>1. j \in JobType /\ j.at = "rmlock" /\ j.nfb = pci_rec[e].nfb
  BY Zenon, <1>0 DEF JobType, RecType, PciState
<1>2. /\ pci_job' \in [Endpoint -> JobType] /\ pci_job'[e] = j
      /\ \A d \in Endpoint \ {e} : pci_job'[d] = pci_job[d]
  BY <1>0, <1>1 DEF pci_remove, PciTypeOK
<1>3. /\ UNCHANGED <<pci_world, pci_rec, pci_devices, alive>> /\ pci_rec[e].drvdata
      /\ \A d \in Endpoint : pci_job[d].at = "idle"
  BY DEF pci_remove, SameDevices, PciBound, MayBegin, PciBusy, PciAt
<1>4. JobOk(e)'
  BY <1>0, <1>1, <1>2, <1>3 DEF JobOk, Probing, Scanning, Removing
<1>5. AloneInv'
  BY <1>1, <1>2, <1>3 DEF AloneInv, Removing, RemovesAlone
<1> QED
  BY <1>2, <1>3, <1>4, <1>5, QuietStep

\* The steps that take locks, and nfb_probe.
LEMMA Waits ==
  ASSUME PciInv, NEW e \in Endpoint, NEW l \in PciState, PciGoto(e, l),
         UNCHANGED <<pci_world, pci_rec, pci_devices, alive>>,
         \/ pci_job[e].at = "list" /\ l = "attach"
         \/ pci_job[e].at \in {"scan", "try", "trylist"} /\ l \in {"try", "trylist", "tryself"}
  PROVE  PciInv'
<1>0. PciTypeOK /\ JobOk(e) /\ AloneInv
  BY DEF PciInv, JobInv
<1>1. /\ pci_job' \in [Endpoint -> JobType]
      /\ pci_job'[e].at = l /\ pci_job'[e].nfb = pci_job[e].nfb /\ pci_job'[e].tgt = pci_job[e].tgt
      /\ \A d \in Endpoint \ {e} : pci_job'[d] = pci_job[d]
  BY <1>0, GotoView
<1>2. JobOk(e)'
  BY <1>0, <1>1 DEF JobOk, Probing, Scanning, Removing
<1>3. AloneInv'
  BY <1>0, <1>1, AloneFrame DEF PciBusy, PciAt, Removing, RemovesAlone
<1> QED
  BY <1>1, <1>2, <1>3, QuietStep

LEMMA ProbeEnds ==
  ASSUME PciInv, NEW e \in Endpoint, probe_main_fails(e) \/ try_attach_done(e)
  PROVE  PciInv'
<1>0. PciTypeOK /\ JobOk(e) /\ AloneInv
  BY DEF PciInv, JobInv
<1>1. PciIdle.at = "idle" /\ PciIdle.nfb = NoOne /\ PciIdle \in JobType
  BY TypesOfUpdates DEF PciIdle
<1>2. /\ pci_job' \in [Endpoint -> JobType] /\ pci_job'[e] = PciIdle
      /\ \A d \in Endpoint \ {e} : pci_job'[d] = pci_job[d]
  BY <1>0, <1>1 DEF probe_main_fails, try_attach_done, PciTypeOK
<1>3. /\ UNCHANGED <<pci_world, pci_rec, pci_devices, alive>>
      /\ pci_job[e].at \in {"pci_probe", "loop"}
  BY DEF probe_main_fails, try_attach_done, SameDevices, PciAt
<1>4. JobOk(e)'
  BY <1>0, <1>1, <1>2, <1>3 DEF JobOk, Probing, Scanning, Removing
<1>5. AloneInv'
  BY <1>0, <1>1, <1>2, <1>3, AloneFrame DEF PciBusy, PciAt, Removing, RemovesAlone
<1> QED
  BY <1>2, <1>3, <1>4, <1>5, QuietStep

LEMMA Scans ==
  ASSUME PciInv, NEW e \in Endpoint, attach_all_slaves(e)
  PROVE  PciInv'
<1>0. PciTypeOK /\ JobOk(e) /\ AloneInv /\ pci_job[e] \in JobType
  BY DEF PciInv, JobInv, PciTypeOK
<1>1. /\ UNCHANGED <<pci_world, pci_rec, pci_devices, alive>>
      /\ pci_job[e].at = "scan"
  BY DEF attach_all_slaves, SameDevices, PciAt
<1>2. PICK s \in pci_job[e].todo :
         pci_job' = [pci_job EXCEPT ![e] = [pci_job[e] EXCEPT !.todo = @ \ {s}, !.tgt = s,
                                               !.at = IF is_attachable(e, s) THEN "list" ELSE @]]
  BY Zenon, <1>0 DEF attach_all_slaves, PciTypeOK
<1> DEFINE j == [pci_job[e] EXCEPT !.todo = @ \ {s}, !.tgt = s,
                                   !.at = IF is_attachable(e, s) THEN "list" ELSE @]
<1>3. s \in Endpoint
  BY <1>0 DEF JobType
<1>4. j \in JobType /\ j.tgt = s /\ j.nfb = pci_job[e].nfb /\ j.at = IF is_attachable(e, s) THEN "list" ELSE "scan"
  BY Zenon, <1>0, <1>1, <1>3 DEF JobType, MaybeNfb, PciState
<1>5. /\ pci_job' \in [Endpoint -> JobType] /\ pci_job'[e] = j
      /\ \A d \in Endpoint \ {e} : pci_job'[d] = pci_job[d]
  BY <1>0, <1>2, <1>4 DEF PciTypeOK
<1>6. JobOk(e)'
  BY <1>0, <1>1, <1>3, <1>4, <1>5 DEF JobOk, Probing, Scanning, Removing, is_attachable
<1>7. AloneInv'
  <2>1. pci_job'[e].at \in {"list", "scan"}
    BY <1>4, <1>5
  <2>2. ~Removing(e)' /\ ~RemovesAlone(e)'
    BY <2>1 DEF Removing, RemovesAlone
  <2> QED
    BY <1>0, <1>1, <1>5, <2>2, AloneFrame DEF PciBusy, PciAt
<1> QED
  BY <1>1, <1>5, <1>6, <1>7, QuietStep

LEMMA LocksSelf ==
  ASSUME PciInv, NEW e \in Endpoint, try_attach_lock(e), PciAt(e, "tryself")
  PROVE  PciInv'
<1>0. PciTypeOK /\ JobOk(e) /\ AloneInv /\ pci_job[e] \in JobType
  BY DEF PciInv, JobInv, PciTypeOK
<1>1. /\ UNCHANGED <<pci_world, pci_rec, pci_devices, alive>>
      /\ pci_job[e].at = "tryself"
      /\ pci_job' = [pci_job EXCEPT ![e] = [pci_job[e] EXCEPT !.at = "loop",
                                               !.todo = {d \in Endpoint \ {e} : pci_rec[d].known}]]
  BY Zenon, <1>0 DEF try_attach_lock, SameDevices, PciAt, PciTypeOK
<1> DEFINE j == [pci_job[e] EXCEPT !.at = "loop", !.todo = {d \in Endpoint \ {e} : pci_rec[d].known}]
<1>2. j \in JobType /\ j.nfb = pci_job[e].nfb /\ j.at = "loop"
  BY Zenon, <1>0 DEF JobType, PciState
<1>3. /\ pci_job' \in [Endpoint -> JobType] /\ pci_job'[e] = j
      /\ \A d \in Endpoint \ {e} : pci_job'[d] = pci_job[d]
  BY <1>0, <1>1, <1>2 DEF PciTypeOK
<1>4. JobOk(e)'
  BY <1>0, <1>1, <1>2, <1>3 DEF JobOk, Probing, Scanning, Removing
<1>5. AloneInv'
  BY Zenon, <1>0, <1>1, <1>2, <1>3, AloneFrame DEF PciBusy, PciAt, Removing, RemovesAlone
<1> QED
  BY Zenon, <1>1, <1>3, <1>4, <1>5, QuietStep

-----------------------------------------------------------------------------
(* The steps that change records                                           *)

\* What a step of e must show: its new job and record, those of the others it may change, RecInv.
LEMMA LoudStep ==
  ASSUME PciInv, PciTypeOK', RecInv', NEW e \in Endpoint, PciBusy(e),
         \A d \in Endpoint \ {e} : pci_job'[d] = pci_job[d],
         \A d \in Endpoint : JobOk(d)',
         Removing(e)' => Removing(e), RemovesAlone(e)' => RemovesAlone(e)
  PROVE  PciInv'
BY AloneFrame DEF PciInv, JobInv

LEMMA FindsOrCreates ==
  ASSUME PciInv, NEW e \in Endpoint, find_or_create(e)
  PROVE  PciInv'
<1>0. PciTypeOK /\ RecInv /\ (\A d \in Endpoint : JobOk(d)) /\ pci_job[e].at = "attach"
  BY DEF PciInv, JobInv, find_or_create, PciAt
<1> DEFINE t == pci_job[e].tgt
           l == IF t = e THEN "pci_probe" ELSE "slave"
<1>1. /\ UNCHANGED <<pci_world, pci_devices, alive>>
      /\ pci_rec' = [pci_rec EXCEPT ![t].known = TRUE]
      /\ PciGoto(e, l) /\ l \in PciState
  BY DEF find_or_create, SameDevices, PciState
<1>2. /\ pci_job' \in [Endpoint -> JobType]
      /\ pci_job'[e].at = l /\ pci_job'[e].nfb = pci_job[e].nfb /\ pci_job'[e].tgt = pci_job[e].tgt
      /\ \A d \in Endpoint \ {e} : pci_job'[d] = pci_job[d]
  BY <1>0, <1>1, GotoView
<1>3. pci_rec' \in [Endpoint -> RecType]
  BY Zenon, <1>0, <1>1 DEF PciTypeOK, RecType
<1>4. \A d \in Endpoint : /\ pci_rec'[d].drvdata = pci_rec[d].drvdata /\ pci_rec'[d].main = pci_rec[d].main
                           /\ pci_rec'[d].nfb = pci_rec[d].nfb
  BY <1>0, <1>1 DEF PciTypeOK, RecType
<1>5. PciTypeOK' /\ RecInv'
  BY <1>0, <1>1, <1>2, <1>3, <1>4 DEF PciTypeOK, RecInv
<1>6. JobOk(e)'
  BY <1>0, <1>1, <1>2, <1>4 DEF JobOk, Probing, Scanning, Removing
<1>7. \A d \in Endpoint \ {e} : JobOk(d)'
  BY <1>0, <1>1, <1>2, <1>4 DEF JobOk, Probing, Scanning, Removing
<1>8. ~Removing(e)' /\ ~RemovesAlone(e)'
  BY <1>2 DEF Removing, RemovesAlone
<1> QED
  BY <1>0, <1>2, <1>5, <1>6, <1>7, <1>8, LoudStep DEF PciBusy, PciAt

LEMMA ProbesSub ==
  ASSUME PciInv, NEW e \in Endpoint, probe_sub(e)
  PROVE  PciInv'
<1>0. PciTypeOK /\ RecInv /\ (\A d \in Endpoint : JobOk(d)) /\ pci_job[e].at = "pci_probe" /\ e \notin Main
  BY DEF PciInv, JobInv, probe_sub, PciAt
<1>1. /\ UNCHANGED <<pci_world, pci_devices, alive>>
      /\ pci_rec' = [pci_rec EXCEPT ![e] = [pci_rec[e] EXCEPT !.drvdata = TRUE, !.sub = TRUE]]
      /\ PciGoto(e, "try") /\ "try" \in PciState
  BY Zenon, <1>0 DEF probe_sub, SameDevices, PciState, PciTypeOK
<1>2. /\ pci_job' \in [Endpoint -> JobType]
      /\ pci_job'[e].at = "try" /\ pci_job'[e].nfb = pci_job[e].nfb
      /\ \A d \in Endpoint \ {e} : pci_job'[d] = pci_job[d]
  BY <1>0, <1>1, GotoView
<1>3. /\ [pci_rec[e] EXCEPT !.drvdata = TRUE, !.sub = TRUE] \in RecType
      /\ [pci_rec[e] EXCEPT !.drvdata = TRUE, !.sub = TRUE].main = pci_rec[e].main
      /\ [pci_rec[e] EXCEPT !.drvdata = TRUE, !.sub = TRUE].nfb = pci_rec[e].nfb
  BY Zenon, <1>0 DEF PciTypeOK, RecType
<1>4. /\ pci_rec' \in [Endpoint -> RecType]
      /\ pci_rec'[e].main = pci_rec[e].main /\ pci_rec'[e].nfb = pci_rec[e].nfb
      /\ \A d \in Endpoint \ {e} : pci_rec'[d] = pci_rec[d]
  BY <1>0, <1>1, <1>3 DEF PciTypeOK
<1>5. PciTypeOK' /\ RecInv'
  BY <1>0, <1>1, <1>2, <1>4 DEF PciTypeOK, RecInv
<1>6. JobOk(e)'
  BY <1>0, <1>1, <1>2, <1>4 DEF JobOk, Probing, Scanning, Removing
<1>7. \A d \in Endpoint \ {e} : JobOk(d)'
  BY <1>0, <1>1, <1>2, <1>4, JobFrame
<1>8. ~Removing(e)' /\ ~RemovesAlone(e)'
  BY <1>2 DEF Removing, RemovesAlone
<1> QED
  BY <1>0, <1>2, <1>5, <1>6, <1>7, <1>8, LoudStep DEF PciBusy, PciAt

\* A main that is probed becomes a device of its own, which nobody referred to.
LEMMA ProbesMain ==
  ASSUME PciInv, NEW e \in Endpoint, probe_main(e)
  PROVE  PciInv'
<1>0. PciTypeOK /\ RecInv /\ (\A d \in Endpoint : JobOk(d)) /\ pci_job[e].at = "pci_probe" /\ e \in Main
  BY DEF PciInv, JobInv, probe_main, PciAt
<1> DEFINE j == [pci_job[e] EXCEPT !.at = "scan", !.todo = pci_world.present \ {e}]
           r == [pci_rec[e] EXCEPT !.drvdata = TRUE, !.main = TRUE, !.nfb = e]
<1>1. /\ pci_world' = pci_world /\ alive' = alive \cup {e}
      /\ pci_devices' = [pci_devices EXCEPT ![e] = {e}]
      /\ pci_rec' = [pci_rec EXCEPT ![e] = r]
      /\ pci_job' = [pci_job EXCEPT ![e] = j]
  BY Zenon, <1>0 DEF probe_main, PciTypeOK
<1>2. j \in JobType /\ j.at = "scan" /\ j.nfb = pci_job[e].nfb
  <2>1. pci_world.present \ {e} \in SUBSET Endpoint
    BY <1>0, PciConstants DEF PciTypeOK
  <2>2. \A i \in JobType, T \in SUBSET Endpoint :
           /\ [i EXCEPT !.at = "scan", !.todo = T] \in JobType
           /\ [i EXCEPT !.at = "scan", !.todo = T].at = "scan"
           /\ [i EXCEPT !.at = "scan", !.todo = T].nfb = i.nfb
    BY Zenon DEF JobType, PciState
  <2>3. pci_job[e] \in JobType
    BY <1>0 DEF PciTypeOK
  <2> QED
    BY Zenon, <2>1, <2>2, <2>3
<1>3. r \in RecType /\ r.drvdata /\ r.main /\ r.nfb = e
  BY Zenon, <1>0 DEF PciTypeOK, RecType, MaybeNfb
<1>4. /\ pci_job' \in [Endpoint -> JobType] /\ pci_job'[e] = j
      /\ \A d \in Endpoint \ {e} : pci_job'[d] = pci_job[d]
  BY <1>0, <1>1, <1>2 DEF PciTypeOK
<1>5. /\ pci_rec' \in [Endpoint -> RecType]
      /\ pci_rec'[e].drvdata /\ pci_rec'[e].main /\ pci_rec'[e].nfb = e
      /\ \A d \in Endpoint \ {e} : pci_rec'[d] = pci_rec[d]
  <2>1. pci_rec'[e] = r /\ pci_rec' \in [Endpoint -> RecType]
    BY <1>0, <1>1, <1>3 DEF PciTypeOK
  <2>2. \A d \in Endpoint \ {e} : pci_rec'[d] = pci_rec[d]
    BY <1>0, <1>1 DEF PciTypeOK
  <2> QED
    BY <1>3, <2>1, <2>2
<1>6. e \notin alive /\ pci_rec[e].nfb = NoOne
  BY <1>0 DEF JobOk, Probing, RecInv
<1>7. pci_devices[e] = {} /\ (\A d \in Endpoint : pci_rec[d].nfb # e)
  BY <1>0, <1>6, PciConstants DEF RecInv, PciTypeOK
<1>8. /\ pci_devices' \in [Endpoint -> SUBSET Endpoint] /\ pci_devices'[e] = {e}
      /\ \A d \in Endpoint \ {e} : pci_devices'[d] = pci_devices[d]
  BY <1>0, <1>1 DEF PciTypeOK
<1>9. PciTypeOK'
  BY <1>0, <1>1, <1>4, <1>5, <1>8 DEF PciTypeOK
<1>10. RecInv'
  <2>1. \A m, d \in Endpoint : d \in pci_devices'[m] <=> pci_rec'[d].nfb = m
    BY <1>0, <1>5, <1>6, <1>7, <1>8, PciConstants DEF RecInv
  <2>2. \A d \in Endpoint : pci_rec'[d].nfb # NoOne => pci_rec'[d].nfb \in alive'
    BY <1>0, <1>1, <1>5 DEF RecInv
  <2>3. /\ \A d \in Main : pci_rec'[d].nfb # NoOne => pci_rec'[d].nfb = d
        /\ \A d \in Endpoint : pci_rec'[d].main => d \in Main /\ pci_rec'[d].nfb = d
    BY <1>0, <1>5, PciConstants DEF RecInv
  <2>4. \A d \in alive' : pci_rec'[d].drvdata
    BY <1>0, <1>1, <1>5, PciConstants DEF RecInv, PciTypeOK
  <2> QED
    BY <2>1, <2>2, <2>3, <2>4 DEF RecInv
<1>11. JobOk(e)'
  BY <1>0, <1>2, <1>4, <1>5 DEF JobOk, Probing, Scanning, Removing
<1>12. \A d \in Endpoint \ {e} : JobOk(d)'
  BY <1>0, <1>1, <1>4, <1>5, <1>8, JobFrame
<1>13. ~Removing(e)' /\ ~RemovesAlone(e)'
  BY <1>2, <1>4 DEF Removing, RemovesAlone
<1> QED
  BY <1>0, <1>4, <1>9, <1>10, <1>11, <1>12, <1>13, LoudStep DEF PciBusy, PciAt

\* attach_endpoint, of a sub that has no device to a main that is in its own.
LEMMA Attaches ==
  ASSUME PciInv, NEW e \in Endpoint, NEW n \in Endpoint, NEW s \in Endpoint,
         attach_endpoint(n, s), pci_rec[n].main, n # s, device_is_attachable(n, s),
         pci_world' = pci_world, alive' = alive,
         pci_job[e].at \in {"slave", "loop"}, pci_job'[e].at \in {"scan", "loop"},
         pci_job[e].at = "slave" \/ pci_job'[e].at = "loop",
         pci_job'[e].nfb = pci_job[e].nfb, pci_job' \in [Endpoint -> JobType],
         \A d \in Endpoint \ {e} : pci_job'[d] = pci_job[d]
  PROVE  PciInv'
<1>0. PciTypeOK /\ RecInv /\ (\A d \in Endpoint : JobOk(d)) /\ AloneInv
  BY DEF PciInv, JobInv
<1>1. n \in Main /\ n \in alive /\ s \notin Main
  BY <1>0, PciConstants DEF RecInv, PciTypeOK, device_is_attachable
<1>2. pci_rec[s].nfb = NoOne /\ [pci_rec[s] EXCEPT !.nfb = n] \in RecType
  BY <1>0 DEF device_is_attachable, PciTypeOK, RecType, MaybeNfb
<1>3. /\ pci_rec' \in [Endpoint -> RecType]
      /\ pci_rec'[s].nfb = n /\ pci_rec'[s].main = pci_rec[s].main /\ pci_rec'[s].drvdata = pci_rec[s].drvdata
      /\ \A d \in Endpoint \ {s} : pci_rec'[d] = pci_rec[d]
  <2>1. pci_rec' = [pci_rec EXCEPT ![s] = [pci_rec[s] EXCEPT !.nfb = n]] /\ pci_rec[s] \in RecType
    BY <1>0 DEF attach_endpoint, PciTypeOK
  <2>2. pci_rec'[s] = [pci_rec[s] EXCEPT !.nfb = n]
    BY <1>0, <2>1 DEF PciTypeOK
  <2> QED
    BY <1>0, <1>2, <2>1, <2>2, TypesOfUpdates DEF PciTypeOK, MaybeNfb
<1>4. /\ pci_devices' \in [Endpoint -> SUBSET Endpoint] /\ pci_devices'[n] = pci_devices[n] \cup {s}
      /\ \A d \in Endpoint \ {n} : pci_devices'[d] = pci_devices[d]
  BY <1>0 DEF attach_endpoint, PciTypeOK
<1>5. PciTypeOK'
  BY <1>0, <1>3, <1>4 DEF PciTypeOK
<1>6. RecInv'
  <2>1. \A m, d \in Endpoint : d \in pci_devices'[m] <=> pci_rec'[d].nfb = m
    BY <1>0, <1>2, <1>3, <1>4, PciConstants DEF RecInv
  <2>2. \A d \in Endpoint : pci_rec'[d].nfb # NoOne => pci_rec'[d].nfb \in alive'
    BY <1>0, <1>1, <1>3 DEF RecInv
  <2>3. /\ \A d \in Main : pci_rec'[d].nfb # NoOne => pci_rec'[d].nfb = d
        /\ \A d \in Endpoint : pci_rec'[d].main => d \in Main /\ pci_rec'[d].nfb = d
    BY <1>0, <1>1, <1>3, PciConstants DEF RecInv
  <2>4. \A d \in alive' : pci_rec'[d].drvdata
    BY <1>0, <1>3, PciConstants DEF RecInv, PciTypeOK
  <2> QED
    BY <2>1, <2>2, <2>3, <2>4 DEF RecInv
<1>7. \A d \in Endpoint \ {n} : pci_devices[d] = {} => pci_devices'[d] = {}
  BY <1>4
<1>8. \A d \in Endpoint \ {e, n, s} : JobOk(d)'
  BY <1>0, <1>3, <1>7, JobFrame
<1>9. JobOk(n)'
  BY <1>0, <1>3 DEF JobOk, Probing, Scanning, Removing
<1>10. JobOk(s)'
  <2>1. pci_job[s].at \notin {"rmlock", "rmsub"}
    BY <1>0 DEF AloneInv, RemovesAlone
  <2>2. s # e => JobOk(s)'
    BY <1>0, <1>3, <1>4, <2>1 DEF JobOk, Probing, Scanning, Removing
  <2>3. s = e => JobOk(s)'
    BY <1>0, <1>1, <1>3, <1>4 DEF JobOk, Probing, Scanning, Removing, RecInv
  <2> QED
    BY <2>2, <2>3
<1>11. e \notin {n, s} => JobOk(e)'
  BY <1>0, <1>3, <1>4 DEF JobOk, Probing, Scanning, Removing
<1>12. ~Removing(e)' /\ ~RemovesAlone(e)'
  BY DEF Removing, RemovesAlone
<1>13. \A d \in Endpoint : JobOk(d)'
  BY <1>8, <1>9, <1>10, <1>11
<1> QED
  BY <1>5, <1>6, <1>12, <1>13, LoudStep DEF PciBusy, PciAt

LEMMA AttachesSlave ==
  ASSUME PciInv, NEW e \in Endpoint, attach_slave(e)
  PROVE  PciInv'
<1>0. PciTypeOK /\ RecInv /\ JobOk(e) /\ AloneInv /\ pci_job[e].at = "slave"
  BY DEF PciInv, JobInv, attach_slave, PciAt
<1> DEFINE s == pci_job[e].tgt
<1>1. pci_world' = pci_world /\ alive' = alive /\ PciGoto(e, "scan") /\ "scan" \in PciState
  BY DEF attach_slave, PciState
<1>2. /\ pci_job' \in [Endpoint -> JobType]
      /\ pci_job'[e].at = "scan" /\ pci_job'[e].nfb = pci_job[e].nfb
      /\ \A d \in Endpoint \ {e} : pci_job'[d] = pci_job[d]
  BY <1>0, <1>1, GotoView
<1>3. pci_rec[e].main
  BY <1>0 DEF JobOk, Scanning
<1>4. CASE device_is_attachable(e, s) /\ s \in Endpoint \ {e}
  <2>1. attach_endpoint(e, s)
    BY <1>4 DEF attach_slave
  <2> QED
    BY <1>0, <1>1, <1>2, <1>3, <1>4, <2>1, Attaches
<1>5. CASE UNCHANGED <<pci_rec, pci_devices>>
  <2>1. JobOk(e)'
    BY <1>0, <1>2, <1>3, <1>5 DEF JobOk, Probing, Scanning, Removing
  <2>2. AloneInv'
    BY <1>0, <1>2, AloneFrame DEF PciBusy, PciAt, Removing, RemovesAlone
  <2> QED
    BY <1>1, <1>2, <1>5, <2>1, <2>2, QuietStep
<1>6. s \in Endpoint \ {e} \/ ~device_is_attachable(e, s)
  BY <1>0, <1>3, PciConstants DEF JobOk, RecInv, device_is_attachable
<1> QED
  BY <1>4, <1>5, <1>6 DEF attach_slave

LEMMA TriesToAttach ==
  ASSUME PciInv, NEW e \in Endpoint, try_attach(e)
  PROVE  PciInv'
<1>0. PciTypeOK /\ RecInv /\ JobOk(e) /\ AloneInv /\ pci_job[e].at = "loop" /\ pci_job[e] \in JobType
  BY DEF PciInv, JobInv, try_attach, PciAt, PciTypeOK
<1>1. pci_world' = pci_world /\ alive' = alive
  BY DEF try_attach
<1>2. PICK d \in pci_job[e].todo :
         /\ pci_job' = [pci_job EXCEPT ![e] = [pci_job[e] EXCEPT !.todo = @ \ {d}]]
         /\ LET nfb == IF pci_rec[e].main THEN pci_rec[e].nfb ELSE pci_rec[d].nfb
                sub == IF pci_rec[e].main THEN d ELSE e IN
            \/ /\ IF pci_rec[e].main THEN pci_rec[d].sub ELSE pci_rec[d].main
               /\ is_attachable(nfb, sub) /\ device_is_attachable(nfb, sub)
               /\ attach_endpoint(nfb, sub)
            \/ UNCHANGED <<pci_rec, pci_devices>>
  BY Zenon, <1>0 DEF try_attach, PciTypeOK
<1> DEFINE j == [pci_job[e] EXCEPT !.todo = @ \ {d}]
<1>3. d \in Endpoint /\ j \in JobType /\ j.at = "loop" /\ j.nfb = pci_job[e].nfb
  BY <1>0 DEF JobType
<1>4. /\ pci_job' \in [Endpoint -> JobType]
      /\ pci_job'[e].at = "loop" /\ pci_job'[e].nfb = pci_job[e].nfb
      /\ \A x \in Endpoint \ {e} : pci_job'[x] = pci_job[x]
  BY <1>0, <1>2, <1>3 DEF PciTypeOK
<1>5. CASE UNCHANGED <<pci_rec, pci_devices>>
  <2>1. JobOk(e)'
    BY <1>0, <1>4, <1>5 DEF JobOk, Probing, Scanning, Removing
  <2>2. AloneInv'
    BY <1>0, <1>4, AloneFrame DEF PciBusy, PciAt, Removing, RemovesAlone
  <2> QED
    BY <1>1, <1>4, <1>5, <2>1, <2>2, QuietStep
<1>6. ASSUME NEW n \in Endpoint, NEW x \in Endpoint, pci_rec[n].main,
             is_attachable(n, x), device_is_attachable(n, x), attach_endpoint(n, x)
      PROVE  PciInv'
  <2>1. n # x
    BY <1>6 DEF is_attachable
  <2> QED
    BY <1>0, <1>1, <1>4, <1>6, <2>1, Attaches
<1>7. CASE pci_rec[e].main
  <2>1. pci_rec[e].nfb = e
    BY <1>0, <1>7 DEF RecInv
  <2> QED
    BY <1>2, <1>3, <1>5, <1>6, <1>7, <2>1
<1>8. CASE ~pci_rec[e].main
  <2>1. pci_rec[d].main => pci_rec[d].nfb = d
    BY <1>0, <1>3 DEF RecInv
  <2> QED
    BY <1>2, <1>3, <1>5, <1>6, <1>8, <2>1
<1> QED
  BY <1>7, <1>8

-----------------------------------------------------------------------------
(* The steps of a remove                                                   *)

LEMMA RemoveLocks ==
  ASSUME PciInv, NEW e \in Endpoint, remove_lock(e)
  PROVE  PciInv'
<1>0. PciTypeOK /\ RecInv /\ (\A d \in Endpoint : JobOk(d)) /\ AloneInv /\ pci_job[e].at = "rmlock"
  BY DEF PciInv, JobInv, remove_lock, PciAt
<1>1. UNCHANGED <<pci_world, pci_devices, alive>>
  BY DEF remove_lock
<1>2. CASE pci_rec[e].main
  <2>1. /\ pci_rec' = [pci_rec EXCEPT ![e] = [pci_rec[e] EXCEPT !.main = FALSE]]
        /\ PciGoto(e, "detach") /\ "detach" \in PciState
    BY <1>0, <1>2 DEF remove_lock, PciState, PciTypeOK
  <2>2. /\ pci_job' \in [Endpoint -> JobType]
        /\ pci_job'[e].at = "detach" /\ pci_job'[e].nfb = pci_job[e].nfb
        /\ \A d \in Endpoint \ {e} : pci_job'[d] = pci_job[d]
    BY <1>0, <2>1, GotoView
  <2>3. /\ pci_rec' \in [Endpoint -> RecType] /\ ~pci_rec'[e].main
        /\ pci_rec'[e].drvdata = pci_rec[e].drvdata /\ pci_rec'[e].nfb = pci_rec[e].nfb
        /\ \A d \in Endpoint \ {e} : pci_rec'[d] = pci_rec[d]
    BY Zenon, <1>0, <2>1 DEF PciTypeOK, RecType
  <2>4. PciTypeOK'
    BY <1>0, <1>1, <2>2, <2>3 DEF PciTypeOK
  <2>5. RecInv'
    <3>1. \A d \in Endpoint : /\ pci_rec'[d].nfb = pci_rec[d].nfb /\ pci_rec'[d].drvdata = pci_rec[d].drvdata
                              /\ pci_rec'[d].main => pci_rec[d].main
      BY <2>3
    <3>2. Main \subseteq Endpoint /\ alive \subseteq Endpoint
      BY <1>0, PciConstants DEF PciTypeOK
    <3> QED
      BY <1>0, <1>1, <3>1, <3>2 DEF RecInv
  <2>6. pci_rec[e].nfb = e /\ e \in alive
    BY <1>0, <1>2, PciConstants DEF RecInv
  <2>7. JobOk(e)'
    BY <1>0, <1>1, <2>2, <2>3, <2>6 DEF JobOk, Probing, Scanning, Removing
  <2>8. \A d \in Endpoint \ {e} : JobOk(d)'
    BY <1>0, <1>1, <2>2, <2>3, JobFrame
  <2> QED
    BY <1>0, <2>2, <2>4, <2>5, <2>7, <2>8, LoudStep DEF PciBusy, PciAt, Removing, RemovesAlone
<1>3. CASE ~pci_rec[e].main
  <2>1. pci_rec' = pci_rec /\ PciGoto(e, "rmsub") /\ "rmsub" \in PciState
    BY <1>3 DEF remove_lock, PciState
  <2>2. /\ pci_job' \in [Endpoint -> JobType]
        /\ pci_job'[e].at = "rmsub" /\ pci_job'[e].nfb = pci_job[e].nfb
        /\ \A d \in Endpoint \ {e} : pci_job'[d] = pci_job[d]
    BY <1>0, <2>1, GotoView
  <2>3. JobOk(e)'
    BY <1>0, <1>1, <1>3, <2>1, <2>2 DEF JobOk, Probing, Scanning, Removing
  <2>4. AloneInv'
    BY <1>0, <2>2, AloneFrame DEF PciBusy, PciAt, Removing, RemovesAlone
  <2> QED
    BY <1>1, <2>1, <2>2, <2>3, <2>4, QuietStep
<1> QED
  BY <1>2, <1>3

\* A sub that is in the list of its device leaves it; it is, for the device was looked up when
\* nobody else could change it.
LEMMA RemovesSub ==
  ASSUME PciInv, NEW e \in Endpoint, remove_sub(e)
  PROVE  PciInv'
<1>0. PciTypeOK /\ RecInv /\ (\A d \in Endpoint : JobOk(d)) /\ AloneInv /\ pci_job[e].at = "rmsub"
  BY DEF PciInv, JobInv, remove_sub, PciAt
<1> DEFINE nfb == pci_job[e].nfb
<1>1. nfb = pci_rec[e].nfb /\ e \notin Main /\ ~pci_rec[e].main
  BY <1>0 DEF JobOk, RecInv
<1>2. PciIdle.at = "idle" /\ PciIdle.nfb = NoOne /\ PciIdle \in JobType
  BY TypesOfUpdates DEF PciIdle
<1>3. /\ pci_job' \in [Endpoint -> JobType] /\ pci_job'[e] = PciIdle
      /\ \A d \in Endpoint \ {e} : pci_job'[d] = pci_job[d]
  BY <1>0, <1>2 DEF remove_sub, PciTypeOK
<1>4. UNCHANGED <<pci_world, alive>>
  BY DEF remove_sub
<1>5. /\ pci_devices' \in [Endpoint -> SUBSET Endpoint]
      /\ \A n \in Endpoint : pci_devices'[n] = IF n = nfb THEN pci_devices[n] \ {e} ELSE pci_devices[n]
  BY <1>0 DEF remove_sub, PciTypeOK
<1>6. pci_rec[e].nfb \in MaybeNfb /\ (nfb # NoOne => e \in pci_devices[nfb])
  BY <1>0, <1>1 DEF PciTypeOK, RecType, RecInv, MaybeNfb
<1>7. /\ pci_rec' \in [Endpoint -> RecType]
      /\ pci_rec'[e].nfb = NoOne /\ ~pci_rec'[e].main
      /\ \A d \in Endpoint \ {e} : pci_rec'[d] = pci_rec[d]
  <2>1. \A n \in MaybeNfb : /\ [NewPciRec EXCEPT !.known = TRUE, !.nfb = n] \in RecType
                           /\ [NewPciRec EXCEPT !.known = TRUE, !.nfb = n].nfb = n
                           /\ ~[NewPciRec EXCEPT !.known = TRUE, !.nfb = n].main
    BY Zenon DEF NewPciRec, RecType, MaybeNfb
  <2>2. /\ Unprobed(e) \in RecType /\ Unprobed(e).nfb = pci_rec[e].nfb /\ ~Unprobed(e).main
    BY Zenon, <1>6, <2>1 DEF Unprobed
  <2>3. /\ [Unprobed(e) EXCEPT !.nfb = NoOne] \in RecType /\ [Unprobed(e) EXCEPT !.nfb = NoOne].nfb = NoOne
        /\ ~[Unprobed(e) EXCEPT !.nfb = NoOne].main
    BY <2>2, TypesOfUpdates DEF MaybeNfb
  <2>4. pci_rec' = [pci_rec EXCEPT ![e] = IF nfb # NoOne THEN [Unprobed(e) EXCEPT !.nfb = NoOne] ELSE Unprobed(e)]
    BY Zenon, <1>6 DEF remove_sub
  <2>5. pci_rec' \in [Endpoint -> RecType] /\ (\A d \in Endpoint \ {e} : pci_rec'[d] = pci_rec[d])
    BY <1>0, <2>2, <2>3, <2>4 DEF PciTypeOK
  <2>6. pci_rec'[e] = IF nfb # NoOne THEN [Unprobed(e) EXCEPT !.nfb = NoOne] ELSE Unprobed(e)
    BY <1>0, <2>4 DEF PciTypeOK
  <2> QED
    BY <1>1, <2>2, <2>3, <2>5, <2>6
<1>8. PciTypeOK'
  BY <1>0, <1>3, <1>4, <1>5, <1>7 DEF PciTypeOK
<1>9. RecInv'
  <2>1. \A m, d \in Endpoint : d \in pci_devices'[m] <=> pci_rec'[d].nfb = m
    BY <1>0, <1>1, <1>5, <1>7, PciConstants DEF RecInv
  <2>2. \A d \in Endpoint : pci_rec'[d].nfb # NoOne => pci_rec'[d].nfb \in alive'
    BY <1>0, <1>4, <1>7 DEF RecInv
  <2>3. /\ \A d \in Main : pci_rec'[d].nfb # NoOne => pci_rec'[d].nfb = d
        /\ \A d \in Endpoint : pci_rec'[d].main => d \in Main /\ pci_rec'[d].nfb = d
    BY <1>0, <1>7, PciConstants DEF RecInv
  <2>4. \A d \in alive' : pci_rec'[d].drvdata
    BY <1>0, <1>1, <1>4, <1>7, PciConstants DEF RecInv, PciTypeOK
  <2> QED
    BY <2>1, <2>2, <2>3, <2>4 DEF RecInv
<1>10. JobOk(e)'
  BY <1>1, <1>2, <1>3 DEF JobOk, Probing, Scanning, Removing
<1>11. \A d \in Endpoint \ {e} : JobOk(d)'
  <2>1. \A d \in Endpoint : pci_devices[d] = {} => pci_devices'[d] = {}
    BY <1>5
  <2> QED
    BY <1>0, <1>3, <1>4, <1>7, <2>1, JobFrame
<1> QED
  BY <1>0, <1>2, <1>3, <1>8, <1>9, <1>10, <1>11, LoudStep DEF PciBusy, PciAt, Removing, RemovesAlone

LEMMA Detaches ==
  ASSUME PciInv, NEW e \in Endpoint, detach_endpoints(e)
  PROVE  PciInv'
<1>0. PciTypeOK /\ RecInv /\ (\A d \in Endpoint : JobOk(d)) /\ AloneInv /\ pci_job[e].at = "detach"
  BY DEF PciInv, JobInv, detach_endpoints, PciAt
<1>1. pci_job[e].nfb = e /\ e \in alive /\ ~pci_rec[e].main
  BY <1>0 DEF JobOk
<1>2. PICK d \in pci_devices[e] :
         /\ detach_endpoint(e, d)
         /\ PciGoto(e, IF pci_devices[e] = {d} THEN "destroy" ELSE "detach")
  BY <1>1 DEF detach_endpoints
<1>3. d \in Endpoint /\ pci_rec[d].nfb = e /\ UNCHANGED <<pci_world, alive>>
  BY <1>0 DEF PciTypeOK, RecInv, detach_endpoints
<1>4. PICK l \in {"detach", "destroy"} : PciGoto(e, l) /\ (l = "destroy" => pci_devices[e] = {d})
  BY <1>2
<1>5. /\ pci_job' \in [Endpoint -> JobType]
      /\ pci_job'[e].at = l /\ pci_job'[e].nfb = e
      /\ \A x \in Endpoint \ {e} : pci_job'[x] = pci_job[x]
  <2>1. l \in PciState
    BY DEF PciState
  <2> QED
    BY <1>0, <1>1, <1>4, <2>1, GotoView
<1>6. /\ pci_devices' \in [Endpoint -> SUBSET Endpoint] /\ pci_devices'[e] = pci_devices[e] \ {d}
      /\ \A x \in Endpoint \ {e} : pci_devices'[x] = pci_devices[x]
  BY <1>0, <1>2 DEF detach_endpoint, PciTypeOK
<1>7. /\ pci_rec' \in [Endpoint -> RecType]
      /\ pci_rec'[d].nfb = NoOne /\ pci_rec'[d].main = pci_rec[d].main /\ pci_rec'[d].drvdata = pci_rec[d].drvdata
      /\ \A x \in Endpoint \ {d} : pci_rec'[x] = pci_rec[x]
  <2>1. pci_rec' = [pci_rec EXCEPT ![d] = [pci_rec[d] EXCEPT !.nfb = NoOne]] /\ pci_rec[d] \in RecType
    BY <1>0, <1>2, <1>3 DEF detach_endpoint, PciTypeOK
  <2>2. pci_rec'[d] = [pci_rec[d] EXCEPT !.nfb = NoOne]
    BY <1>0, <1>3, <2>1 DEF PciTypeOK
  <2> QED
    BY <1>0, <1>3, <2>1, <2>2, TypesOfUpdates DEF PciTypeOK, MaybeNfb
<1>8. PciTypeOK'
  BY <1>0, <1>3, <1>5, <1>6, <1>7 DEF PciTypeOK
<1>9. ~pci_rec[d].main
  BY <1>0, <1>1, <1>3 DEF RecInv
<1>10. RecInv'
  <2>1. \A m, x \in Endpoint : x \in pci_devices'[m] <=> pci_rec'[x].nfb = m
    BY <1>0, <1>3, <1>6, <1>7, PciConstants DEF RecInv
  <2>2. \A x \in Endpoint : pci_rec'[x].nfb # NoOne => pci_rec'[x].nfb \in alive'
    BY <1>0, <1>3, <1>7 DEF RecInv
  <2>3. /\ \A x \in Main : pci_rec'[x].nfb # NoOne => pci_rec'[x].nfb = x
        /\ \A x \in Endpoint : pci_rec'[x].main => x \in Main /\ pci_rec'[x].nfb = x
    BY <1>0, <1>7, <1>9, PciConstants DEF RecInv
  <2>4. \A x \in alive' : pci_rec'[x].drvdata
    BY <1>0, <1>3, <1>7, PciConstants DEF RecInv, PciTypeOK
  <2> QED
    BY <2>1, <2>2, <2>3, <2>4 DEF RecInv
<1>11. JobOk(e)'
  <2>1. l = "destroy" => pci_devices'[e] = {}
    BY <1>4, <1>6
  <2>2. ~pci_rec'[e].main /\ pci_rec'[e].drvdata
    BY <1>0, <1>1, <1>7 DEF RecInv
  <2> QED
    BY <1>1, <1>3, <1>5, <2>1, <2>2 DEF JobOk, Probing, Scanning, Removing
<1>12. \A x \in Endpoint \ {e} : JobOk(x)'
  <2>1. \A x \in Endpoint \ {e} : pci_job[x].at = "idle"
    BY <1>0 DEF AloneInv, RemovesAlone
  <2>2. \A x \in Endpoint : pci_rec'[x].main = pci_rec[x].main /\ pci_rec'[x].drvdata = pci_rec[x].drvdata
    BY <1>7
  <2> QED
    BY <1>0, <1>5, <2>1, <2>2 DEF JobOk, Probing, Scanning, Removing
<1> QED
  BY <1>0, <1>5, <1>8, <1>10, <1>11, <1>12, LoudStep DEF PciBusy, PciAt, Removing, RemovesAlone

\* The device is destroyed when its list is empty, and so nothing refers to it.
LEMMA RemovesMain ==
  ASSUME PciInv, NEW e \in Endpoint, remove_main(e)
  PROVE  PciInv'
<1>0. PciTypeOK /\ RecInv /\ (\A d \in Endpoint : JobOk(d)) /\ AloneInv /\ pci_job[e].at = "destroy"
  BY DEF PciInv, JobInv, remove_main, PciAt
<1>1. pci_job[e].nfb = e /\ e \in alive /\ pci_devices[e] = {} /\ e \in Main
  BY <1>0 DEF JobOk, PciTypeOK
<1>2. PciIdle.at = "idle" /\ PciIdle.nfb = NoOne /\ PciIdle \in JobType
  BY TypesOfUpdates DEF PciIdle
<1>3. /\ pci_job' \in [Endpoint -> JobType] /\ pci_job'[e] = PciIdle
      /\ \A d \in Endpoint \ {e} : pci_job'[d] = pci_job[d]
  BY <1>0, <1>2 DEF remove_main, PciTypeOK
<1>4. UNCHANGED <<pci_world, pci_devices>> /\ alive' = alive \ {e}
  BY <1>1 DEF remove_main
<1>5. pci_rec[e].nfb = NoOne /\ (\A d \in Endpoint : pci_rec[d].nfb # e)
  BY <1>0, <1>1 DEF RecInv
<1>6. /\ pci_rec' \in [Endpoint -> RecType]
      /\ pci_rec'[e].nfb = NoOne /\ ~pci_rec'[e].main /\ ~pci_rec'[e].drvdata
      /\ \A d \in Endpoint \ {e} : pci_rec'[d] = pci_rec[d]
  <2>1. /\ [NewPciRec EXCEPT !.known = TRUE, !.nfb = NoOne] \in RecType
        /\ [NewPciRec EXCEPT !.known = TRUE, !.nfb = NoOne].nfb = NoOne
        /\ ~[NewPciRec EXCEPT !.known = TRUE, !.nfb = NoOne].main
        /\ ~[NewPciRec EXCEPT !.known = TRUE, !.nfb = NoOne].drvdata
    BY Zenon DEF NewPciRec, RecType, MaybeNfb
  <2>2. /\ Unprobed(e) \in RecType /\ Unprobed(e).nfb = NoOne /\ ~Unprobed(e).main /\ ~Unprobed(e).drvdata
    BY <1>5, <2>1 DEF Unprobed
  <2>3. pci_rec' = [pci_rec EXCEPT ![e] = Unprobed(e)]
    BY DEF remove_main
  <2>4. pci_rec'[e] = Unprobed(e) /\ pci_rec' \in [Endpoint -> RecType]
    BY <1>0, <2>2, <2>3 DEF PciTypeOK
  <2>5. \A d \in Endpoint \ {e} : pci_rec'[d] = pci_rec[d]
    BY <1>0, <2>3 DEF PciTypeOK
  <2> QED
    BY <2>2, <2>4, <2>5
<1>7. PciTypeOK'
  BY <1>0, <1>3, <1>4, <1>6 DEF PciTypeOK
<1>8. RecInv'
  <2>1. \A m, d \in Endpoint : d \in pci_devices'[m] <=> pci_rec'[d].nfb = m
    BY <1>0, <1>4, <1>5, <1>6, PciConstants DEF RecInv
  <2>2. \A d \in Endpoint : pci_rec'[d].nfb # NoOne => pci_rec'[d].nfb \in alive'
    BY <1>0, <1>4, <1>5, <1>6 DEF RecInv
  <2>3. /\ \A d \in Main : pci_rec'[d].nfb # NoOne => pci_rec'[d].nfb = d
        /\ \A d \in Endpoint : pci_rec'[d].main => d \in Main /\ pci_rec'[d].nfb = d
    BY <1>0, <1>6, PciConstants DEF RecInv
  <2>4. \A d \in alive' : pci_rec'[d].drvdata
    BY <1>0, <1>4, <1>6, PciConstants DEF RecInv, PciTypeOK
  <2> QED
    BY <2>1, <2>2, <2>3, <2>4 DEF RecInv
<1>9. JobOk(e)'
  BY <1>2, <1>3, <1>6 DEF JobOk, Probing, Scanning, Removing
<1>10. \A d \in Endpoint \ {e} : JobOk(d)'
  BY <1>0, <1>3, <1>4, <1>6, JobFrame
<1> QED
  BY <1>0, <1>2, <1>3, <1>7, <1>8, <1>9, <1>10, LoudStep DEF PciBusy, PciAt, Removing, RemovesAlone

-----------------------------------------------------------------------------
LEMMA PciInitInv == PciInit => PciInv
<1> SUFFICES ASSUME PciInit PROVE PciInv
  OBVIOUS
<1>1. PciTypeOK
  BY TypesOfUpdates DEF PciInit, PciTypeOK
<1>2. \A e \in Endpoint : /\ pci_rec[e].nfb = NoOne /\ ~pci_rec[e].main /\ ~pci_rec[e].drvdata
                         /\ pci_job[e].at = "idle" /\ pci_job[e].nfb = NoOne /\ pci_devices[e] = {}
  BY DEF PciInit, NewPciRec, PciIdle
<1>3. RecInv
  BY <1>2, PciConstants DEF RecInv, PciInit
<1>4. JobInv /\ AloneInv
  BY <1>2 DEF JobInv, JobOk, AloneInv, Probing, Scanning, Removing, RemovesAlone
<1> QED
  BY <1>1, <1>3, <1>4 DEF PciInv

LEMMA PciStepInv == PciInv /\ [PciNext]_pciVars => PciInv'
<1> SUFFICES ASSUME PciInv, [PciNext]_pciVars PROVE PciInv'
  OBVIOUS
<1>1. CASE UNCHANGED pciVars
  BY <1>1 DEF pciVars, PciInv, PciTypeOK, RecInv, JobInv, JobOk, AloneInv, Probing, Scanning, Removing,
              RemovesAlone
<1>2. ASSUME NEW e \in Endpoint, find_lock(e) \/ nfb_probe(e)
      PROVE  PciInv'
  <2>1. "attach" \in PciState /\ "try" \in PciState
    BY DEF PciState
  <2> QED
    BY <1>2, <2>1, Waits DEF find_lock, nfb_probe, PciAt, SameDevices
<1>3. ASSUME NEW e \in Endpoint, try_attach_lock(e)
      PROVE  PciInv'
  <2>1. "trylist" \in PciState /\ "tryself" \in PciState
    BY DEF PciState
  <2>2. CASE PciAt(e, "tryself")
    BY <1>3, <2>2, LocksSelf
  <2>3. CASE ~PciAt(e, "tryself")
    BY <1>3, <2>1, <2>3, Waits DEF try_attach_lock, PciAt, SameDevices
  <2> QED
    BY <2>2, <2>3
<1> QED
  BY <1>1, <1>2, <1>3, ProbeBegins, RemoveBegins, ProbeEnds, Scans, FindsOrCreates, ProbesSub, ProbesMain,
     AttachesSlave, TriesToAttach, RemoveLocks, RemovesSub, Detaches, RemovesMain DEF PciNext, PciStep

\* No endpoint refers to a destroyed device, and the lists agree with the references, whatever
\* endpoints there are, however their probes overlap and in whatever order they are removed
\* (nfb_pci_probe, nfb_pci_try_attach; nfb_pci_remove, which runs alone).
THEOREM PciNeverDangles == PciSpec => []PciNoDangling
<1>1. PciInv => PciNoDangling
  <2> SUFFICES ASSUME PciInv PROVE PciNoDangling
    OBVIOUS
  <2>1. \A e \in Endpoint : pci_job[e].nfb # NoOne => pci_job[e].nfb \in alive
    BY DEF PciInv, JobInv, JobOk, RecInv, Removing
  <2> QED
    BY <2>1 DEF PciInv, RecInv, PciNoDangling
<1> QED
  BY PciInitInv, PciStepInv, <1>1, PTL DEF PciSpec
=============================================================================
