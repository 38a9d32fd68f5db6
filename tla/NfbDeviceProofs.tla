-------------------------- MODULE NfbDeviceProofs --------------------------
(***************************************************************************)
(* What the count of openers is good for, whatever files there are: an     *)
(* O_APPEND open succeeds alone, and the release that counts to 0 leaves   *)
(* nobody.                                                                 *)
(*                                                                         *)
(* Both rest on OpenersExact, which is inductive with the types: each step *)
(* moves one file in or out of Holders and openers with it, except the     *)
(* failed open (which moves into leaked) and the removal of the device     *)
(* (which empties both).                                                   *)
(***************************************************************************)
EXTENDS NfbDevice, FiniteSetTheorems, TLAPS

FileState == {"closed", "looked", "counted", "refused", "open", "setcb", "released",
              "last", "reload", "remove", "rescan", "restore"}

FileRec == [at : FileState, old : BOOLEAN]
DevRec == [status : {"init", "ok", "release"}, published : BOOLEAN, openers : Int, lr_cb : BOOLEAN]

DeviceTypeOK ==
    /\ dev \in DevRec
    /\ fl \in [Proc -> FileRec]
    /\ leaked \in Nat

DeviceInv == DeviceTypeOK /\ OpenersExact

-----------------------------------------------------------------------------
LEMMA HoldersFinite == IsFiniteSet(Holders) /\ Cardinality(Holders) \in Nat
<1>1. IsFiniteSet(Holders)
  BY DeviceConstants, FS_Subset DEF Holders
<1> QED
  BY <1>1, FS_CardinalityType

\* A step that brings one file in raises the number by one, ...
LEMMA HoldersAdd ==
  ASSUME NEW p \in Proc, p \notin Holders, Holders' = Holders \cup {p}
  PROVE  Cardinality(Holders') = Cardinality(Holders) + 1
BY HoldersFinite, FS_AddElement

\* ... and one that takes one file out lowers it by one.
LEMMA HoldersRemove ==
  ASSUME NEW p \in Proc, p \in Holders, Holders' = Holders \ {p}
  PROVE  Cardinality(Holders') = Cardinality(Holders) - 1
BY HoldersFinite, FS_RemoveElement

-----------------------------------------------------------------------------
LEMMA DeviceInitInv == DeviceInit => DeviceInv
<1> SUFFICES ASSUME DeviceInit PROVE DeviceInv
  OBVIOUS
<1>1. DeviceTypeOK
  <2>1. NewDev \in DevRec
    BY DEF NewDev, DevRec
  <2>2. [NewDev EXCEPT !.status = "ok", !.published = TRUE] \in DevRec
    BY Zenon, <2>1 DEF DevRec
  <2>3. Closed \in FileRec
    BY DEF Closed, FileRec, FileState
  <2> QED
    BY <2>2, <2>3 DEF DeviceInit, DeviceTypeOK
<1>2. Holders = {}
  BY DEF DeviceInit, Holders, Closed
<1>3. OpenersExact
  BY <1>2, FS_EmptySet DEF DeviceInit, OpenersExact, NewDev
<1> QED
  BY <1>1, <1>3 DEF DeviceInv

\* What the steps write has the type of what they replace.
LEMMA DeviceUpdates ==
  /\ NewDev \in DevRec /\ Closed \in FileRec
  /\ \A d \in DevRec, n \in Int : [d EXCEPT !.openers = n] \in DevRec
  /\ \A d \in DevRec : /\ d.openers \in Int
                       /\ [d EXCEPT !.status = "release", !.lr_cb = TRUE] \in DevRec
                       /\ [d EXCEPT !.published = TRUE] \in DevRec
                       /\ [d EXCEPT !.status = "ok"] \in DevRec
  /\ \A f \in FileRec, s \in FileState : [f EXCEPT !.at = s] \in FileRec
  /\ \A f \in FileRec : [f EXCEPT !.old = TRUE] \in FileRec
<1>1. NewDev \in DevRec /\ Closed \in FileRec
  BY DEF NewDev, DevRec, Closed, FileRec, FileState
<1>2. \A d \in DevRec, n \in Int : [d EXCEPT !.openers = n] \in DevRec
  BY DEF DevRec
<1>3. \A d \in DevRec : d.openers \in Int
  BY DEF DevRec
<1>4. \A d \in DevRec : [d EXCEPT !.status = "release", !.lr_cb = TRUE] \in DevRec
  BY Zenon DEF DevRec
<1>5. \A d \in DevRec : [d EXCEPT !.published = TRUE] \in DevRec
  BY Zenon DEF DevRec
<1>6. \A d \in DevRec : [d EXCEPT !.status = "ok"] \in DevRec
  BY DEF DevRec
<1>7. \A f \in FileRec, s \in FileState : [f EXCEPT !.at = s] \in FileRec
  BY DEF FileRec
<1>8. \A f \in FileRec : [f EXCEPT !.old = TRUE] \in FileRec
  BY Zenon DEF FileRec
<1> QED
  BY Zenon, <1>1, <1>2, <1>3, <1>4, <1>5, <1>6, <1>7, <1>8

LEMMA DeviceTypeStep == DeviceTypeOK /\ [DeviceNext]_devVars => DeviceTypeOK'
<1> SUFFICES ASSUME DeviceTypeOK, [DeviceNext]_devVars PROVE DeviceTypeOK'
  OBVIOUS
<1> USE DEF DeviceTypeOK
<1>a. dev.openers \in Int
  BY Zenon, DeviceUpdates
<1>0. /\ \A p \in Proc, s \in FileState : FileGoto(p, s) => fl' \in [Proc -> FileRec]
      /\ \A p \in Proc, r \in FileRec : [fl EXCEPT ![p] = r] \in [Proc -> FileRec]
  <2>1. \A p \in Proc, s \in FileState : [fl EXCEPT ![p].at = s] \in [Proc -> FileRec]
    BY DEF FileRec
  <2>2. \A p \in Proc, r \in FileRec : [fl EXCEPT ![p] = r] \in [Proc -> FileRec]
    OBVIOUS
  <2>3. \A p \in Proc, s \in FileState : FileGoto(p, s) => fl' \in [Proc -> FileRec]
    BY ONLY <2>1 DEF FileGoto
  <2> QED
    BY <2>2, <2>3
<1>1. CASE UNCHANGED devVars
  BY <1>1 DEF devVars
<1>2. ASSUME NEW p \in Proc, char_open_lookup(p) \/ char_open(p) \/ char_release(p) \/ reload_command(p)
      PROVE  DeviceTypeOK'
  BY Zenon, DeviceUpdates, <1>0, <1>2 DEF char_open_lookup, char_open, char_release, reload_command, FileState
<1>3. ASSUME NEW p \in Proc, char_open_count(p)
      PROVE  DeviceTypeOK'
  <2>1. dev' \in DevRec
    <3>1. (IF fl[p].old THEN dev.openers ELSE dev.openers + 1) \in Int
      BY <1>a
    <3> QED
      BY Zenon, DeviceUpdates, <1>3, <3>1 DEF char_open_count
  <2>2. fl' \in [Proc -> FileRec]
    BY Zenon, DeviceUpdates, <1>0, <1>3 DEF char_open_count, FileState
  <2> QED
    BY Zenon, DeviceUpdates, <1>3, <2>1, <2>2 DEF char_open_count
<1>4. ASSUME NEW p \in Proc, char_open_refuse(p) \/ char_open_fail(p) \/ reload_rescan(p)
      PROVE  DeviceTypeOK'
  <2>1. dev' \in DevRec
    <3>1. (IF fl[p].old THEN dev.openers ELSE dev.openers - 1) \in Int
      BY <1>a
    <3>2. char_open_refuse(p) => dev' \in DevRec
      BY Zenon, DeviceUpdates, <3>1 DEF char_open_refuse
    <3> QED
      BY <1>4, <3>2 DEF char_open_fail, reload_rescan
  <2>2. fl' \in [Proc -> FileRec]
    BY Zenon, DeviceUpdates, <1>0, <1>4 DEF char_open_refuse, char_open_fail, reload_rescan
  <2>3. leaked' \in Nat
    <3>1. leaked + 1 \in Nat
      OBVIOUS
    <3> QED
      BY Zenon, DeviceUpdates, <1>4, <3>1 DEF char_open_refuse, char_open_fail, reload_rescan
  <2> QED
    BY <2>1, <2>2, <2>3
<1>5. ASSUME NEW p \in Proc, ioctl_error_disable(p) \/ (\E image \in Image : ioctl_reload(p, image))
      PROVE  DeviceTypeOK'
  BY Zenon, DeviceUpdates, <1>0, <1>5 DEF ioctl_error_disable, ioctl_reload, FileState
<1>6. ASSUME NEW p \in Proc, set_lr_callback(p)
      PROVE  DeviceTypeOK'
  BY Zenon, DeviceUpdates, <1>0, <1>6 DEF set_lr_callback, FileState
<1>7. ASSUME NEW p \in Proc, char_release_count(p)
      PROVE  DeviceTypeOK'
  <2>1. dev' \in DevRec
    <3>1. (IF fl[p].old THEN dev.openers ELSE dev.openers - 1) \in Int
      BY <1>a
    <3> QED
      BY Zenon, DeviceUpdates, <1>7, <3>1 DEF char_release_count
  <2>2. fl' \in [Proc -> FileRec]
    BY Zenon, DeviceUpdates, <1>0, <1>7 DEF char_release_count, FileState
  <2> QED
    BY Zenon, DeviceUpdates, <1>7, <2>1, <2>2 DEF char_release_count
<1>8. ASSUME NEW p \in Proc, char_release_last(p)
      PROVE  DeviceTypeOK'
  BY Zenon, DeviceUpdates, <1>0, <1>8 DEF char_release_last, FileState
<1>9. ASSUME NEW p \in Proc, nfb_remove_drivers(p) \/ nfb_probe_publish(p) \/ nfb_probe_drivers(p)
      PROVE  DeviceTypeOK'
  BY Zenon, DeviceUpdates, <1>9 DEF nfb_remove_drivers, nfb_probe_publish, nfb_probe_drivers
<1>10. ASSUME NEW p \in Proc, nfb_remove(p)
       PROVE  DeviceTypeOK'
  <2>1. [at |-> "rescan", old |-> TRUE] \in FileRec
    BY DEF FileRec, FileState
  <2> QED
    BY Zenon, DeviceUpdates, <1>10, <2>1 DEF nfb_remove
<1>11. ASSUME NEW p \in Proc, nfb_probe_enable(p)
       PROVE  DeviceTypeOK'
  BY Zenon, DeviceUpdates, <1>0, <1>11 DEF nfb_probe_enable, FileState
<1> QED
  BY <1>1, <1>2, <1>3, <1>4, <1>5, <1>6, <1>7, <1>8, <1>9, <1>10, <1>11 DEF DeviceNext, FileStep

\* A file that moves to another place of a call keeps its device.
LEMMA HoldersGoto ==
  ASSUME DeviceTypeOK, DeviceTypeOK', NEW p \in Proc, NEW s \in FileState, FileGoto(p, s)
  PROVE  /\ fl'[p].at = s /\ fl'[p].old = fl[p].old
         /\ \A r \in Proc \ {p} : fl'[r] = fl[r]
BY DEF DeviceTypeOK, FileGoto, FileRec

\* A step of one file changes the number of Holders by what it does to this file.
LEMMA HoldersCount ==
  ASSUME NEW p \in Proc, \A r \in Proc \ {p} : fl'[r] = fl[r]
  PROVE  /\ (p \in Holders <=> p \in Holders') => Cardinality(Holders') = Cardinality(Holders)
         /\ p \in Holders /\ p \notin Holders' => Cardinality(Holders') = Cardinality(Holders) - 1
         /\ p \notin Holders /\ p \in Holders' => Cardinality(Holders') = Cardinality(Holders) + 1
<1>1. \A r \in Proc \ {p} : r \in Holders' <=> r \in Holders
  BY DEF Holders
<1>2. Holders \subseteq Proc /\ Holders' \subseteq Proc
  BY DEF Holders
<1>3. (p \in Holders <=> p \in Holders') => Holders' = Holders
  BY <1>1, <1>2
<1>4. p \in Holders /\ p \notin Holders' => Holders' = Holders \ {p}
  BY <1>1, <1>2
<1>5. p \notin Holders /\ p \in Holders' => Holders' = Holders \cup {p}
  BY <1>1, <1>2
<1> QED
  BY <1>3, <1>4, <1>5, HoldersAdd, HoldersRemove

\* Every step keeps openers exact.
LEMMA DeviceCountStep == DeviceInv /\ DeviceTypeOK' /\ [DeviceNext]_devVars => OpenersExact'
<1> SUFFICES ASSUME DeviceInv, DeviceTypeOK', [DeviceNext]_devVars PROVE OpenersExact'
  OBVIOUS
<1>a. DeviceTypeOK /\ dev.openers = Cardinality(Holders) + leaked
  BY DEF DeviceInv, OpenersExact
<1>b. ASSUME dev'.openers = dev.openers, leaked' = leaked, Cardinality(Holders') = Cardinality(Holders)
      PROVE  OpenersExact'
  BY <1>a, <1>b DEF OpenersExact
<1>c. ASSUME fl' = fl
      PROVE  Cardinality(Holders') = Cardinality(Holders)
  BY <1>c DEF Holders
<1>d. dev.openers \in Int /\ leaked \in Nat /\ Cardinality(Holders) \in Nat
  BY Zenon, <1>a, HoldersFinite, DeviceUpdates DEF DeviceTypeOK
<1>1. CASE UNCHANGED devVars
  BY <1>1, <1>b, <1>c DEF devVars
<1>2. ASSUME NEW p \in Proc, char_open_lookup(p) \/ char_open(p) \/ char_release(p) \/ reload_command(p)
                              \/ (\E image \in Image : ioctl_reload(p, image))
      PROVE  OpenersExact'
  <2>1. PICK s \in FileState : FileGoto(p, s) /\ (fl[p].at \in {"counted", "open"} <=> s \in {"open", "setcb", "released"})
                              /\ fl[p].at \in {"closed", "counted", "open", "reload"}
                              /\ s \in {"looked", "open", "setcb", "released", "remove"}
    BY <1>2 DEF char_open_lookup, char_open, char_release, reload_command, ioctl_reload, FileAt, FileState
  <2>2. p \in Holders <=> p \in Holders'
    BY <1>a, <2>1, HoldersGoto DEF Holders
  <2>3. Cardinality(Holders') = Cardinality(Holders)
    BY <1>a, <2>1, <2>2, HoldersGoto, HoldersCount
  <2> QED
    BY <1>2, <1>b, <2>3 DEF char_open_lookup, char_open, char_release, reload_command, ioctl_reload
<1>3. ASSUME NEW p \in Proc, char_open_count(p)
      PROVE  OpenersExact'
  <2>1. PICK s \in {"counted", "refused"} : FileGoto(p, s)
    BY <1>3 DEF char_open_count
  <2>2. s \in FileState
    BY DEF FileState
  <2>3. p \notin Holders /\ (p \in Holders' <=> ~fl[p].old)
    BY <1>a, <1>3, <2>1, <2>2, HoldersGoto DEF Holders, char_open_count, FileAt
  <2>4. \A r \in Proc \ {p} : fl'[r] = fl[r]
    BY <1>a, <2>1, <2>2, HoldersGoto
  <2>5. dev'.openers = IF fl[p].old THEN dev.openers ELSE dev.openers + 1
    BY <1>a, <1>3 DEF char_open_count, DeviceTypeOK, DevRec
  <2>6. leaked' = leaked
    BY <1>3 DEF char_open_count
  <2>7. CASE fl[p].old
    BY <1>b, <2>3, <2>4, <2>5, <2>6, <2>7, HoldersCount
  <2>8. CASE ~fl[p].old
    BY <1>a, <1>d, <2>3, <2>4, <2>5, <2>6, <2>8, HoldersCount DEF OpenersExact
  <2> QED
    BY <2>7, <2>8
<1>4. ASSUME NEW p \in Proc, char_open_refuse(p)
      PROVE  OpenersExact'
  <2>1. fl'[p] = Closed /\ (\A r \in Proc \ {p} : fl'[r] = fl[r]) /\ leaked' = leaked
    BY <1>a, <1>4 DEF char_open_refuse, DeviceTypeOK
  <2>2. p \notin Holders' /\ (p \in Holders <=> ~fl[p].old)
    BY <1>4, <2>1 DEF Holders, Closed, char_open_refuse, FileAt
  <2>3. dev'.openers = IF fl[p].old THEN dev.openers ELSE dev.openers - 1
    BY <1>a, <1>4 DEF char_open_refuse, DeviceTypeOK, DevRec
  <2>4. CASE fl[p].old
    BY <1>b, <2>1, <2>2, <2>3, <2>4, HoldersCount
  <2>5. CASE ~fl[p].old
    BY <1>a, <1>d, <2>1, <2>2, <2>3, <2>5, HoldersCount DEF OpenersExact
  <2> QED
    BY <2>4, <2>5
<1>5. ASSUME NEW p \in Proc, char_open_fail(p)
      PROVE  OpenersExact'
  <2>1. fl'[p] = Closed /\ (\A r \in Proc \ {p} : fl'[r] = fl[r]) /\ dev' = dev
    BY <1>a, <1>5 DEF char_open_fail, DeviceTypeOK
  <2>2. p \notin Holders' /\ (p \in Holders <=> ~fl[p].old)
    BY <1>5, <2>1 DEF Holders, Closed, char_open_fail, FileAt
  <2>3. leaked' = IF fl[p].old THEN leaked ELSE leaked + 1
    BY <1>5 DEF char_open_fail
  <2>4. CASE fl[p].old
    BY <1>b, <2>1, <2>2, <2>3, <2>4, HoldersCount
  <2>5. CASE ~fl[p].old
    BY <1>a, <1>d, <2>1, <2>2, <2>3, <2>5, HoldersCount DEF OpenersExact
  <2> QED
    BY <2>4, <2>5
<1>6. ASSUME NEW p \in Proc, char_release_count(p)
      PROVE  OpenersExact'
  <2>1. /\ fl'[p] = Closed \/ fl'[p] = [fl[p] EXCEPT !.at = "last"]
        /\ \A r \in Proc \ {p} : fl'[r] = fl[r]
        /\ leaked' = leaked
    BY <1>a, <1>6 DEF char_release_count, DeviceTypeOK
  <2>2. fl'[p].at \in {"closed", "last"}
    BY <1>a, <2>1 DEF Closed, DeviceTypeOK, FileRec
  <2>3. p \notin Holders' /\ (p \in Holders <=> ~fl[p].old)
    BY <1>6, <2>2 DEF Holders, char_release_count, FileAt
  <2>4. dev'.openers = IF fl[p].old THEN dev.openers ELSE dev.openers - 1
    BY <1>a, <1>6 DEF char_release_count, DeviceTypeOK, DevRec
  <2>5. CASE fl[p].old
    BY <1>b, <2>1, <2>3, <2>4, <2>5, HoldersCount
  <2>6. CASE ~fl[p].old
    BY <1>a, <1>d, <2>1, <2>3, <2>4, <2>6, HoldersCount DEF OpenersExact
  <2> QED
    BY <2>5, <2>6
<1>7. ASSUME NEW p \in Proc, ioctl_error_disable(p) \/ nfb_remove_drivers(p) \/ nfb_probe_publish(p)
                              \/ nfb_probe_drivers(p)
      PROVE  OpenersExact'
  <2>1. dev'.openers = dev.openers /\ leaked' = leaked /\ fl' = fl
    BY <1>a, <1>7 DEF ioctl_error_disable, nfb_remove_drivers, nfb_probe_publish, nfb_probe_drivers,
                      DeviceTypeOK, DevRec
  <2> QED
    BY <1>b, <1>c, <2>1
<1>8. ASSUME NEW p \in Proc, set_lr_callback(p) \/ nfb_probe_enable(p)
      PROVE  OpenersExact'
  <2>1. PICK s \in FileState : /\ FileGoto(p, s)
                              /\ \/ fl[p].at = "setcb" /\ s = "open"
                                 \/ fl[p].at = "rescan" /\ s = "restore"
    BY <1>8 DEF set_lr_callback, nfb_probe_enable, FileAt, FileState
  <2>2. p \in Holders <=> p \in Holders'
    BY <1>a, <2>1, HoldersGoto DEF Holders
  <2>3. Cardinality(Holders') = Cardinality(Holders)
    BY <1>a, <2>1, <2>2, HoldersGoto, HoldersCount
  <2>4. dev'.openers = dev.openers /\ leaked' = leaked
    BY Zenon, <1>a, <1>8 DEF set_lr_callback, nfb_probe_enable, DeviceTypeOK, DevRec
  <2> QED
    BY <1>b, <2>3, <2>4
<1>9. ASSUME NEW p \in Proc, char_release_last(p) \/ reload_rescan(p)
      PROVE  OpenersExact'
  <2>1. /\ fl'[p] = Closed \/ fl'[p] = [fl[p] EXCEPT !.at = "reload"]
        /\ \A r \in Proc \ {p} : fl'[r] = fl[r]
        /\ leaked' = leaked /\ dev' = dev
    BY <1>a, <1>9 DEF char_release_last, reload_rescan, DeviceTypeOK
  <2>2. fl'[p].at \in {"closed", "reload"} /\ fl[p].at \in {"last", "restore"}
    BY <1>a, <1>9, <2>1 DEF Closed, DeviceTypeOK, FileRec, char_release_last, reload_rescan, FileAt
  <2>3. p \notin Holders' /\ p \notin Holders
    BY <2>2 DEF Holders
  <2> QED
    BY <1>b, <2>1, <2>3, HoldersCount
<1>10. ASSUME NEW p \in Proc, nfb_remove(p)
       PROVE  OpenersExact'
  <2>1. \A r \in Proc : fl'[r].at = "closed" \/ fl'[r].old
    BY <1>a, <1>10 DEF nfb_remove, DeviceTypeOK, FileRec
  <2>2. Holders' = {}
    BY <2>1 DEF Holders
  <2>3. dev'.openers = 0 /\ leaked' = 0
    BY <1>10 DEF nfb_remove, NewDev
  <2> QED
    BY <2>2, <2>3, FS_EmptySet DEF OpenersExact
<1> QED
  BY <1>1, <1>2, <1>3, <1>4, <1>5, <1>6, <1>7, <1>8, <1>9, <1>10 DEF DeviceNext, FileStep

-----------------------------------------------------------------------------
\* openers is the number of files that raised it and of the failed opens that did, although it is
\* counted outside every lock (nfb_char_open, nfb_char_release).
THEOREM DeviceSafe == DeviceSpec => []DeviceInv
<1>1. DeviceInv /\ [DeviceNext]_devVars => DeviceInv'
  BY DeviceTypeStep, DeviceCountStep DEF DeviceInv
<1> QED
  BY DeviceInitInv, <1>1, PTL DEF DeviceSpec

\* A device whose openers are all gone is held by no file.
LEMMA NoneCounted == DeviceInv /\ dev.openers = 0 => Counted = {}
<1> SUFFICES ASSUME DeviceInv, dev.openers = 0 PROVE Counted = {}
  OBVIOUS
<1>1. Cardinality(Holders) = 0
  BY HoldersFinite DEF DeviceInv, OpenersExact, DeviceTypeOK
<1>2. Holders = {}
  BY <1>1, HoldersFinite, FS_EmptySet
<1> QED
  BY <1>2 DEF Holders, Counted

\* The only step from "looked" to "counted", and the only one from "released" to "last".
LEMMA StepsOfOpen ==
  ASSUME DeviceTypeOK, [DeviceNext]_devVars, NEW p \in Proc
  PROVE  /\ fl[p].at = "looked" /\ fl'[p].at = "counted" => char_open_count(p)
         /\ fl[p].at = "released" /\ fl'[p].at = "last" => char_release_count(p)
<1> DEFINE Act(r) == \/ char_open_lookup(r) \/ char_open_fail(r)
                     \/ ioctl_error_disable(r)
                     \/ \E image \in Image : ioctl_reload(r, image)
                     \/ FileStep(r)
<1> USE DEF DeviceTypeOK
<1>1. ASSUME NEW r \in Proc, r # p, Act(r)
      PROVE  fl'[p].at = fl[p].at
  <2>1. CASE nfb_remove(r)
    BY <1>1, <2>1 DEF nfb_remove, FileRec
  <2>2. ASSUME NEW s, FileGoto(r, s)
        PROVE  fl'[p].at = fl[p].at
    BY <1>1, <2>2 DEF FileGoto
  <2>3. ASSUME NEW s, fl' = [fl EXCEPT ![r] = s]
        PROVE  fl'[p].at = fl[p].at
    BY <1>1, <2>3
  <2>4. CASE char_open_lookup(r) \/ char_open_count(r) \/ char_open(r) \/ char_release(r)
    BY <2>2, <2>4 DEF char_open_lookup, char_open_count, char_open, char_release
  <2>5. CASE set_lr_callback(r) \/ reload_command(r) \/ nfb_probe_enable(r)
             \/ \E image \in Image : ioctl_reload(r, image)
    BY <2>2, <2>5 DEF set_lr_callback, reload_command, nfb_probe_enable, ioctl_reload
  <2>6. CASE char_open_fail(r) \/ char_open_refuse(r) \/ reload_rescan(r)
    BY <2>3, <2>6 DEF char_open_fail, char_open_refuse, reload_rescan
  <2>7. CASE char_release_count(r)
    BY Zenon, <2>3, <2>7 DEF char_release_count
  <2>8. CASE char_release_last(r)
    BY Zenon, <2>3, <2>8 DEF char_release_last
  <2>9. CASE ioctl_error_disable(r) \/ nfb_remove_drivers(r) \/ nfb_probe_publish(r) \/ nfb_probe_drivers(r)
    BY <2>9 DEF ioctl_error_disable, nfb_remove_drivers, nfb_probe_publish, nfb_probe_drivers
  <2> QED
    BY <1>1, <2>1, <2>4, <2>5, <2>6, <2>7, <2>8, <2>9 DEF FileStep
<1>2. Act(p) /\ fl[p].at = "looked" => char_open_count(p)
  BY DEF FileStep, FileAt, char_open_lookup, char_open_fail, ioctl_error_disable, ioctl_reload,
         char_open_refuse, char_open, set_lr_callback, char_release, char_release_count,
         char_release_last, reload_command, nfb_remove_drivers, nfb_remove, nfb_probe_publish,
         nfb_probe_drivers, nfb_probe_enable, reload_rescan
<1>3. Act(p) /\ fl[p].at = "released" => char_release_count(p)
  BY DEF FileStep, FileAt, char_open_lookup, char_open_fail, ioctl_error_disable, ioctl_reload,
         char_open_count, char_open_refuse, char_open, set_lr_callback, char_release,
         char_release_last, reload_command, nfb_remove_drivers, nfb_remove, nfb_probe_publish,
         nfb_probe_drivers, nfb_probe_enable, reload_rescan
<1>4. CASE UNCHANGED devVars
  BY <1>4 DEF devVars
<1>5. CASE DeviceNext
  <2>1. PICK r \in Proc : Act(r)
    BY <1>5 DEF DeviceNext
  <2>2. CASE r = p
    BY <1>2, <1>3, <2>1, <2>2
  <2>3. CASE r # p
    BY <1>1, <2>1, <2>3
  <2> QED
    BY <2>2, <2>3
<1> QED
  BY <1>4, <1>5

\* An O_APPEND open succeeds alone: the count it raised was 0 (nfb_char_open).
THEOREM DeviceAppendAlone == DeviceSpec => AppendAlone
<1> DEFINE A == \A p \in Booter : (FileAt(p, "looked") /\ fl'[p].at = "counted" /\ ~fl[p].old) => Counted = {}
<1>1. DeviceInv /\ [DeviceNext]_devVars => A
  <2> SUFFICES ASSUME DeviceInv, [DeviceNext]_devVars, NEW p \in Booter,
                      FileAt(p, "looked"), fl'[p].at = "counted", ~fl[p].old
               PROVE  Counted = {}
    OBVIOUS
  <2>1. p \in Proc /\ DeviceTypeOK
    BY DeviceConstants DEF DeviceInv
  <2>2. char_open_count(p)
    BY <2>1, StepsOfOpen DEF FileAt
  <2>3. ~(dev.openers > 0)
    <3>1. CASE dev.openers > 0
      <4>1. fl'[p].at = "refused"
        BY <2>1, <2>2, <3>1 DEF char_open_count, FileGoto, DeviceTypeOK, FileRec
      <4> QED
        BY <4>1
    <3> QED
      BY <3>1
  <2>4. dev.openers \in Int /\ dev.openers >= 0
    <3>1. dev.openers = Cardinality(Holders) + leaked /\ leaked \in Nat
      BY <2>1 DEF DeviceInv, OpenersExact, DeviceTypeOK
    <3> QED
      BY <3>1, HoldersFinite
  <2> QED
    BY <2>3, <2>4, NoneCounted
<1>2. DeviceSpec => [][A]_devVars
  BY DeviceSafe, <1>1, PTL DEF DeviceSpec
<1> QED
  BY <1>2 DEF AppendAlone

\* The release that counts to 0 leaves no file of the device open (nfb_char_release); what lets one
\* in before the callback is run is the gap between the two steps, which ReloadIsLast shows.
THEOREM DeviceLastLeavesNone == DeviceSpec => LastLeavesNone
<1> DEFINE L == \A p \in Proc : (FileAt(p, "released") /\ fl'[p].at = "last") => Counted' = {}
<1>0. (DeviceInv /\ dev.openers = 0 => Counted = {})'
  BY NoneCounted, PTL
<1>1. DeviceInv /\ DeviceInv' /\ [DeviceNext]_devVars => L
  <2> SUFFICES ASSUME DeviceInv, DeviceInv', [DeviceNext]_devVars, NEW p \in Proc,
                      FileAt(p, "released"), fl'[p].at = "last"
               PROVE  Counted' = {}
    OBVIOUS
  <2>1. char_release_count(p)
    BY StepsOfOpen DEF FileAt, DeviceInv
  <2>2. dev'.openers = 0
    BY <2>1 DEF char_release_count, DeviceInv, DeviceTypeOK, Closed
  <2> QED
    BY <2>2, <1>0
<1>2. DeviceSpec => [][L]_devVars
  BY DeviceSafe, <1>1, PTL DEF DeviceSpec
<1> QED
  BY <1>2 DEF LastLeavesNone
=============================================================================
