------------------------------ MODULE NfbLock ------------------------------
(***************************************************************************)
(* Component locking: the lock list of an NFB device (lock.c) and the      *)
(* lock / unlock calls its clients make (nfb_comp_trylock, nfb_comp_lock   *)
(* and nfb_comp_unlock, of bus.c in the kernel and of nfb.c in libnfb).    *)
(*                                                                         *)
(* The list is kept per application (an open file of the character         *)
(* device, or the one kernel_app that stands for every kernel module).     *)
(* The callers that rely on the lock are finer than that: two comps opened *)
(* on one file, or two kernel modules, are different clients of the same   *)
(* application.  What they are promised is mutual exclusion of CLIENTS.    *)
(***************************************************************************)
EXTENDS Naturals

CONSTANTS
  Client,     \* callers of nfb_comp_trylock / nfb_comp_lock
  App,        \* struct nfb_app: one per open file, and kernel_app
  KernelApp,  \* nfb->kernel_app, never released
  AppOf,      \* the application a client calls through
  Path,       \* FDT paths of components
  Feature,    \* bits of a feature mask
  Request     \* the feature masks that clients lock

ASSUME AppAssumption == KernelApp \in App /\ AppOf \in [Client -> App]
ASSUME RequestAssumption == Request \subseteq SUBSET Feature
ASSUME PathAssumption == Path # {}

VARIABLES
  lock_list,  \* nfb->lock_list
  pc,         \* where a client is in its lock / unlock cycle
  req         \* the path, features and timeout of a client's call

vars == <<lock_list, pc, req>>

Timeout == {"zero", "bounded", "forever"}
Call == [path : Path, features : SUBSET Feature, timeout : Timeout]
Item == [app : App, path : Path, features : SUBSET Feature]

TypeOK ==
  /\ lock_list \in SUBSET Item
  /\ pc \in [Client -> {"idle", "trying", "holding"}]
  /\ req \in [Client -> Call]

\* The arguments of a call that has returned; nothing depends on them.
NoCall == CHOOSE call \in Call : TRUE

Init ==
  /\ lock_list = {}
  /\ pc = [c \in Client |-> "idle"]
  /\ req = [c \in Client |-> NoCall]

-----------------------------------------------------------------------------
(* The operations of lock.c, each atomic under nfb->lock_mutex.            *)

\* Mutant: an application never conflicts with itself.
BusyOtherApp(app, path, features) ==
  \E i \in lock_list :
    i.path = path /\ i.features \cap features # {} /\ i.app # app

\* Some requested feature is locked already, by whichever application (the
\* caller's own included).
Busy(app, path, features) ==
  \E i \in lock_list : i.path = path /\ i.features \cap features # {}

OwnItems(app, path) == {i \in lock_list : i.app = app /\ i.path = path}
OwnItem(app, path) == CHOOSE i \in OwnItems(app, path) : TRUE

\* Mutant: every call adds an item of its own.
LockedNoReuse(app, path, features) ==
  lock_list \cup {[app |-> app, path |-> path, features |-> features]}

\* The list after a successful nfb_lock_try_lock.
Locked(app, path, features) ==
  IF OwnItems(app, path) = {}
  THEN lock_list \cup {[app |-> app, path |-> path, features |-> features]}
  ELSE LET i == OwnItem(app, path)
       IN  (lock_list \ {i}) \cup
             {[app |-> app, path |-> path, features |-> i.features \cup features]}

\* Mutant: the whole item goes, not only the features of the call.
UnlockedItem(app, path, features) == lock_list \ OwnItems(app, path)

\* The list after nfb_lock_unlock; -ENODEV leaves it as it is.
Unlocked(app, path, features) ==
  IF OwnItems(app, path) = {}
  THEN lock_list
  ELSE LET i == OwnItem(app, path)
           rest == i.features \ features
       IN  (lock_list \ {i}) \cup
             (IF rest = {}
              THEN {}
              ELSE {[app |-> app, path |-> path, features |-> rest]})

-----------------------------------------------------------------------------
(* The clients.                                                            *)

\* The call of client c returns without a lock.
Return(c) ==
  /\ pc' = [pc EXCEPT ![c] = "idle"]
  /\ req' = [req EXCEPT ![c] = NoCall]

\* A client enters nfb_comp_trylock (or nfb_comp_lock, which is trylock with
\* a timeout of 100 ms in the kernel and without end in libnfb).
Enter(c, path, features, timeout) ==
  /\ pc[c] = "idle"
  /\ timeout = "forever" => AppOf[c] # KernelApp
  /\ pc' = [pc EXCEPT ![c] = "trying"]
  /\ req' = [req EXCEPT ![c] =
       [path |-> path, features |-> features, timeout |-> timeout]]
  /\ UNCHANGED lock_list

TryLockOk(c) ==
  /\ pc[c] = "trying"
  /\ ~Busy(AppOf[c], req[c].path, req[c].features)
  /\ lock_list' = Locked(AppOf[c], req[c].path, req[c].features)
  /\ pc' = [pc EXCEPT ![c] = "holding"]
  /\ UNCHANGED req

\* -EBUSY ends the call at once with timeout 0 and when the time is up
\* with a bounded one; otherwise the caller sleeps and tries again.
TryLockGiveUp(c) ==
  /\ pc[c] = "trying"
  /\ Busy(AppOf[c], req[c].path, req[c].features)
  /\ req[c].timeout # "forever"
  /\ Return(c)
  /\ UNCHANGED lock_list

\* kmalloc of a new item fails: -ENOMEM is returned whatever the timeout.
TryLockNoMem(c) ==
  /\ pc[c] = "trying"
  /\ ~Busy(AppOf[c], req[c].path, req[c].features)
  /\ OwnItems(AppOf[c], req[c].path) = {}
  /\ Return(c)
  /\ UNCHANGED lock_list

Unlock(c) ==
  /\ pc[c] = "holding"
  /\ lock_list' = Unlocked(AppOf[c], req[c].path, req[c].features)
  /\ Return(c)

\* Mutant: the locks of a dead application stay.
ReleaseKeepsItems(app) ==
  /\ app # KernelApp
  /\ pc' = [c \in Client |-> IF AppOf[c] = app THEN "idle" ELSE pc[c]]
  /\ req' = [c \in Client |-> IF AppOf[c] = app THEN NoCall ELSE req[c]]
  /\ UNCHANGED lock_list

\* The last reference to the open file is dropped (close, exit, kill):
\* nfb_lock_release deletes every item of the application.
Release(app) ==
  /\ app # KernelApp
  /\ lock_list' = {i \in lock_list : i.app # app}
  /\ pc' = [c \in Client |-> IF AppOf[c] = app THEN "idle" ELSE pc[c]]
  /\ req' = [c \in Client |-> IF AppOf[c] = app THEN NoCall ELSE req[c]]

Next ==
  \/ \E c \in Client, path \in Path, features \in Request, timeout \in Timeout :
       Enter(c, path, features, timeout)
  \/ \E c \in Client : TryLockOk(c)
  \/ \E c \in Client : TryLockGiveUp(c)
  \/ \E c \in Client : TryLockNoMem(c)
  \/ \E c \in Client : Unlock(c)
  \/ \E app \in App : Release(app)

Spec == Init /\ [][Next]_vars

\* A caller in the retry loop keeps retrying.  Nothing is assumed of holders.
Fairness == \A c \in Client : WF_vars(TryLockOk(c))

FairSpec == Spec /\ Fairness

-----------------------------------------------------------------------------
(* Properties.                                                             *)

\* What nfb_comp_lock promises: while a client holds features of a component
\* no other client holds any of them, also when both call through the same
\* application (two kernel modules, or two comps of one open device).
Mutex ==
  \A c, d \in Client :
    /\ c # d
    /\ pc[c] = "holding" /\ pc[d] = "holding"
    /\ req[c].path = req[d].path
    => req[c].features \cap req[d].features = {}

\* No lock of a running client is lost: unlocking or closing by others
\* never removes a feature that some client still holds from the list.
HeldIsListed ==
  \A c \in Client : pc[c] = "holding" =>
    \A f \in req[c].features :
      \E i \in lock_list :
        i.app = AppOf[c] /\ i.path = req[c].path /\ f \in i.features

\* No lock is leaked: every feature in the list is held by a client of the
\* item's application, so a timed out call, a failed allocation and a dead
\* process leave nothing behind.
ListedIsHeld ==
  \A i \in lock_list : \A f \in i.features :
    \E c \in Client :
      /\ pc[c] = "holding"
      /\ AppOf[c] = i.app /\ req[c].path = i.path /\ f \in req[c].features

\* An application has one item per component, which is what makes the
\* search of nfb_lock_unlock (it stops at the first match) sufficient.
OneItemPerComp ==
  \A i, j \in lock_list : i.app = j.app /\ i.path = j.path => i = j

\* A client that waits without a timeout does not wait for nobody: it gets
\* the lock (or its process ends) or some client holds the component.
WaitsForHolder ==
  \A c \in Client :
    (pc[c] = "trying" /\ req[c].timeout = "forever")
      ~> (\/ pc[c] # "trying"
          \/ \E d \in Client : pc[d] = "holding" /\ req[d].path = req[c].path)
=============================================================================
