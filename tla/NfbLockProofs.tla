--------------------------- MODULE NfbLockProofs ---------------------------
(***************************************************************************)
(* Component locking is a mutual exclusion of clients, whatever clients,   *)
(* applications, components and feature masks there are.                   *)
(*                                                                         *)
(* Mutex is not inductive: the list is what a new request is compared      *)
(* with, so it has to be known that it holds what the clients hold         *)
(* (HeldIsListed); that in turn survives an unlock by another client of    *)
(* the same application only because of Mutex and of OneItemPerComp.       *)
(***************************************************************************)
EXTENDS NfbLock, TLAPS

LockInv == TypeOK /\ OneItemPerComp /\ HeldIsListed /\ Mutex

\* The filler for a call that has returned is a well-typed call.
LEMMA NoCallType == NoCall \in Call
<1>1. PICK path \in Path : TRUE
  BY PathAssumption
<1>2. [path |-> path, features |-> {}, timeout |-> "zero"] \in Call
  BY DEF Call, Timeout
<1> QED
  BY <1>2 DEF NoCall

\* An empty list satisfies the inductive invariant.
LEMMA InitLockInv == Init => LockInv
BY NoCallType DEF Init, LockInv, TypeOK, OneItemPerComp, HeldIsListed, Mutex

\* The item nfb_lock_unlock and nfb_lock_try_lock find is the only one of the
\* application for the component.
LEMMA OwnItemUnique ==
  ASSUME TypeOK, OneItemPerComp, NEW app, NEW path, OwnItems(app, path) # {}
  PROVE  /\ OwnItem(app, path) \in lock_list
         /\ OwnItem(app, path) \in Item
         /\ OwnItem(app, path).app = app
         /\ OwnItem(app, path).path = path
         /\ \A i \in lock_list :
              i.app = app /\ i.path = path => i = OwnItem(app, path)
<1>1. OwnItem(app, path) \in OwnItems(app, path)
  BY DEF OwnItem
<1> QED
  BY <1>1 DEF OwnItems, TypeOK, OneItemPerComp

\* What a successful nfb_lock_try_lock does to the list: the caller's item of
\* the component gains the features, every other item stays.
LEMMA LockedItems ==
  ASSUME TypeOK, OneItemPerComp,
         NEW app \in App, NEW path \in Path, NEW features \in SUBSET Feature
  PROVE  \E item \in Item :
           /\ item.app = app /\ item.path = path
           /\ features \subseteq item.features
           /\ \A i \in OwnItems(app, path) : i.features \subseteq item.features
           /\ \A f \in item.features :
                f \in features \/ \E i \in OwnItems(app, path) : f \in i.features
           /\ Locked(app, path, features) =
                (lock_list \ OwnItems(app, path)) \cup {item}
<1>1. CASE OwnItems(app, path) = {}
  <2> DEFINE item == [app |-> app, path |-> path, features |-> features]
  <2>1. item \in Item
    BY DEF Item
  <2>2. Locked(app, path, features) = lock_list \cup {item}
    BY <1>1 DEF Locked
  <2> QED
    BY <1>1, <2>1, <2>2
<1>2. CASE OwnItems(app, path) # {}
  <2> DEFINE own == OwnItem(app, path)
             item == [app |-> app, path |-> path,
                      features |-> own.features \cup features]
  <2>1. own \in Item /\ OwnItems(app, path) = {own}
    BY <1>2, OwnItemUnique DEF OwnItems
  <2>2. item \in Item
    BY <2>1 DEF Item
  <2>3. Locked(app, path, features) = (lock_list \ {own}) \cup {item}
    BY <1>2 DEF Locked
  <2> QED
    BY Zenon, <2>1, <2>2, <2>3
<1> QED
  BY <1>1, <1>2

\* What nfb_lock_unlock does to the list: the caller's item of the component
\* loses the features, every other item stays.
LEMMA UnlockedItems ==
  ASSUME TypeOK, OneItemPerComp,
         NEW app \in App, NEW path \in Path, NEW features \in SUBSET Feature
  PROVE  LET new == Unlocked(app, path, features)
         IN  /\ new \in SUBSET Item
             /\ \A i, j \in new : i.app = j.app /\ i.path = j.path => i = j
             /\ \A i \in lock_list : ~(i.app = app /\ i.path = path) => i \in new
             /\ \A i \in new : \/ i \in lock_list /\ ~(i.app = app /\ i.path = path)
                               \/ /\ i.app = app /\ i.path = path
                                  /\ i.features \cap features = {}
                                  /\ \E j \in lock_list :
                                       /\ j.app = app /\ j.path = path
                                       /\ i.features \subseteq j.features
             /\ \A i \in lock_list : i.app = app /\ i.path = path =>
                  \A f \in i.features \ features :
                    \E j \in new : j.app = app /\ j.path = path /\ f \in j.features
<1>1. CASE OwnItems(app, path) = {}
  <2>1. Unlocked(app, path, features) = lock_list
    BY <1>1 DEF Unlocked
  <2> QED
    BY <1>1, <2>1 DEF OwnItems, TypeOK, OneItemPerComp
<1>2. CASE OwnItems(app, path) # {}
  <2> DEFINE own == OwnItem(app, path)
             rest == own.features \ features
             item == [app |-> app, path |-> path, features |-> rest]
             new == Unlocked(app, path, features)
  <2>1. /\ own \in lock_list /\ own \in Item /\ own.app = app /\ own.path = path
        /\ \A i \in lock_list : i.app = app /\ i.path = path => i = own
    BY <1>2, OwnItemUnique
  <2>2. item \in Item /\ item.app = app /\ item.path = path /\ item.features = rest
    BY <2>1 DEF Item
  <2>3. new = (lock_list \ {own}) \cup (IF rest = {} THEN {} ELSE {item})
    BY <1>2 DEF Unlocked
  <2> HIDE DEF own, item, new
  <2>4. lock_list \in SUBSET Item
    BY DEF TypeOK
  <2>5. \A i, j \in lock_list : i.app = j.app /\ i.path = j.path => i = j
    BY DEF OneItemPerComp
  <2>6. CASE rest = {}
    BY <2>1, <2>3, <2>4, <2>5, <2>6 DEF new
  <2>7. CASE rest # {}
    BY <2>1, <2>2, <2>3, <2>4, <2>5, <2>7 DEF new
  <2> QED
    BY <2>6, <2>7
<1> QED
  BY <1>1, <1>2

\* nfb_lock_try_lock found no requested feature in the list: nobody holds one.
LEMMA TryLockOkInv ==
  ASSUME LockInv, NEW c \in Client, TryLockOk(c)
  PROVE  LockInv'
<1> DEFINE app == AppOf[c]
           path == req[c].path
           features == req[c].features
<1>1. app \in App /\ path \in Path /\ features \in SUBSET Feature
  BY AppAssumption DEF LockInv, TypeOK, Call
<1>2. PICK item \in Item :
        /\ item.app = app /\ item.path = path
        /\ features \subseteq item.features
        /\ \A i \in OwnItems(app, path) : i.features \subseteq item.features
        /\ lock_list' = (lock_list \ OwnItems(app, path)) \cup {item}
  BY <1>1, LockedItems DEF LockInv, TryLockOk
<1>3. /\ pc' = [pc EXCEPT ![c] = "holding"] /\ req' = req
      /\ pc[c] = "trying"
      /\ \A i \in lock_list : i.path = path => i.features \cap features = {}
  BY DEF TryLockOk, Busy
<1> USE DEF LockInv
<1>4. TypeOK'
  BY <1>2, <1>3 DEF TypeOK, OwnItems
<1>5. OneItemPerComp'
  BY <1>2 DEF OneItemPerComp, OwnItems
<1>6. HeldIsListed'
  <2> SUFFICES ASSUME NEW d \in Client, pc'[d] = "holding", NEW f \in req[d].features
               PROVE  \E i \in lock_list' :
                        i.app = AppOf[d] /\ i.path = req[d].path /\ f \in i.features
    BY <1>3 DEF HeldIsListed
  <2>1. CASE d = c
    BY <1>2, <2>1
  <2>2. CASE d # c
    <3>1. PICK i \in lock_list :
            i.app = AppOf[d] /\ i.path = req[d].path /\ f \in i.features
      BY <1>3, <2>2 DEF HeldIsListed, TypeOK
    <3> QED
      BY <1>2, <3>1 DEF OwnItems
  <2> QED
    BY <2>1, <2>2
<1>7. Mutex'
  <2> SUFFICES ASSUME NEW a \in Client, NEW b \in Client, a # b,
                      pc'[a] = "holding", pc'[b] = "holding",
                      req[a].path = req[b].path,
                      NEW f \in req[a].features, f \in req[b].features
               PROVE  FALSE
    BY <1>3 DEF Mutex
  <2>1. \A d \in Client : d # c /\ pc'[d] = "holding" => pc[d] = "holding"
    BY <1>3 DEF TypeOK
  <2>2. \A d \in Client :
          d # c /\ pc'[d] = "holding" /\ req[d].path = path => f \notin features
             \/ f \notin req[d].features
    BY <1>3, <2>1 DEF HeldIsListed
  <2>3. a # c /\ b # c
    BY <2>2
  <2> QED
    BY <2>1, <2>3 DEF Mutex
<1> QED
  BY <1>4, <1>5, <1>6, <1>7

\* nfb_lock_unlock takes away no feature another client holds.
LEMMA UnlockInv ==
  ASSUME LockInv, NEW c \in Client, Unlock(c)
  PROVE  LockInv'
<1> DEFINE app == AppOf[c]
           path == req[c].path
           features == req[c].features
<1> USE DEF LockInv
<1>1. app \in App /\ path \in Path /\ features \in SUBSET Feature
  BY AppAssumption DEF TypeOK, Call
<1>2. /\ lock_list' \in SUBSET Item
      /\ \A i, j \in lock_list' : i.app = j.app /\ i.path = j.path => i = j
      /\ \A i \in lock_list : ~(i.app = app /\ i.path = path) => i \in lock_list'
      /\ \A i \in lock_list : i.app = app /\ i.path = path =>
           \A f \in i.features \ features :
             \E j \in lock_list' : j.app = app /\ j.path = path /\ f \in j.features
  BY <1>1, UnlockedItems DEF Unlock
<1>3. /\ pc[c] = "holding" /\ pc' = [pc EXCEPT ![c] = "idle"]
      /\ req' = [req EXCEPT ![c] = NoCall]
  BY DEF Unlock, Return
<1>4. TypeOK'
  BY <1>2, <1>3, NoCallType DEF TypeOK
<1>5. OneItemPerComp'
  BY <1>2 DEF OneItemPerComp
<1>6. \A d \in Client : pc'[d] = "holding" =>
        d # c /\ pc[d] = "holding" /\ req'[d] = req[d]
  BY <1>3 DEF TypeOK
<1>7. HeldIsListed'
  <2> SUFFICES ASSUME NEW d \in Client, pc'[d] = "holding", NEW f \in req'[d].features
               PROVE  \E i \in lock_list' :
                        i.app = AppOf[d] /\ i.path = req'[d].path /\ f \in i.features
    BY DEF HeldIsListed
  <2>1. PICK i \in lock_list :
          i.app = AppOf[d] /\ i.path = req'[d].path /\ f \in i.features
    BY <1>6 DEF HeldIsListed
  <2>2. CASE i.app = app /\ i.path = path
    <3>1. f \notin features
      BY <1>3, <1>6, <2>1, <2>2 DEF Mutex
    <3> QED
      BY <1>2, <2>1, <2>2, <3>1
  <2>3. CASE ~(i.app = app /\ i.path = path)
    BY <1>2, <2>1, <2>3
  <2> QED
    BY <2>2, <2>3
<1>8. Mutex'
  BY <1>6 DEF Mutex
<1> QED
  BY <1>4, <1>5, <1>7, <1>8

\* Closing a file removes the items and the clients of one application.
LEMMA ReleaseInv ==
  ASSUME LockInv, NEW app \in App, Release(app)
  PROVE  LockInv'
<1> USE DEF LockInv
<1>1. \A d \in Client : pc'[d] = "holding" =>
        AppOf[d] # app /\ pc[d] = "holding" /\ req'[d] = req[d]
  BY DEF Release, TypeOK
<1>2. TypeOK'
  BY NoCallType DEF Release, TypeOK
<1>3. OneItemPerComp'
  BY DEF Release, OneItemPerComp
<1>4. HeldIsListed'
  BY <1>1 DEF Release, HeldIsListed
<1>5. Mutex'
  BY <1>1 DEF Mutex
<1> QED
  BY <1>2, <1>3, <1>4, <1>5

\* Every operation of lock.c and every step of a client keeps LockInv.
LEMMA LockInvInductive == LockInv /\ [Next]_vars => LockInv'
<1> SUFFICES ASSUME LockInv, [Next]_vars
             PROVE  LockInv'
  OBVIOUS
<1> USE DEF LockInv
<1>1. ASSUME NEW c \in Client, NEW path \in Path, NEW features \in Request,
             NEW timeout \in Timeout, Enter(c, path, features, timeout)
      PROVE  LockInv'
  <2>1. [path |-> path, features |-> features, timeout |-> timeout] \in Call
    BY RequestAssumption DEF Call
  <2>2. \A d \in Client : pc'[d] = "holding" => pc[d] = "holding" /\ req'[d] = req[d]
    BY <1>1 DEF Enter, TypeOK
  <2>3. TypeOK'
    BY <1>1, <2>1 DEF Enter, TypeOK
  <2> QED
    BY <1>1, <2>2, <2>3 DEF Enter, OneItemPerComp, HeldIsListed, Mutex
<1>2. ASSUME NEW c \in Client, Return(c), UNCHANGED lock_list
      PROVE  LockInv'
  <2>1. \A d \in Client : pc'[d] = "holding" => pc[d] = "holding" /\ req'[d] = req[d]
    BY <1>2 DEF Return, TypeOK
  <2>2. TypeOK'
    BY <1>2, NoCallType DEF Return, TypeOK
  <2> QED
    BY <1>2, <2>1, <2>2 DEF OneItemPerComp, HeldIsListed, Mutex
<1>3. CASE UNCHANGED vars
  BY <1>3 DEF vars, TypeOK, OneItemPerComp, HeldIsListed, Mutex
<1> QED
  BY <1>1, <1>2, <1>3, TryLockOkInv, UnlockInv, ReleaseInv
     DEF Next, TryLockGiveUp, TryLockNoMem

\* For every set of clients, applications, components and feature masks the
\* lock list of lock.c is well formed, holds every feature that a client
\* holds, and keeps the clients apart.
THEOREM LockSafe == Spec => []LockInv
BY InitLockInv, LockInvInductive, PTL DEF Spec

\* nfb_comp_lock: no two clients hold the same feature of a component.
THEOREM LockMutex == Spec => []Mutex
<1>1. LockInv => Mutex
  BY DEF LockInv
<1> QED
  BY <1>1, LockSafe, PTL

\* nfb_lock_try_lock adds to the item of its application when there is one, so
\* the first match nfb_lock_unlock finds is the only one.
THEOREM LockOneItem == Spec => []OneItemPerComp
<1>1. LockInv => OneItemPerComp
  BY DEF LockInv
<1> QED
  BY <1>1, LockSafe, PTL

\* No unlock and no close takes a lock away from a client that holds it.
THEOREM LockNotLost == Spec => []HeldIsListed
<1>1. LockInv => HeldIsListed
  BY DEF LockInv
<1> QED
  BY <1>1, LockSafe, PTL

-----------------------------------------------------------------------------
(* Nothing is left behind in the list.                                     *)

\* A feature that survives an unlock belongs to another client.
LEMMA UnlockLeavesNothing ==
  ASSUME LockInv, ListedIsHeld, NEW c \in Client, Unlock(c)
  PROVE  ListedIsHeld'
<1> DEFINE app == AppOf[c]
           path == req[c].path
           features == req[c].features
<1> USE DEF LockInv
<1>1. app \in App /\ path \in Path /\ features \in SUBSET Feature
  BY AppAssumption DEF TypeOK, Call
<1>2. \A i \in lock_list' :
        \/ i \in lock_list /\ ~(i.app = app /\ i.path = path)
        \/ /\ i.app = app /\ i.path = path
           /\ i.features \cap features = {}
           /\ \E j \in lock_list :
                j.app = app /\ j.path = path /\ i.features \subseteq j.features
  BY <1>1, UnlockedItems DEF Unlock
<1>3. \A d \in Client : d # c => pc'[d] = pc[d] /\ req'[d] = req[d]
  BY DEF Unlock, Return, TypeOK
<1> SUFFICES ASSUME NEW i \in lock_list', NEW f \in i.features
             PROVE  \E d \in Client :
                      /\ pc'[d] = "holding"
                      /\ AppOf[d] = i.app /\ req'[d].path = i.path /\ f \in req'[d].features
  BY DEF ListedIsHeld
<1>4. PICK d \in Client :
        /\ pc[d] = "holding" /\ AppOf[d] = i.app /\ req[d].path = i.path
        /\ f \in req[d].features
  <2>1. PICK j \in lock_list : j.app = i.app /\ j.path = i.path /\ f \in j.features
    BY <1>2
  <2> QED
    BY <2>1 DEF ListedIsHeld
<1>5. d # c
  BY <1>2, <1>4
<1> QED
  BY <1>3, <1>4, <1>5

\* The features that nfb_lock_try_lock adds belong to the caller.
LEMMA TryLockLeavesNothing ==
  ASSUME LockInv, ListedIsHeld, NEW c \in Client, TryLockOk(c)
  PROVE  ListedIsHeld'
<1> DEFINE app == AppOf[c]
           path == req[c].path
           features == req[c].features
<1> USE DEF LockInv
<1>1. app \in App /\ path \in Path /\ features \in SUBSET Feature
  BY AppAssumption DEF TypeOK, Call
<1>2. PICK item \in Item :
        /\ item.app = app /\ item.path = path
        /\ \A f \in item.features :
             f \in features \/ \E i \in OwnItems(app, path) : f \in i.features
        /\ lock_list' = (lock_list \ OwnItems(app, path)) \cup {item}
  BY <1>1, LockedItems DEF TryLockOk
<1>3. /\ pc[c] = "trying" /\ pc'[c] = "holding" /\ req' = req
      /\ \A d \in Client : d # c => pc'[d] = pc[d]
  BY DEF TryLockOk, TypeOK
<1> SUFFICES ASSUME NEW i \in lock_list', NEW f \in i.features
             PROVE  \E d \in Client :
                      /\ pc'[d] = "holding"
                      /\ AppOf[d] = i.app /\ req[d].path = i.path /\ f \in req[d].features
  BY <1>3 DEF ListedIsHeld
<1>4. CASE i = item /\ f \in features
  BY <1>2, <1>3, <1>4
<1>5. CASE ~(i = item /\ f \in features)
  <2>1. PICK j \in lock_list : j.app = i.app /\ j.path = i.path /\ f \in j.features
    BY <1>2, <1>5 DEF OwnItems
  <2>2. PICK d \in Client :
          /\ pc[d] = "holding" /\ AppOf[d] = i.app /\ req[d].path = i.path
          /\ f \in req[d].features
    BY <2>1 DEF ListedIsHeld
  <2> QED
    BY <1>3, <2>2
<1> QED
  BY <1>4, <1>5

\* Every step keeps the list free of features that nobody holds.
LEMMA ListedInductive ==
  LockInv /\ ListedIsHeld /\ [Next]_vars => ListedIsHeld'
<1> SUFFICES ASSUME LockInv, ListedIsHeld, [Next]_vars
             PROVE  ListedIsHeld'
  OBVIOUS
<1> USE DEF LockInv
<1>1. ASSUME UNCHANGED lock_list,
             \A d \in Client : pc[d] = "holding" => pc'[d] = pc[d] /\ req'[d] = req[d]
      PROVE  ListedIsHeld'
  BY <1>1 DEF ListedIsHeld
<1>2. ASSUME NEW c \in Client, NEW path \in Path, NEW features \in Request,
             NEW timeout \in Timeout, Enter(c, path, features, timeout)
      PROVE  ListedIsHeld'
  BY <1>1, <1>2 DEF Enter, TypeOK
<1>3. ASSUME NEW c \in Client, TryLockGiveUp(c) \/ TryLockNoMem(c)
      PROVE  ListedIsHeld'
  BY <1>1, <1>3 DEF TryLockGiveUp, TryLockNoMem, Return, TypeOK
<1>4. ASSUME NEW app \in App, Release(app)
      PROVE  ListedIsHeld'
  <2>1. /\ lock_list' = {i \in lock_list : i.app # app}
        /\ \A d \in Client : AppOf[d] # app => pc'[d] = pc[d] /\ req'[d] = req[d]
    BY <1>4 DEF Release
  <2> QED
    BY <2>1 DEF ListedIsHeld
<1>5. CASE UNCHANGED vars
  BY <1>1, <1>5 DEF vars
<1> QED
  BY <1>2, <1>3, <1>4, <1>5, TryLockLeavesNothing, UnlockLeavesNothing DEF Next

\* A call that timed out or failed, an unlock and a dead process leave no
\* feature locked.
THEOREM LockNotLeaked == Spec => []ListedIsHeld
<1>1. Init => LockInv /\ ListedIsHeld
  BY InitLockInv DEF Init, ListedIsHeld
<1>2. LockInv /\ ListedIsHeld /\ [Next]_vars => (LockInv /\ ListedIsHeld)'
  BY LockInvInductive, ListedInductive
<1> QED
  BY <1>1, <1>2, PTL DEF Spec
=============================================================================
