-------------------------- MODULE NdpChannelProofs --------------------------
(***************************************************************************)
(* Safety of an NDP channel for any number of subscriptions and any ring   *)
(* size.  The argument has three layers:                                   *)
(*   ControlInv  who is linked, who holds the mutex, what the counters     *)
(*               count, so that the controller and the pointers are reset  *)
(*               (StartFirst) only when nobody is linked;                  *)
(*   RxInv       the order of the pointers of an RX ring;                  *)
(*   TxInv       the position of the windows of a TX ring, relative to the *)
(*               hwptr the driver knows (which may lie behind hw_ptr).     *)
(***************************************************************************)
EXTENDS NdpChannel, FiniteSetTheorems, TLAPS

-----------------------------------------------------------------------------
(* Arithmetic on the ring.                                                 *)

\* "& ptrmask" always yields a slot of the ring.
LEMMA MaskRange == \A x \in Int : Mask(x) \in Ptr
BY SizeAssumption DEF Mask, Ptr

\* What "& ptrmask" does to a number at most one lap off the ring.
LEMMA MaskValue ==
  /\ \A x \in Ptr : Mask(x) = x
  /\ \A x \in Int : x < 0 /\ x + Size >= 0 => Mask(x) = x + Size
  /\ \A x \in Int : x >= Size /\ x < Size + Size => Mask(x) = x - Size
<1>1. \A x \in Ptr : Mask(x) = x
  BY SizeAssumption DEF Mask, Ptr
<1>2. \A x \in Int : x < 0 /\ x + Size >= 0 => Mask(x) = x + Size
  BY SizeAssumption DEF Mask
<1>3. \A x \in Int : x >= Size /\ x < Size + Size => Mask(x) = x - Size
  BY SizeAssumption DEF Mask
<1> QED
  BY <1>1, <1>2, <1>3

\* The distance of two slots, without and with a wrap in between.
LEMMA DistValue ==
  ASSUME NEW a \in Ptr, NEW b \in Ptr
  PROVE  /\ Dist(a, b) \in Ptr
         /\ a >= b => Dist(a, b) = a - b
         /\ a < b => Dist(a, b) = a - b + Size
BY MaskValue, MaskRange, SizeAssumption DEF Dist, Ptr

\* Slots and distances are natural numbers (all that most leaves need).
LEMMA DistNat == /\ \A a, b \in Ptr : Dist(a, b) \in Nat
                 /\ \A a \in Ptr : a \in Nat
<1>1. \A a \in Ptr : a \in Nat
  BY SizeAssumption DEF Ptr
<1> QED
  BY <1>1, DistValue

\* Moving a slot forward by less than a lap.
LEMMA MaskSum ==
  ASSUME NEW a \in Ptr, NEW n \in Ptr
  PROVE  /\ Mask(a + n) \in Ptr
         /\ a + n < Size => Mask(a + n) = a + n
         /\ a + n >= Size => Mask(a + n) = a + n - Size
BY MaskValue, MaskRange, SizeAssumption DEF Ptr

\* The free space behind b, "(a - b - 1) & ptrmask".
LEMMA FreeValue ==
  ASSUME NEW a \in Ptr, NEW b \in Ptr
  PROVE  Mask(a - b - 1) = Size - 1 - Dist(b, a)
<1>1. CASE a > b
  <2>1. a - b - 1 \in Ptr
    BY <1>1, SizeAssumption DEF Ptr
  <2> QED
    BY <1>1, <2>1, MaskValue, DistValue, SizeAssumption DEF Ptr
<1>2. CASE a <= b
  <2>1. Mask(a - b - 1) = a - b - 1 + Size
    BY <1>2, MaskValue, SizeAssumption DEF Ptr
  <2> QED
    BY <1>2, <2>1, DistValue, SizeAssumption DEF Ptr
<1> QED
  BY <1>1, <1>2 DEF Ptr

\* Moving the far end of a distance forward, or the near end.
LEMMA DistAdvance ==
  ASSUME NEW a \in Ptr, NEW b \in Ptr, NEW n \in Ptr
  PROVE  /\ n <= Dist(a, b) => Dist(a, Mask(b + n)) = Dist(a, b) - n
         /\ Dist(a, b) + n < Size => Dist(Mask(a + n), b) = Dist(a, b) + n
<1> DEFINE x == Mask(b + n)
           y == Mask(a + n)
<1>1. /\ x \in Ptr
      /\ b + n < Size => x = b + n
      /\ b + n >= Size => x = b + n - Size
  BY MaskSum
<1>2. /\ y \in Ptr
      /\ a + n < Size => y = a + n
      /\ a + n >= Size => y = a + n - Size
  BY MaskSum
<1>3. /\ Dist(a, b) \in Ptr
      /\ a >= b => Dist(a, b) = a - b
      /\ a < b => Dist(a, b) = a - b + Size
  BY DistValue
<1> HIDE DEF x, y
<1>4. /\ a >= x => Dist(a, x) = a - x
      /\ a < x => Dist(a, x) = a - x + Size
  BY <1>1, DistValue
<1>5. /\ y >= b => Dist(y, b) = y - b
      /\ y < b => Dist(y, b) = y - b + Size
  BY <1>2, DistValue
<1>6. n <= Dist(a, b) => Dist(a, x) = Dist(a, b) - n
  BY <1>1, <1>3, <1>4, SizeAssumption DEF Ptr
<1>7. Dist(a, b) + n < Size => Dist(y, b) = Dist(a, b) + n
  BY <1>2, <1>3, <1>5, SizeAssumption DEF Ptr
<1> QED
  BY <1>6, <1>7 DEF x, y

\* Distances add up along the ring.
LEMMA DistBetween ==
  ASSUME NEW a \in Ptr, NEW b \in Ptr, NEW c \in Ptr, Dist(a, b) <= Dist(a, c)
  PROVE  Dist(b, c) = Dist(a, c) - Dist(a, b)
<1>1. (a >= b => Dist(a, b) = a - b) /\ (a < b => Dist(a, b) = a - b + Size)
  BY DistValue
<1>2. (a >= c => Dist(a, c) = a - c) /\ (a < c => Dist(a, c) = a - c + Size)
  BY DistValue
<1>3. (b >= c => Dist(b, c) = b - c) /\ (b < c => Dist(b, c) = b - c + Size)
  BY DistValue
<1> QED
  BY <1>1, <1>2, <1>3, SizeAssumption DEF Ptr

\* The same, seen from behind.
LEMMA DistSelf ==
  ASSUME NEW a \in Ptr
  PROVE  Dist(a, a) = 0
BY DistValue, SizeAssumption DEF Ptr

-----------------------------------------------------------------------------
(* Types.                                                                  *)

\* Slot 0 exists.
LEMMA ZeroPtr == 0 \in Ptr
BY SizeAssumption DEF Ptr

\* A new channel is well typed.
LEMMA InitTypeOK == Init => TypeOK
BY ZeroPtr DEF Init, TypeOK

\* The head of ndp_channel_stop keeps the types.
LEMMA StopEnterType ==
  ASSUME TypeOK, NEW s \in Sub, NEW wait \in {"stopping", "forcing"},
         StopEnter(s, wait), closing' \in SUBSET Sub
  PROVE  TypeOK'
BY DEF TypeOK, StopEnter, Goto, ptrs

\* The common part of ndp_channel_start keeps the types.
LEMMA LinkType ==
  ASSUME TypeOK, NEW s \in Sub, Link(s), hwptr' \in Ptr, swptr' \in Ptr,
         hw' \in {"off", "on", "halt"}, hw_ptr' \in Ptr
  PROVE  TypeOK'
BY DEF TypeOK, Link

\* The window handed out by ndp_channel_txsync is inside the ring.
LEMMA WindowType ==
  ASSUME TypeOK, NEW s \in Sub, NEW n \in Ptr, Window(s, n), swptr' \in Ptr
  PROVE  TypeOK'
<1> DEFINE asked == Dist(sub_swptr[s], sub_hwptr[s])
           len == IF asked < FreeSlots THEN asked ELSE FreeSlots
<1>1. hwptr' = Mask(hwptr + n) /\ hwptr' \in Ptr
  BY MaskSum DEF Window, TypeOK
<1>2. asked \in Ptr /\ FreeSlots \in Ptr
  <2>1. hwptr' - swptr' - 1 \in Int
    BY <1>1, SizeAssumption DEF Ptr
  <2>2. FreeSlots \in Ptr
    BY <2>1, MaskRange DEF FreeSlots
  <2>3. sub_swptr[s] \in Ptr /\ sub_hwptr[s] \in Ptr
    BY DEF TypeOK
  <2> QED
    BY <2>2, <2>3, DistValue
<1>3. len \in Ptr
  BY <1>2
<1>4. Mask(swptr' + len) \in Ptr
  BY <1>3, MaskSum
<1>5. /\ locked_sub' \in {NoSub, s}
      /\ sub_hwptr' = [sub_hwptr EXCEPT ![s] = swptr']
      /\ sub_swptr' = [sub_swptr EXCEPT ![s] = Mask(swptr' + len)]
      /\ pc' = [pc EXCEPT ![s] = "idle"]
      /\ UNCHANGED <<status, closing, subscriptions_count, flags,
                     mutex, start_count, list_subscriptions, ctrl>>
  BY DEF Window, Goto
<1> QED
  BY <1>1, <1>4, <1>5 DEF TypeOK, ctrl

\* Every step keeps the types; the masks keep the pointers on the ring.
LEMMA TypeOKInductive == TypeOK /\ [Next]_vars => TypeOK'
<1> SUFFICES ASSUME TypeOK, [Next]_vars
             PROVE  TypeOK'
  OBVIOUS
<1>1. ASSUME NEW s \in Sub, NEW req \in Request, Subscribe(s, req)
      PROVE  TypeOK'
  BY <1>1 DEF Subscribe, TypeOK, locks, ptrs, ctrl, Flag
<1>2. ASSUME NEW s \in Sub, Unsubscribe(s)
      PROVE  TypeOK'
  BY <1>2 DEF Unsubscribe, TypeOK, Goto, locks, ptrs, ctrl
<1>3. ASSUME NEW s \in Sub, StartFirst(s)
      PROVE  TypeOK'
  BY <1>3, LinkType, ZeroPtr DEF StartFirst
<1>4. ASSUME NEW s \in Sub, StartJoin(s)
      PROVE  TypeOK'
  <2>1. hwptr' \in Ptr /\ swptr' \in Ptr /\ hw' \in {"off", "on", "halt"} /\ hw_ptr' \in Ptr
    BY <1>4 DEF StartJoin, TypeOK, ctrl
  <2> QED
    BY <1>4, <2>1, LinkType DEF StartJoin
<1>5. ASSUME NEW s \in Sub, Stop(s)
      PROVE  TypeOK'
  BY <1>5, StopEnterType DEF Stop, TypeOK
<1>6. ASSUME NEW s \in Sub, Destroy(s)
      PROVE  TypeOK'
  <2>1. closing' \in SUBSET Sub
    BY <1>6 DEF Destroy, TypeOK
  <2>2. CASE status[s] = "RUNNING"
    BY <1>6, <2>1, <2>2, StopEnterType DEF Destroy
  <2>3. CASE status[s] # "RUNNING"
    BY <1>6, <2>1, <2>3 DEF Destroy, Goto, TypeOK, locks, ptrs, ctrl
  <2> QED
    BY <2>2, <2>3
<1>7. ASSUME NEW s \in Sub, StopForce(s)
      PROVE  TypeOK'
  BY <1>7, StopEnterType DEF StopForce, TypeOK
<1>8. ASSUME NEW s \in Sub, StopAgain(s)
      PROVE  TypeOK'
  BY <1>8 DEF StopAgain, TypeOK, Goto, ptrs, ctrl
<1>9. ASSUME NEW s \in Sub, StopDone(s)
      PROVE  TypeOK'
  BY <1>9 DEF StopDone, TypeOK, Goto, locks, ptrs, ctrl
<1>10. ASSUME NEW s \in Sub, Unlink(s)
       PROVE  TypeOK'
  BY <1>10 DEF Unlink, TypeOK, Goto, ptrs, ctrl
<1>11. ASSUME NEW s \in Sub, NEW n \in Ptr, RxRelease(s, n)
       PROVE  TypeOK'
  <2>1. Mask(sub_swptr[s] + n) \in Ptr
    BY MaskSum DEF TypeOK
  <2> QED
    BY <1>11, <2>1 DEF RxRelease, TypeOK, Goto, locks, ctrl
<1>12. ASSUME NEW s \in Sub, NEW n \in Ptr, RxSync(s, n)
       PROVE  TypeOK'
  <2>1. Mask(hwptr + n) \in Ptr
    BY MaskSum DEF TypeOK
  <2>2. swptr' \in Ptr
    BY <1>12 DEF RxSync, TypeOK
  <2> QED
    BY <1>12, <2>1, <2>2 DEF RxSync, TypeOK, Goto, locks, ctrl
<1>13. ASSUME NEW s \in Sub, NEW put \in Ptr, NEW want \in Ptr, TxRequest(s, put, want)
       PROVE  TypeOK'
  <2>1. Mask(sub_hwptr[s] + put) \in Ptr
    BY MaskSum DEF TypeOK
  <2>2. sub_hwptr[s] + put + want \in Int
    BY SizeAssumption DEF TypeOK, Ptr
  <2>3. Mask(sub_hwptr[s] + put + want) \in Ptr
    BY <2>2, MaskRange
  <2> QED
    BY <1>13, <2>1, <2>3 DEF TxRequest, TypeOK, Goto, locks, ctrl
<1>14. ASSUME NEW s \in Sub, NEW n \in Ptr, TxSyncHolder(s, n)
       PROVE  TypeOK'
  <2>1. swptr' \in Ptr
    BY <1>14 DEF TxSyncHolder, TypeOK
  <2> QED
    BY <1>14, <2>1, WindowType DEF TxSyncHolder
<1>15. ASSUME NEW s \in Sub, NEW n \in Ptr, TxSyncFree(s, n)
       PROVE  TypeOK'
  <2>1. swptr' \in Ptr
    BY <1>15 DEF TxSyncFree, TypeOK
  <2> QED
    BY <1>15, <2>1, WindowType DEF TxSyncFree
<1>16. ASSUME NEW s \in Sub, TxSyncOther(s)
       PROVE  TypeOK'
  BY <1>16 DEF TxSyncOther, TypeOK, Goto, locks, ctrl
<1>17. CASE HwReceive \/ HwSend
  <2>1. Mask(hw_ptr + 1) \in Ptr
    <3>1. hw_ptr + 1 \in Int
      BY SizeAssumption DEF TypeOK, Ptr
    <3> QED
      BY <3>1, MaskRange
  <2> QED
    BY <1>17, <2>1 DEF HwReceive, HwSend, TypeOK, users, locks, ptrs
<1>18. CASE HwHalt
  BY <1>18 DEF HwHalt, TypeOK, users, locks, ptrs
<1>19. CASE UNCHANGED vars
  BY <1>19 DEF vars, users, locks, ptrs, ctrl, TypeOK
<1> QED
  BY <1>1, <1>2, <1>3, <1>4, <1>5, <1>6, <1>7, <1>8, <1>9, <1>10, <1>11, <1>12,
     <1>13, <1>14, <1>15, <1>16, <1>17, <1>18, <1>19 DEF Next

\* Every pointer of the channel, of the controller and of a subscription stays
\* inside the ring, whatever the ring size and the number of subscriptions.
THEOREM ChannelType == Spec => []TypeOK
BY InitTypeOK, TypeOKInductive, PTL DEF Spec

-----------------------------------------------------------------------------
(* Who is linked, who holds the mutex and what the counters count.         *)

StopSteps == {"stopping", "forcing", "unlink"}

\* The life of a subscription: linked exactly while it runs, in the driver's
\* stop exactly while it holds the mutex, and gone only when it is idle.
Lifecycle ==
  \A s \in Sub :
    /\ status[s] = "RUNNING" <=> s \in list_subscriptions
    /\ mutex = s <=> pc[s] \in StopSteps
    /\ pc[s] \notin {"idle", "unsubscribe"} => status[s] = "RUNNING"
    /\ pc[s] = "unsubscribe" => status[s] = "SUBSCRIBED"

ControlInv == Lifecycle /\ CountsExact /\ LockHolderRuns

Started == list_subscriptions \ Stopping

\* The sets the counters count are finite.
LEMMA FiniteParts ==
  ASSUME TypeOK
  PROVE  /\ IsFiniteSet(Members) /\ IsFiniteSet(Started)
         /\ Cardinality(Members) \in Nat /\ Cardinality(Started) \in Nat
<1>1. Members \in SUBSET Sub /\ Started \in SUBSET Sub
  BY DEF Members, Started, TypeOK
<1>2. IsFiniteSet(Members) /\ IsFiniteSet(Started)
  BY <1>1, FS_Subset, SubAssumption
<1> QED
  BY <1>2, FS_CardinalityType

\* start_count is zero only when no subscription is linked, except for one
\* whose stop holds the mutex.
LEMMA NobodyStarted ==
  ASSUME TypeOK, ControlInv
  PROVE  /\ start_count \in Nat
         /\ start_count = 0 <=> Started = {}
         /\ start_count = 0 /\ mutex = NoSub => list_subscriptions = {}
         /\ list_subscriptions = {} => start_count = 0
<1>1. start_count = Cardinality(Started)
  BY DEF ControlInv, CountsExact, Started
<1>2. start_count \in Nat /\ (start_count = 0 <=> Started = {})
  BY <1>1, FiniteParts, FS_EmptySet
<1>3. mutex = NoSub => Stopping = {}
  BY SubAssumption DEF ControlInv, Lifecycle, Stopping, StopSteps
<1> QED
  BY <1>2, <1>3 DEF Started

\* A new channel has no subscription, no start and no lock.
LEMMA InitControl == Init => ControlInv
<1> SUFFICES ASSUME Init PROVE ControlInv
  OBVIOUS
<1>1. Members = {} /\ list_subscriptions \ Stopping = {}
  BY DEF Init, Members, Stopping
<1>2. CountsExact
  BY <1>1, FS_EmptySet DEF Init, CountsExact
<1>3. Lifecycle
  BY SubAssumption DEF Init, Lifecycle, StopSteps
<1> QED
  BY <1>2, <1>3 DEF Init, ControlInv, LockHolderRuns

\* A step of s that leaves the list, the mutex and the counters alone.
LEMMA CallStepControl ==
  ASSUME TypeOK, ControlInv, NEW s \in Sub, NEW label,
         UNCHANGED <<status, subscriptions_count, mutex, start_count, list_subscriptions>>,
         pc' = [pc EXCEPT ![s] = label],
         \/ /\ pc[s] \in StopSteps /\ label \in StopSteps
            /\ locked_sub' = locked_sub
         \/ /\ pc[s] \in {"idle", "sync"} /\ label \in {"idle", "sync"}
            /\ status[s] = "RUNNING" /\ locked_sub' \in {locked_sub, NoSub, s}
  PROVE  ControlInv'
<1> USE DEF ControlInv, StopSteps
<1>1. Stopping' = Stopping /\ Members' = Members
  BY DEF Stopping, Members, TypeOK
<1>2. CountsExact'
  BY <1>1 DEF CountsExact
<1>3. Lifecycle'
  BY DEF Lifecycle, TypeOK
<1>4. LockHolderRuns'
  BY DEF LockHolderRuns, Lifecycle, TypeOK
<1> QED
  BY <1>2, <1>3, <1>4

\* A subscription that is accepted is counted once.
LEMMA SubscribeControl ==
  ASSUME TypeOK, ControlInv, NEW s \in Sub, NEW req \in Request, Subscribe(s, req)
  PROVE  ControlInv'
<1> USE DEF ControlInv, StopSteps
<1>1. Members' = Members \cup {s} /\ s \notin Members /\ Stopping' = Stopping
  BY DEF Subscribe, Members, Stopping, TypeOK
<1>2. Cardinality(Members') = Cardinality(Members) + 1
  BY Zenon, <1>1, FiniteParts, FS_AddElement
<1>3. CountsExact'
  BY <1>1, <1>2 DEF CountsExact, Subscribe, locks
<1>4. Lifecycle'
  BY DEF Subscribe, Lifecycle, TypeOK, locks
<1>5. LockHolderRuns'
  BY DEF Subscribe, LockHolderRuns, locks
<1> QED
  BY <1>3, <1>4, <1>5

\* Only a subscription that is not linked goes away.
LEMMA UnsubscribeControl ==
  ASSUME TypeOK, ControlInv, NEW s \in Sub, Unsubscribe(s)
  PROVE  ControlInv'
<1> USE DEF ControlInv, StopSteps
<1>1. Members' = Members \ {s} /\ s \in Members /\ Stopping' = Stopping
  BY DEF Unsubscribe, Goto, Members, Stopping, TypeOK, Lifecycle
<1>2. Cardinality(Members') = Cardinality(Members) - 1
  BY Zenon, <1>1, FiniteParts, FS_RemoveElement
<1>3. CountsExact'
  BY <1>1, <1>2 DEF CountsExact, Unsubscribe, locks
<1>4. Lifecycle'
  BY DEF Unsubscribe, Goto, Lifecycle, TypeOK, locks
<1>5. LockHolderRuns'
  BY DEF Unsubscribe, Goto, LockHolderRuns, Lifecycle, TypeOK, locks
<1> QED
  BY <1>3, <1>4, <1>5

\* A start counts and links the subscription together.
LEMMA LinkControl ==
  ASSUME TypeOK, ControlInv, NEW s \in Sub, Link(s)
  PROVE  ControlInv'
<1> USE DEF ControlInv, StopSteps
<1>1. Members' = Members /\ Stopping' = Stopping
  BY DEF Link, Members, Stopping, TypeOK
<1>2. Started' = Started \cup {s} /\ s \notin Started
  BY <1>1 DEF Link, Started, Stopping, Lifecycle
<1>3. Cardinality(Started') = Cardinality(Started) + 1
  BY Zenon, <1>2, FiniteParts, FS_AddElement
<1>4. CountsExact'
  BY <1>1, <1>3 DEF CountsExact, Link, Started
<1>5. Lifecycle'
  BY DEF Link, Lifecycle, TypeOK
<1>6. LockHolderRuns'
  BY DEF Link, LockHolderRuns
<1> QED
  BY <1>4, <1>5, <1>6

\* A stop uncounts its subscription first and frees its TX lock.
LEMMA StopEnterControl ==
  ASSUME TypeOK, ControlInv, NEW s \in Sub, NEW wait \in {"stopping", "forcing"},
         status[s] = "RUNNING", StopEnter(s, wait)
  PROVE  ControlInv'
<1> USE DEF ControlInv, StopSteps
<1>1. pc'[s] \in StopSteps /\ (\A t \in Sub : t # s => pc'[t] = pc[t])
  BY DEF StopEnter, Goto, TypeOK
<1>2. Members' = Members /\ Stopping' = Stopping \cup {s}
  BY <1>1 DEF StopEnter, Members, Stopping
<1>3. Started' = Started \ {s} /\ s \in Started
  BY <1>2, SubAssumption DEF StopEnter, Started, Stopping, Lifecycle
<1>4. Cardinality(Started') = Cardinality(Started) - 1
  BY Zenon, <1>3, FiniteParts, FS_RemoveElement
<1>5. CountsExact'
  BY <1>2, <1>4 DEF CountsExact, StopEnter, Started
<1>6. Lifecycle'
  BY <1>1, SubAssumption DEF StopEnter, Lifecycle
<1>7. LockHolderRuns'
  BY <1>1 DEF StopEnter, LockHolderRuns, TypeOK
<1> QED
  BY <1>5, <1>6, <1>7

\* A stop that gets -EAGAIN restores the count it took.
LEMMA StopAgainControl ==
  ASSUME TypeOK, ControlInv, NEW s \in Sub, StopAgain(s)
  PROVE  ControlInv'
<1> USE DEF ControlInv, StopSteps
<1>1. pc'[s] \in {"sleep", "retry"} /\ (\A t \in Sub : t # s => pc'[t] = pc[t])
  BY DEF StopAgain, Goto, TypeOK
<1>2. Members' = Members /\ Stopping' = Stopping \ {s}
  BY <1>1 DEF StopAgain, Members, Stopping
<1>3. Started' = Started \cup {s} /\ s \notin Started
  BY <1>2 DEF StopAgain, Started, Stopping, Lifecycle
<1>4. Cardinality(Started') = Cardinality(Started) + 1
  BY Zenon, <1>3, FiniteParts, FS_AddElement
<1>5. CountsExact'
  BY <1>2, <1>4 DEF CountsExact, StopAgain, Started
<1>6. Lifecycle'
  BY <1>1, SubAssumption DEF StopAgain, Lifecycle
<1>7. LockHolderRuns'
  BY <1>1 DEF StopAgain, LockHolderRuns, TypeOK
<1> QED
  BY <1>5, <1>6, <1>7

\* A stop that succeeds unlinks what it has uncounted.
LEMMA UnlinkControl ==
  ASSUME TypeOK, ControlInv, NEW s \in Sub, Unlink(s)
  PROVE  ControlInv'
<1> USE DEF ControlInv, StopSteps
<1>1. pc'[s] \in {"idle", "unsubscribe"} /\ (\A t \in Sub : t # s => pc'[t] = pc[t])
  BY DEF Unlink, Goto, TypeOK
<1>2. status'[s] = "SUBSCRIBED" /\ (\A t \in Sub : t # s => status'[t] = status[t])
  BY DEF Unlink, TypeOK
<1>3. Members' = Members /\ Started' = Started
  BY <1>1, <1>2 DEF Unlink, Members, Started, Stopping, Lifecycle
<1>4. CountsExact'
  BY <1>3 DEF CountsExact, Unlink, Started
<1>5. Lifecycle'
  BY <1>1, <1>2, SubAssumption DEF Unlink, Lifecycle
<1>6. LockHolderRuns'
  BY <1>1 DEF Unlink, LockHolderRuns, TypeOK
<1> QED
  BY <1>4, <1>5, <1>6

\* Every step keeps the control invariant.
LEMMA ControlInductive == TypeOK /\ ControlInv /\ [Next]_vars => ControlInv'
<1> SUFFICES ASSUME TypeOK, ControlInv, [Next]_vars
             PROVE  ControlInv'
  OBVIOUS
<1>1. ASSUME NEW s \in Sub, StartFirst(s) \/ StartJoin(s)
      PROVE  ControlInv'
  BY <1>1, LinkControl DEF StartFirst, StartJoin
<1>2. ASSUME NEW s \in Sub, Stop(s) \/ StopForce(s)
      PROVE  ControlInv'
  <2>1. status[s] = "RUNNING"
    BY <1>2 DEF Stop, StopForce, ControlInv, Lifecycle
  <2> QED
    BY <1>2, <2>1, StopEnterControl DEF Stop, StopForce
<1>3. ASSUME NEW s \in Sub, Destroy(s)
      PROVE  ControlInv'
  <2>1. CASE status[s] = "RUNNING"
    BY <1>3, <2>1, StopEnterControl DEF Destroy
  <2>2. CASE status[s] # "RUNNING"
    <3>1. /\ UNCHANGED <<status, subscriptions_count, locks>>
          /\ pc' = [pc EXCEPT ![s] = "unsubscribe"]
          /\ status[s] = "SUBSCRIBED" /\ pc[s] \in {"idle", "retry"}
      BY <1>3, <2>2 DEF Destroy, Goto, TypeOK
    <3>2. Stopping' = Stopping /\ Members' = Members
      BY <3>1 DEF Stopping, Members, TypeOK
    <3>3. CountsExact'
      BY <3>1, <3>2 DEF ControlInv, CountsExact, locks
    <3>4. Lifecycle'
      BY <3>1 DEF ControlInv, Lifecycle, TypeOK, locks, StopSteps
    <3>5. LockHolderRuns'
      BY <3>1 DEF ControlInv, LockHolderRuns, Lifecycle, TypeOK, locks
    <3> QED
      BY <3>3, <3>4, <3>5 DEF ControlInv
  <2> QED
    BY <2>1, <2>2
<1>4. ASSUME NEW s \in Sub, StopDone(s)
      PROVE  ControlInv'
  BY Zenon, <1>4, CallStepControl DEF StopDone, Goto, StopSteps, locks
<1>5. ASSUME NEW s \in Sub, NEW n \in Ptr, RxRelease(s, n)
      PROVE  ControlInv'
  BY Zenon, <1>5, CallStepControl DEF RxRelease, Goto, locks
<1>6. ASSUME NEW s \in Sub, NEW put \in Ptr, NEW want \in Ptr, TxRequest(s, put, want)
      PROVE  ControlInv'
  BY Zenon, <1>6, CallStepControl DEF TxRequest, Goto, locks
<1>7. ASSUME NEW s \in Sub, NEW n \in Ptr, RxSync(s, n)
      PROVE  ControlInv'
  <2>1. status[s] = "RUNNING"
    BY <1>7 DEF RxSync, ControlInv, Lifecycle
  <2> QED
    BY Zenon, <1>7, <2>1, CallStepControl DEF RxSync, Goto, locks
<1>8. ASSUME NEW s \in Sub, NEW n \in Ptr, TxSyncHolder(s, n) \/ TxSyncFree(s, n)
      PROVE  ControlInv'
  <2>1. status[s] = "RUNNING" /\ pc[s] = "sync" /\ Window(s, n)
    BY <1>8 DEF TxSyncHolder, TxSyncFree, ControlInv, Lifecycle
  <2>2. locked_sub' \in {NoSub, s}
    BY <2>1 DEF Window
  <2> QED
    BY Zenon, <2>1, <2>2, CallStepControl DEF Window, Goto
<1>9. ASSUME NEW s \in Sub, TxSyncOther(s)
      PROVE  ControlInv'
  <2>1. status[s] = "RUNNING"
    BY <1>9 DEF TxSyncOther, ControlInv, Lifecycle
  <2> QED
    BY Zenon, <1>9, <2>1, CallStepControl DEF TxSyncOther, Goto, locks
<1>10. CASE HwReceive \/ HwSend \/ HwHalt \/ UNCHANGED vars
  <2>1. UNCHANGED <<users, locks>>
    BY <1>10 DEF HwReceive, HwSend, HwHalt, vars
  <2> QED
    BY <2>1 DEF users, locks, ControlInv, Lifecycle, CountsExact, LockHolderRuns,
                Members, Stopping
<1> QED
  BY <1>1, <1>2, <1>3, <1>4, <1>5, <1>6, <1>7, <1>8, <1>9, <1>10,
     SubscribeControl, UnsubscribeControl, StopAgainControl, UnlinkControl DEF Next

\* The counters, the list and the TX lock stay consistent through every
\* interleaving of starts, retried and forced stops, syncs and closes: the
\* controller is started by the first start and stopped by the last stop.
THEOREM ChannelControl == Spec => []ControlInv
<1>1. Init => TypeOK /\ ControlInv
  BY InitTypeOK, InitControl
<1>2. (TypeOK /\ ControlInv) /\ [Next]_vars => (TypeOK /\ ControlInv)'
  BY TypeOKInductive, ControlInductive
<1> QED
  BY <1>1, <1>2, PTL DEF Spec

\* subscriptions_count and start_count are exact.
THEOREM ChannelCounts == Spec => []CountsExact
<1>1. ControlInv => CountsExact
  BY DEF ControlInv
<1> QED
  BY <1>1, ChannelControl, PTL

\* The TX lock is never left with a subscription that was stopped or destroyed.
THEOREM ChannelLockHolder == Spec => []LockHolderRuns
<1>1. ControlInv => LockHolderRuns
  BY DEF ControlInv
<1> QED
  BY <1>1, ChannelControl, PTL
=============================================================================
