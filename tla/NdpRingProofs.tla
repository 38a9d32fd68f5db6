--------------------------- MODULE NdpRingProofs ---------------------------
(***************************************************************************)
(* The pointers of an NDP ring, on top of the control invariant.           *)
(***************************************************************************)
EXTENDS NdpChannelProofs

-----------------------------------------------------------------------------
(* The exclusive flag and the idle controller.                             *)

\* Every step keeps an exclusive subscription alone.
LEMMA ExclusiveInductive ==
  TypeOK /\ ControlInv /\ ExclusiveAlone /\ [Next]_vars => ExclusiveAlone'
<1> SUFFICES ASSUME TypeOK, ControlInv, ExclusiveAlone, [Next]_vars
             PROVE  ExclusiveAlone'
  OBVIOUS
<1>1. ASSUME NEW s \in Sub, NEW req \in Request, Subscribe(s, req)
      PROVE  ExclusiveAlone'
  <2>1. Members' = Members \cup {s}
    BY <1>1 DEF Subscribe, Members, TypeOK
  <2>2. CASE subscriptions_count = 0
    <3>1. Members = {}
      BY Zenon, <2>2, FiniteParts, FS_EmptySet DEF ControlInv, CountsExact
    <3> QED
      BY <2>1, <3>1 DEF ExclusiveAlone
  <2>3. CASE subscriptions_count # 0
    BY <1>1, <2>3 DEF Subscribe, Accepts, ExclusiveAlone
  <2> QED
    BY <2>2, <2>3
<1>2. ASSUME flags' = flags, Members' \subseteq Members
      PROVE  ExclusiveAlone'
  BY <1>2 DEF ExclusiveAlone
<1>3. ASSUME flags' = flags, \A s \in Sub : status'[s] # "FREE" => status[s] # "FREE"
      PROVE  ExclusiveAlone'
  BY <1>2, <1>3 DEF Members
<1>4. ASSUME NEW s \in Sub, StartFirst(s) \/ StartJoin(s)
      PROVE  ExclusiveAlone'
  BY <1>3, <1>4 DEF StartFirst, StartJoin, Link, TypeOK
<1>5. ASSUME NEW s \in Sub, Unsubscribe(s) \/ Unlink(s)
      PROVE  ExclusiveAlone'
  BY <1>3, <1>5 DEF Unsubscribe, Unlink, TypeOK, ControlInv, Lifecycle
<1>6. ASSUME UNCHANGED <<status, flags>>
      PROVE  ExclusiveAlone'
  BY <1>3, <1>6
<1>7. ASSUME NEW s \in Sub, \/ Stop(s) \/ Destroy(s) \/ StopForce(s)
                            \/ StopAgain(s) \/ StopDone(s) \/ TxSyncOther(s)
      PROVE  ExclusiveAlone'
  BY <1>6, <1>7 DEF Stop, Destroy, StopForce, StopEnter, StopAgain, StopDone, TxSyncOther
<1>8. ASSUME NEW s \in Sub, NEW n \in Ptr,
             RxRelease(s, n) \/ RxSync(s, n) \/ TxSyncHolder(s, n) \/ TxSyncFree(s, n)
      PROVE  ExclusiveAlone'
  BY <1>6, <1>8 DEF RxRelease, RxSync, TxSyncHolder, TxSyncFree, Window
<1>9. ASSUME NEW s \in Sub, NEW put \in Ptr, NEW want \in Ptr, TxRequest(s, put, want)
      PROVE  ExclusiveAlone'
  BY <1>6, <1>9 DEF TxRequest
<1>10. CASE HwReceive \/ HwSend \/ HwHalt \/ UNCHANGED vars
  BY <1>6, <1>10 DEF HwReceive, HwSend, HwHalt, vars, users
<1> QED
  BY <1>1, <1>4, <1>5, <1>7, <1>8, <1>9, <1>10 DEF Next

\* A subscription with NDP_CHANNEL_FLAG_EXCLUSIVE is alone on its channel.
THEOREM ChannelExclusive == Spec => []ExclusiveAlone
<1>1. Init => TypeOK /\ ControlInv /\ ExclusiveAlone
  BY InitTypeOK, InitControl DEF Init, ExclusiveAlone
<1>2. (TypeOK /\ ControlInv /\ ExclusiveAlone) /\ [Next]_vars
        => (TypeOK /\ ControlInv /\ ExclusiveAlone)'
  BY TypeOKInductive, ControlInductive, ExclusiveInductive
<1> QED
  BY <1>1, <1>2, PTL DEF Spec

\* The last stop has told the controller to stop before it waits for it.
HwInv == start_count = 0 => hw # "on"

\* Every step keeps HwInv.
LEMMA HwInductive == TypeOK /\ ControlInv /\ HwInv /\ [Next]_vars => HwInv'
<1> SUFFICES ASSUME TypeOK, ControlInv, HwInv, [Next]_vars
             PROVE  HwInv'
  OBVIOUS
<1>1. start_count \in Nat
  BY NobodyStarted
<1>2. ASSUME NEW s \in Sub, StartFirst(s) \/ StartJoin(s) \/ StopAgain(s)
      PROVE  HwInv'
  BY <1>1, <1>2 DEF StartFirst, StartJoin, Link, StopAgain, HwInv
<1>3. ASSUME NEW s \in Sub, NEW wait, StopEnter(s, wait)
      PROVE  HwInv'
  BY <1>1, <1>3 DEF StopEnter, HwInv
<1>4. ASSUME UNCHANGED <<start_count, hw>>
      PROVE  HwInv'
  BY <1>4 DEF HwInv
<1>5. ASSUME NEW s \in Sub, Stop(s) \/ Destroy(s) \/ StopForce(s)
      PROVE  HwInv'
  BY <1>3, <1>4, <1>5 DEF Stop, Destroy, StopForce, locks, ctrl
<1>6. ASSUME NEW s \in Sub, Unsubscribe(s) \/ StopDone(s) \/ Unlink(s) \/ TxSyncOther(s)
      PROVE  HwInv'
  BY <1>4, <1>6 DEF Unsubscribe, StopDone, Unlink, TxSyncOther, locks, ctrl
<1>7. ASSUME NEW s \in Sub, NEW n \in Ptr,
             RxRelease(s, n) \/ RxSync(s, n) \/ TxSyncHolder(s, n) \/ TxSyncFree(s, n)
      PROVE  HwInv'
  BY <1>4, <1>7 DEF RxRelease, RxSync, TxSyncHolder, TxSyncFree, Window, locks, ctrl
<1>8. ASSUME NEW s \in Sub, NEW put \in Ptr, NEW want \in Ptr, TxRequest(s, put, want)
      PROVE  HwInv'
  BY <1>4, <1>8 DEF TxRequest, locks, ctrl
<1>9. ASSUME NEW s \in Sub, NEW req \in Request, Subscribe(s, req)
      PROVE  HwInv'
  BY <1>4, <1>9 DEF Subscribe, locks, ctrl
<1>10. CASE HwReceive \/ HwSend \/ HwHalt \/ UNCHANGED vars
  BY <1>10 DEF HwReceive, HwSend, HwHalt, vars, locks, ctrl, HwInv
<1> QED
  BY <1>2, <1>5, <1>6, <1>7, <1>8, <1>9, <1>10 DEF Next

\* A channel nobody runs on has had its controller told to stop.
THEOREM ChannelStopped == Spec => []StoppedWhenUnused
<1>1. Init => TypeOK /\ ControlInv /\ HwInv
  BY InitTypeOK, InitControl DEF Init, HwInv
<1>2. (TypeOK /\ ControlInv /\ HwInv) /\ [Next]_vars => (TypeOK /\ ControlInv /\ HwInv)'
  BY TypeOKInductive, ControlInductive, HwInductive
<1>3. TypeOK /\ ControlInv /\ HwInv => StoppedWhenUnused
  BY NobodyStarted DEF HwInv, StoppedWhenUnused
<1> QED
  BY <1>1, <1>2, <1>3, PTL DEF Spec

-----------------------------------------------------------------------------
(* The RX ring.                                                            *)

\* RxOrder, and the place of the channel's own pointers, where a subscription
\* that joins is put.
RxInv ==
  /\ RxOrder
  /\ Type = "RX" => Dist(hw_ptr, hwptr) <= Dist(hw_ptr, swptr)

\* Releasing slots moves the reader's swptr towards its hwptr.
LEMMA RxReleaseInv ==
  ASSUME TypeOK, RxInv, NEW s \in Sub, NEW n \in Ptr, RxRelease(s, n)
  PROVE  RxInv'
<1> USE DEF RxInv
<1>1. /\ UNCHANGED <<hw_ptr, hwptr, swptr, sub_hwptr, list_subscriptions>>
      /\ sub_swptr' = [sub_swptr EXCEPT ![s] = Mask(sub_swptr[s] + n)]
      /\ n <= Dist(sub_hwptr[s], sub_swptr[s]) /\ Type = "RX"
  BY DEF RxRelease, locks, ctrl
<1>2. hw_ptr \in Ptr /\ sub_hwptr[s] \in Ptr /\ sub_swptr[s] \in Ptr
  BY DEF TypeOK
<1>3. ASSUME s \in list_subscriptions
      PROVE  /\ Dist(hw_ptr, sub_hwptr[s]) <= Dist(hw_ptr, Mask(sub_swptr[s] + n))
             /\ Dist(hw_ptr, Mask(sub_swptr[s] + n)) <= Dist(hw_ptr, sub_swptr[s])
  <2>1. Dist(hw_ptr, sub_hwptr[s]) <= Dist(hw_ptr, sub_swptr[s])
    BY <1>1, <1>3 DEF RxOrder
  <2>2. Dist(sub_hwptr[s], sub_swptr[s]) = Dist(hw_ptr, sub_swptr[s]) - Dist(hw_ptr, sub_hwptr[s])
    BY <1>2, <2>1, DistBetween
  <2>3. Dist(hw_ptr, sub_swptr[s]) \in Int /\ Dist(hw_ptr, sub_hwptr[s]) \in Nat /\ n \in Nat
    BY <1>2, DistNat
  <2>4. n <= Dist(hw_ptr, sub_swptr[s])
    BY <1>1, <2>2, <2>3
  <2>5. Dist(hw_ptr, Mask(sub_swptr[s] + n)) = Dist(hw_ptr, sub_swptr[s]) - n
    BY <1>2, <2>4, DistAdvance
  <2> QED
    BY <1>1, <2>2, <2>3, <2>5
<1>4. \A t \in list_subscriptions : /\ t # s => sub_swptr'[t] = sub_swptr[t]
                                    /\ t = s => sub_swptr'[t] = Mask(sub_swptr[s] + n)
  BY <1>1 DEF TypeOK
<1>5. \A t \in list_subscriptions : /\ Dist(hw_ptr, sub_swptr[t]) \in Int
                                    /\ Dist(hw_ptr, sub_swptr'[t]) \in Int
  BY <1>2, <1>4, DistNat, MaskSum DEF TypeOK
<1>6. Dist(hw_ptr, swptr) \in Int
  BY DistNat DEF TypeOK
<1>7. RxOrder'
  BY <1>1, <1>3, <1>4, <1>5, <1>6 DEF RxOrder
<1> QED
  BY <1>1, <1>7

\* The farthest reader's swptr is given to the controller, the newest reported
\* position to the caller.
LEMMA RxSyncInv ==
  ASSUME TypeOK, ControlInv, RxInv, NEW s \in Sub, NEW n \in Ptr, RxSync(s, n)
  PROVE  RxInv' /\ Dist(hw_ptr, swptr') <= Dist(hw_ptr, swptr)
<1> DEFINE D(p) == Dist(hw_ptr, p)
<1> USE DEF RxInv
<1>1. /\ UNCHANGED <<hw_ptr, sub_swptr, list_subscriptions>>
      /\ sub_hwptr' = [sub_hwptr EXCEPT ![s] = hwptr']
      /\ hwptr' = Mask(hwptr + n) /\ n <= D(hwptr) /\ Type = "RX"
  BY DEF RxSync, Unreported, locks, ctrl
<1>2. s \in list_subscriptions
  BY DEF RxSync, ControlInv, Lifecycle
<1>3. /\ hw_ptr \in Ptr /\ hwptr \in Ptr /\ hwptr' \in Ptr /\ swptr \in Ptr
      /\ \A t \in list_subscriptions : sub_hwptr[t] \in Ptr /\ sub_swptr[t] \in Ptr
  BY <1>1, MaskSum DEF TypeOK
<1>4. /\ D(hwptr) \in Nat /\ D(hwptr') \in Nat /\ D(swptr) \in Nat /\ n \in Nat
      /\ \A t \in list_subscriptions : D(sub_hwptr[t]) \in Nat /\ D(sub_swptr[t]) \in Nat
  BY <1>3, DistNat
<1>5. D(hwptr') = D(hwptr) - n
  BY <1>1, <1>3, DistAdvance
<1>6. PICK far \in list_subscriptions :
        swptr' = sub_swptr[far] /\ \A u \in list_subscriptions : Lag(u) <= Lag(far)
  BY DEF RxSync, Farthest
<1>7. ASSUME NEW t \in list_subscriptions
      PROVE  D(hwptr) <= D(sub_hwptr[t]) /\ D(sub_hwptr[t]) <= D(sub_swptr[t])
             /\ D(sub_swptr[t]) <= D(swptr)
  BY <1>1 DEF RxOrder
<1>8. ASSUME NEW t \in list_subscriptions
      PROVE  Lag(t) = D(sub_swptr[t]) - D(hwptr)
  <2>1. D(hwptr) <= D(sub_swptr[t])
    BY <1>4, <1>7
  <2> QED
    BY <1>3, <2>1, DistBetween DEF Lag
<1>9. \A t \in list_subscriptions : D(sub_swptr[t]) <= D(swptr')
  <2> SUFFICES ASSUME NEW t \in list_subscriptions
               PROVE  D(sub_swptr[t]) <= D(swptr')
    OBVIOUS
  <2>1. Lag(t) <= Lag(far)
    BY <1>6
  <2> QED
    BY <1>4, <1>6, <1>8, <2>1
<1>10. ASSUME NEW t \in list_subscriptions
       PROVE  D(hwptr') <= D(sub_hwptr'[t]) /\ D(sub_hwptr'[t]) <= D(sub_swptr[t])
  <2>1. CASE t = s
    <3>1. sub_hwptr'[t] = hwptr'
      BY <1>1, <2>1 DEF TypeOK
    <3> QED
      BY <1>4, <1>5, <1>7, <3>1
  <2>2. CASE t # s
    <3>1. sub_hwptr'[t] = sub_hwptr[t]
      BY <1>1, <2>2 DEF TypeOK
    <3> QED
      BY <1>4, <1>5, <1>7, <3>1
  <2> QED
    BY <2>1, <2>2
<1>11. RxOrder'
  BY <1>1, <1>9, <1>10 DEF RxOrder
<1>12. D(hwptr') <= D(swptr') /\ D(swptr') <= D(swptr)
  BY <1>4, <1>5, <1>6, <1>7
<1> QED
  BY <1>1, <1>11, <1>12

\* The controller takes a slot only when one is free: no distance wraps.
LEMMA HwReceiveInv ==
  ASSUME TypeOK, RxInv, HwReceive
  PROVE  RxInv'
<1> USE DEF RxInv
<1>1. UNCHANGED <<hwptr, swptr, sub_hwptr, sub_swptr, list_subscriptions>>
  BY DEF HwReceive, locks, ptrs
<1>2. /\ hw_ptr \in Ptr /\ hwptr \in Ptr /\ swptr \in Ptr
      /\ \A t \in list_subscriptions : sub_hwptr[t] \in Ptr /\ sub_swptr[t] \in Ptr
  BY DEF TypeOK
<1>3. Dist(hw_ptr, swptr) + 1 < Size
  <2>1. Size - 1 - Dist(hw_ptr, swptr) > 0
    BY <1>2, FreeValue DEF HwReceive
  <2> QED
    BY <1>2, <2>1, DistValue, SizeAssumption DEF Ptr
<1>4. 1 \in Ptr
  BY <1>2, <1>3, DistValue, SizeAssumption DEF Ptr
<1>5. ASSUME NEW p \in Ptr, Dist(hw_ptr, p) <= Dist(hw_ptr, swptr)
      PROVE  Dist(hw_ptr', p) = Dist(hw_ptr, p) + 1
  <2>1. Dist(hw_ptr, p) + 1 < Size
    BY <1>2, <1>3, <1>5, DistValue, SizeAssumption DEF Ptr
  <2> QED
    BY <1>2, <1>4, <2>1, DistAdvance DEF HwReceive
<1>6. Type = "RX"
  BY DEF HwReceive
<1>7. Dist(hw_ptr', hwptr) <= Dist(hw_ptr', swptr)
  <2>1. Dist(hw_ptr, hwptr) <= Dist(hw_ptr, swptr)
    BY <1>6
  <2>2. Dist(hw_ptr, hwptr) \in Nat /\ Dist(hw_ptr, swptr) \in Nat
    BY <1>2, DistNat
  <2>3. /\ Dist(hw_ptr', hwptr) = Dist(hw_ptr, hwptr) + 1
        /\ Dist(hw_ptr', swptr) = Dist(hw_ptr, swptr) + 1
    BY <1>2, <1>5, <2>1, <2>2
  <2> QED
    BY <2>1, <2>2, <2>3
<1>8. RxOrder'
  <2> SUFFICES ASSUME NEW t \in list_subscriptions
               PROVE  /\ Dist(hw_ptr', hwptr) <= Dist(hw_ptr', sub_hwptr[t])
                      /\ Dist(hw_ptr', sub_hwptr[t]) <= Dist(hw_ptr', sub_swptr[t])
                      /\ Dist(hw_ptr', sub_swptr[t]) <= Dist(hw_ptr', swptr)
    BY <1>1 DEF RxOrder
  <2>1. /\ Dist(hw_ptr, hwptr) \in Nat /\ Dist(hw_ptr, sub_hwptr[t]) \in Nat
        /\ Dist(hw_ptr, sub_swptr[t]) \in Nat /\ Dist(hw_ptr, swptr) \in Nat
    BY <1>2, DistNat
  <2>2. /\ Dist(hw_ptr, hwptr) <= Dist(hw_ptr, sub_hwptr[t])
        /\ Dist(hw_ptr, sub_hwptr[t]) <= Dist(hw_ptr, sub_swptr[t])
        /\ Dist(hw_ptr, sub_swptr[t]) <= Dist(hw_ptr, swptr)
    BY <1>6 DEF RxOrder
  <2>3. /\ Dist(hw_ptr', hwptr) = Dist(hw_ptr, hwptr) + 1
        /\ Dist(hw_ptr', sub_hwptr[t]) = Dist(hw_ptr, sub_hwptr[t]) + 1
        /\ Dist(hw_ptr', sub_swptr[t]) = Dist(hw_ptr, sub_swptr[t]) + 1
        /\ Dist(hw_ptr', swptr) = Dist(hw_ptr, swptr) + 1
    BY <1>2, <1>5, <2>1, <2>2
  <2> QED
    BY <2>1, <2>2, <2>3
<1> QED
  BY <1>1, <1>7, <1>8

\* A reader starts at the newest slot, so it can only be ahead of the others.
LEMMA RxStartInv ==
  ASSUME TypeOK, ControlInv, RxInv, NEW s \in Sub, StartFirst(s) \/ StartJoin(s)
  PROVE  RxInv'
<1> USE DEF RxInv
<1>1. CASE StartFirst(s)
  <2>1. list_subscriptions = {}
    BY <1>1, NobodyStarted DEF StartFirst, Link
  <2>2. /\ hw_ptr' = 0 /\ hwptr' = 0 /\ swptr' = 0 /\ list_subscriptions' = {s}
        /\ sub_hwptr'[s] = 0 /\ sub_swptr'[s] = 0
    BY <1>1, <2>1 DEF StartFirst, Link, TypeOK
  <2>3. Dist(0, 0) = 0
    BY ZeroPtr, DistSelf
  <2> QED
    BY <2>2, <2>3 DEF RxOrder
<1>2. CASE StartJoin(s)
  <2>1. /\ UNCHANGED <<hwptr, swptr, hw_ptr>>
        /\ list_subscriptions' = list_subscriptions \cup {s}
        /\ sub_hwptr'[s] = hwptr /\ sub_swptr'[s] = hwptr
        /\ \A t \in Sub : t # s => sub_hwptr'[t] = sub_hwptr[t] /\ sub_swptr'[t] = sub_swptr[t]
    BY <1>2 DEF StartJoin, Link, TypeOK, ctrl
  <2>2. Dist(hw_ptr, hwptr) \in Nat
    BY DistNat DEF TypeOK
  <2> QED
    BY <2>1, <2>2 DEF RxOrder, TypeOK
<1> QED
  BY <1>1, <1>2

\* Every step keeps the order of the RX pointers.
LEMMA RxInductive == TypeOK /\ ControlInv /\ RxInv /\ [Next]_vars => RxInv'
<1> SUFFICES ASSUME TypeOK, ControlInv, RxInv, [Next]_vars, Type = "RX"
             PROVE  RxInv'
  BY DEF RxInv, RxOrder
<1>1. ASSUME UNCHANGED <<ptrs, hw_ptr>>, list_subscriptions' \subseteq list_subscriptions
      PROVE  RxInv'
  BY <1>1 DEF RxInv, RxOrder, ptrs
<1>2. ASSUME NEW s \in Sub, NEW wait, StopEnter(s, wait)
      PROVE  RxInv'
  BY <1>1, <1>2 DEF StopEnter
<1>3. ASSUME NEW s \in Sub, Stop(s) \/ Destroy(s) \/ StopForce(s)
      PROVE  RxInv'
  BY <1>1, <1>2, <1>3 DEF Stop, Destroy, StopForce, locks, ctrl
<1>4. ASSUME NEW s \in Sub, Unsubscribe(s) \/ StopAgain(s) \/ StopDone(s) \/ Unlink(s)
      PROVE  RxInv'
  BY <1>1, <1>4 DEF Unsubscribe, StopAgain, StopDone, Unlink, locks, ctrl
<1>5. ASSUME NEW s \in Sub, NEW req \in Request, Subscribe(s, req)
      PROVE  RxInv'
  BY <1>1, <1>5 DEF Subscribe, locks, ctrl
<1>6. CASE HwHalt \/ UNCHANGED vars
  BY <1>1, <1>6 DEF HwHalt, vars, locks, ctrl
<1> QED
  BY Zenon, <1>3, <1>4, <1>5, <1>6, RxStartInv, RxReleaseInv, RxSyncInv, HwReceiveInv
     DEF Next, TxRequest, TxSyncHolder, TxSyncFree, TxSyncOther, HwSend

\* All pointers start at slot 0.
LEMMA InitRx == Init => RxInv
BY ZeroPtr, DistSelf DEF Init, RxInv, RxOrder

\* A packet that a reader was shown is not overwritten before that reader
\* releases it, for any number of readers that join, read at their own pace,
\* leave and die.
THEOREM RxNoOverwrite == Spec => []RxOrder
<1>1. Init => TypeOK /\ ControlInv /\ RxInv
  BY InitTypeOK, InitControl, InitRx
<1>2. (TypeOK /\ ControlInv /\ RxInv) /\ [Next]_vars => (TypeOK /\ ControlInv /\ RxInv)'
  BY TypeOKInductive, ControlInductive, RxInductive
<1>3. RxInv => RxOrder
  BY DEF RxInv
<1> QED
  BY <1>1, <1>2, <1>3, PTL DEF Spec

-----------------------------------------------------------------------------
(* The TX ring.                                                            *)

\* Published slots not sent yet, as the controller and as the driver see them.
Pending == Dist(swptr, hw_ptr)
Assumed == Dist(swptr, hwptr)

\* Window and publish requests of the lock holder fit into what the driver
\* takes to be free, which is never more than what is free.
TxInv ==
  Type = "TX" =>
    /\ Pending <= Assumed
    /\ \A s \in list_subscriptions :
         /\ pc[s] = "idle" =>
              IF s = locked_sub
              THEN /\ sub_hwptr[s] = swptr /\ sub_swptr[s] # swptr
                   /\ Dist(sub_swptr[s], swptr) + Assumed < Size
              ELSE sub_hwptr[s] = sub_swptr[s]
         /\ pc[s] = "sync" /\ s = locked_sub =>
              Dist(sub_hwptr[s], swptr) + Assumed < Size

\* Two distances that together are shorter than the ring.
LEMMA DistJoin ==
  ASSUME NEW a \in Ptr, NEW b \in Ptr, NEW c \in Ptr, Dist(c, b) + Dist(b, a) < Size
  PROVE  Dist(c, a) = Dist(c, b) + Dist(b, a)
<1>1. (b >= a => Dist(b, a) = b - a) /\ (b < a => Dist(b, a) = b - a + Size)
  BY DistValue
<1>2. (c >= a => Dist(c, a) = c - a) /\ (c < a => Dist(c, a) = c - a + Size)
  BY DistValue
<1>3. (c >= b => Dist(c, b) = c - b) /\ (c < b => Dist(c, b) = c - b + Size)
  BY DistValue
<1> QED
  BY <1>1, <1>2, <1>3, SizeAssumption DEF Ptr

\* Moving by nothing.
LEMMA MaskZero ==
  ASSUME NEW a \in Ptr
  PROVE  Mask(a + 0) = a
<1>1. a + 0 = a
  BY SizeAssumption DEF Ptr
<1> QED
  BY <1>1, MaskValue

\* The locking part of txsync, from a new swptr that keeps the published data
\* within the ring.
LEMMA WindowInv ==
  ASSUME TypeOK, TxInv, Type = "TX", NEW s \in Sub, NEW n \in Ptr, Window(s, n),
         swptr' \in Ptr, locked_sub \in {NoSub, s},
         Dist(swptr', hw_ptr) <= Dist(swptr', hwptr)
  PROVE  TxInv'
<1> DEFINE asked == Dist(sub_swptr[s], sub_hwptr[s])
           len == IF asked < FreeSlots THEN asked ELSE FreeSlots
<1>1. /\ hwptr' = Mask(hwptr + n) /\ n <= Dist(hw_ptr, hwptr)
      /\ UNCHANGED <<hw_ptr, list_subscriptions>>
      /\ pc' = [pc EXCEPT ![s] = "idle"]
      /\ sub_hwptr' = [sub_hwptr EXCEPT ![s] = swptr']
      /\ sub_swptr' = [sub_swptr EXCEPT ![s] = Mask(swptr' + len)]
      /\ locked_sub' = IF len = 0 THEN NoSub ELSE s
  BY DEF Window, Unreported, Goto, ctrl
<1>2. /\ hw_ptr \in Ptr /\ hwptr \in Ptr /\ hwptr' \in Ptr
      /\ sub_swptr[s] \in Ptr /\ sub_hwptr[s] \in Ptr
  BY <1>1, MaskSum DEF TypeOK
<1>3. Dist(hw_ptr, hwptr) = Dist(swptr', hwptr) - Dist(swptr', hw_ptr)
  BY <1>2, DistBetween
<1>4. /\ Dist(swptr', hwptr) \in Nat /\ Dist(swptr', hw_ptr) \in Nat
      /\ Dist(swptr', hwptr') \in Nat /\ n \in Nat /\ asked \in Nat
  BY <1>2, DistNat
<1>5. n <= Dist(swptr', hwptr)
  BY <1>1, <1>3, <1>4
<1>6. Dist(swptr', hwptr') = Dist(swptr', hwptr) - n
  BY <1>1, <1>2, <1>5, DistAdvance
<1>7. Dist(swptr', hw_ptr) <= Dist(swptr', hwptr')
  BY <1>1, <1>3, <1>4, <1>6
<1>8. FreeSlots = Size - 1 - Dist(swptr', hwptr') /\ FreeSlots \in Ptr
  <2>1. Dist(swptr', hwptr') \in Ptr
    BY <1>2, DistValue
  <2> QED
    BY <1>2, <2>1, FreeValue, SizeAssumption DEF FreeSlots, Ptr
<1>9. len \in Ptr /\ len <= FreeSlots /\ len \in Nat
  <2>1. asked \in Ptr
    BY <1>2, DistValue
  <2> QED
    BY <1>8, <2>1, SizeAssumption DEF Ptr
<1> HIDE DEF len
<1>10. Dist(Mask(swptr' + len), swptr') = len
  <2>1. Dist(swptr', swptr') + len < Size
    BY <1>9, DistSelf, SizeAssumption DEF Ptr
  <2> QED
    BY <1>9, <2>1, DistAdvance, DistSelf
<1>11. Dist(Mask(swptr' + len), swptr') + Dist(swptr', hwptr') < Size
  BY <1>4, <1>8, <1>9, <1>10, SizeAssumption
<1>12. ASSUME len = 0
       PROVE  Mask(swptr' + len) = swptr'
  BY <1>12, MaskZero
<1>13. ASSUME len # 0
       PROVE  Mask(swptr' + len) # swptr'
  BY <1>10, <1>13, DistSelf
<1>14. s \notin {NoSub}
  BY SubAssumption
<1>15. ASSUME NEW t \in list_subscriptions
       PROVE  /\ pc'[t] = "idle" =>
                   IF t = locked_sub'
                   THEN /\ sub_hwptr'[t] = swptr' /\ sub_swptr'[t] # swptr'
                        /\ Dist(sub_swptr'[t], swptr') + Dist(swptr', hwptr') < Size
                   ELSE sub_hwptr'[t] = sub_swptr'[t]
              /\ ~(pc'[t] = "sync" /\ t = locked_sub')
  <2>1. CASE t = s
    <3>1. pc'[t] = "idle" /\ sub_hwptr'[t] = swptr' /\ sub_swptr'[t] = Mask(swptr' + len)
      BY <1>1, <2>1 DEF TypeOK
    <3> QED
      BY <1>1, <1>11, <1>12, <1>13, <1>14, <2>1, <3>1
  <2>2. CASE t # s
    <3>1. /\ pc'[t] = pc[t] /\ sub_hwptr'[t] = sub_hwptr[t] /\ sub_swptr'[t] = sub_swptr[t]
          /\ t # locked_sub /\ t # locked_sub'
      BY <1>1, <2>2, SubAssumption DEF TypeOK
    <3> QED
      BY <3>1 DEF TxInv
  <2> QED
    BY <2>1, <2>2
<1> QED
  BY <1>1, <1>7, <1>15 DEF TxInv, Pending, Assumed

\* The holder publishes at most its window.
LEMMA TxHolderInv ==
  ASSUME TypeOK, ControlInv, TxInv, NEW s \in Sub, NEW n \in Ptr, TxSyncHolder(s, n)
  PROVE  TxInv' /\ Dist(swptr', hw_ptr) >= Dist(swptr, hw_ptr)
<1>1. /\ Type = "TX" /\ pc[s] = "sync" /\ locked_sub = s /\ swptr' = sub_hwptr[s]
      /\ Window(s, n) /\ s \in list_subscriptions
  BY DEF TxSyncHolder, ControlInv, Lifecycle
<1>2. hw_ptr \in Ptr /\ hwptr \in Ptr /\ swptr \in Ptr /\ swptr' \in Ptr
  BY <1>1 DEF TypeOK
<1>3. /\ Dist(swptr', swptr) + Dist(swptr, hwptr) < Size
      /\ Dist(swptr, hw_ptr) <= Dist(swptr, hwptr)
  BY <1>1 DEF TxInv, Pending, Assumed
<1>4. /\ Dist(swptr', swptr) \in Nat /\ Dist(swptr, hwptr) \in Nat
      /\ Dist(swptr, hw_ptr) \in Nat
  BY <1>2, DistNat
<1>5. Dist(swptr', hwptr) = Dist(swptr', swptr) + Dist(swptr, hwptr)
  BY <1>2, <1>3, DistJoin
<1>6. Dist(swptr', hw_ptr) = Dist(swptr', swptr) + Dist(swptr, hw_ptr)
  <2>1. Dist(swptr', swptr) + Dist(swptr, hw_ptr) < Size
    BY <1>3, <1>4, SizeAssumption
  <2> QED
    BY <1>2, <2>1, DistJoin
<1>7. Dist(swptr', hw_ptr) <= Dist(swptr', hwptr)
  BY <1>3, <1>4, <1>5, <1>6
<1>8. TxInv'
  BY <1>1, <1>2, <1>7, WindowInv
<1> QED
  BY <1>4, <1>6, <1>8

\* A sync without a lock holder may take the lock and publishes nothing.
LEMMA TxFreeInv ==
  ASSUME TypeOK, TxInv, NEW s \in Sub, NEW n \in Ptr, TxSyncFree(s, n)
  PROVE  TxInv'
<1>1. /\ Type = "TX" /\ locked_sub = NoSub /\ swptr' = swptr /\ Window(s, n)
  BY DEF TxSyncFree
<1>2. swptr' \in Ptr /\ Dist(swptr', hw_ptr) <= Dist(swptr', hwptr)
  BY <1>1 DEF TypeOK, TxInv, Pending, Assumed
<1> QED
  BY <1>1, <1>2, WindowInv

\* A request moves the publish position of the holder inside its window; one
\* without a window publishes nothing.
LEMMA TxRequestInv ==
  ASSUME TypeOK, TxInv, NEW s \in Sub, NEW put \in Ptr, NEW want \in Ptr,
         TxRequest(s, put, want)
  PROVE  TxInv'
<1>1. /\ UNCHANGED <<hw_ptr, hwptr, swptr, list_subscriptions, locked_sub>>
      /\ sub_hwptr' = [sub_hwptr EXCEPT ![s] = Mask(sub_hwptr[s] + put)]
      /\ pc' = [pc EXCEPT ![s] = "sync"] /\ pc[s] = "idle" /\ Type = "TX"
      /\ put <= Dist(sub_swptr[s], sub_hwptr[s])
      /\ \A t \in Sub : t # s => sub_swptr'[t] = sub_swptr[t]
  BY DEF TxRequest, Goto, locks, ctrl, TypeOK
<1>2. \A t \in Sub : t # s => sub_hwptr'[t] = sub_hwptr[t] /\ pc'[t] = pc[t]
  BY <1>1 DEF TypeOK
<1>3. ASSUME s \in list_subscriptions, s = locked_sub
      PROVE  Dist(sub_hwptr'[s], swptr) + Assumed < Size
  <2>1. /\ sub_hwptr[s] = swptr /\ Dist(sub_swptr[s], swptr) + Assumed < Size
    BY <1>1, <1>3 DEF TxInv
  <2>2. swptr \in Ptr /\ hwptr \in Ptr /\ sub_swptr[s] \in Ptr
    BY DEF TypeOK
  <2>3. /\ Dist(sub_swptr[s], swptr) \in Nat /\ Assumed \in Nat
        /\ put \in Nat /\ put < Size
    BY <2>2, DistNat, SizeAssumption DEF Assumed, Ptr
  <2>4. sub_hwptr'[s] = Mask(swptr + put)
    BY <1>1, <2>1 DEF TypeOK
  <2>5. Dist(swptr, swptr) = 0
    BY <2>2, DistSelf
  <2>6. Dist(sub_hwptr'[s], swptr) = put
    BY <2>2, <2>3, <2>4, <2>5, DistAdvance
  <2> QED
    BY <1>1, <2>1, <2>3, <2>6, SizeAssumption
<1>4. pc'[s] = "sync"
  BY <1>1 DEF TypeOK
<1> QED
  BY <1>1, <1>2, <1>3, <1>4 DEF TxInv, Pending, Assumed, TypeOK

\* A sync while another subscription holds the lock gets no window.
LEMMA TxOtherInv ==
  ASSUME TypeOK, TxInv, NEW s \in Sub, TxSyncOther(s)
  PROVE  TxInv'
<1>1. /\ UNCHANGED <<hw_ptr, hwptr, swptr, list_subscriptions, locked_sub>>
      /\ locked_sub # s
      /\ sub_hwptr'[s] = swptr /\ sub_swptr'[s] = swptr /\ pc'[s] = "idle"
      /\ \A t \in Sub : t # s => /\ sub_hwptr'[t] = sub_hwptr[t]
                                  /\ sub_swptr'[t] = sub_swptr[t] /\ pc'[t] = pc[t]
  BY DEF TxSyncOther, Goto, locks, ctrl, TypeOK
<1> QED
  BY <1>1 DEF TxInv, Pending, Assumed, TypeOK

\* Sending frees slots.
LEMMA HwSendInv ==
  ASSUME TypeOK, TxInv, HwSend
  PROVE  TxInv'
<1>1. UNCHANGED <<users, locks, ptrs>> /\ hw_ptr' = Mask(hw_ptr + 1)
      /\ Type = "TX" /\ hw_ptr # swptr
  BY DEF HwSend
<1>2. hw_ptr \in Ptr /\ hwptr \in Ptr /\ swptr \in Ptr
  BY DEF TypeOK
<1>3. Dist(swptr, hw_ptr) >= 1 /\ 1 \in Ptr
  <2>1. /\ swptr >= hw_ptr => Dist(swptr, hw_ptr) = swptr - hw_ptr
        /\ swptr < hw_ptr => Dist(swptr, hw_ptr) = swptr - hw_ptr + Size
    BY <1>2, DistValue
  <2> QED
    BY <1>1, <1>2, <2>1, SizeAssumption DEF Ptr
<1>4. Dist(swptr, hw_ptr') = Dist(swptr, hw_ptr) - 1
  BY <1>1, <1>2, <1>3, DistAdvance
<1>5. Dist(swptr, hw_ptr) \in Nat /\ Dist(swptr, hwptr) \in Nat
  BY <1>2, DistNat
<1>6. Dist(swptr, hw_ptr') <= Dist(swptr, hwptr)
  BY <1>1, <1>4, <1>5 DEF TxInv, Pending, Assumed
<1> QED
  BY Zenon, <1>1, <1>6 DEF TxInv, Pending, Assumed, users, locks, ptrs

\* A writer that starts has no window and is not the lock holder.
LEMMA TxStartInv ==
  ASSUME TypeOK, ControlInv, TxInv, NEW s \in Sub, StartFirst(s) \/ StartJoin(s)
  PROVE  TxInv'
<1>1. /\ list_subscriptions' = list_subscriptions \cup {s} /\ s \notin list_subscriptions
      /\ UNCHANGED <<locked_sub, pc>> /\ pc[s] = "idle"
      /\ sub_hwptr'[s] = hwptr' /\ sub_swptr'[s] = hwptr'
      /\ \A t \in Sub : t # s => sub_hwptr'[t] = sub_hwptr[t] /\ sub_swptr'[t] = sub_swptr[t]
  BY DEF StartFirst, StartJoin, Link, ControlInv, Lifecycle, TypeOK
<1>2. s # locked_sub
  BY <1>1, SubAssumption DEF ControlInv, LockHolderRuns
<1>3. CASE StartFirst(s)
  <2>1. list_subscriptions = {}
    BY <1>3, NobodyStarted DEF StartFirst, Link
  <2>2. hw_ptr' = 0 /\ hwptr' = 0 /\ swptr' = 0
    BY <1>3 DEF StartFirst
  <2>3. Dist(0, 0) = 0
    BY ZeroPtr, DistSelf
  <2> QED
    BY <1>1, <1>2, <2>1, <2>2, <2>3 DEF TxInv, Pending, Assumed
<1>4. CASE StartJoin(s)
  <2>1. UNCHANGED <<hwptr, swptr, hw_ptr>>
    BY <1>4 DEF StartJoin, ctrl
  <2> QED
    BY <1>1, <1>2, <2>1 DEF TxInv, Pending, Assumed, TypeOK
<1> QED
  BY <1>3, <1>4

\* Every step keeps the windows apart.
LEMMA TxInductive == TypeOK /\ ControlInv /\ TxInv /\ [Next]_vars => TxInv'
<1> SUFFICES ASSUME TypeOK, ControlInv, TxInv, [Next]_vars, Type = "TX"
             PROVE  TxInv'
  BY Zenon DEF TxInv
<1>1. ASSUME NEW s \in Sub, UNCHANGED <<ptrs, hw_ptr>>,
             \A t \in Sub : t # s => pc'[t] = pc[t],
             \/ s \notin list_subscriptions' \/ pc'[s] \notin {"idle", "sync"},
             list_subscriptions' \subseteq list_subscriptions,
             locked_sub' = locked_sub \/ (locked_sub = s /\ locked_sub' = NoSub)
      PROVE  TxInv'
  BY <1>1, SubAssumption DEF TxInv, Pending, Assumed, ptrs, TypeOK
<1>2. ASSUME NEW s \in Sub, NEW wait \in {"stopping", "forcing"}, StopEnter(s, wait)
      PROVE  TxInv'
  BY <1>1, <1>2 DEF StopEnter, Goto, TypeOK
<1>3. ASSUME NEW s \in Sub, Stop(s) \/ StopForce(s)
      PROVE  TxInv'
  BY <1>2, <1>3 DEF Stop, StopForce
<1>4. ASSUME NEW s \in Sub, Destroy(s)
      PROVE  TxInv'
  <2>1. CASE status[s] = "RUNNING"
    BY <1>2, <1>4, <2>1 DEF Destroy
  <2>2. CASE status[s] # "RUNNING"
    BY <1>1, <1>4, <2>2 DEF Destroy, Goto, TypeOK, locks, ctrl
  <2> QED
    BY <2>1, <2>2
<1>5. ASSUME NEW s \in Sub, StopAgain(s) \/ StopDone(s) \/ Unlink(s)
      PROVE  TxInv'
  BY <1>1, <1>5 DEF StopAgain, StopDone, Unlink, Goto, TypeOK, locks, ctrl
<1>6. ASSUME NEW s \in Sub, Unsubscribe(s)
      PROVE  TxInv'
  <2>1. s \notin list_subscriptions
    BY <1>6 DEF Unsubscribe, ControlInv, Lifecycle
  <2> QED
    BY <1>1, <1>6, <2>1 DEF Unsubscribe, Goto, TypeOK, locks, ctrl
<1>7. ASSUME UNCHANGED <<ptrs, hw_ptr, pc, list_subscriptions, locked_sub>>
      PROVE  TxInv'
  BY <1>7 DEF TxInv, Pending, Assumed, ptrs
<1>8. ASSUME NEW s \in Sub, NEW req \in Request, Subscribe(s, req)
      PROVE  TxInv'
  BY <1>7, <1>8 DEF Subscribe, locks, ctrl
<1>9. CASE HwHalt \/ UNCHANGED vars
  BY <1>7, <1>9 DEF HwHalt, vars, users, locks, ctrl
<1> QED
  BY Zenon, <1>3, <1>4, <1>5, <1>6, <1>8, <1>9, TxStartInv, TxRequestInv, TxHolderInv,
     TxFreeInv, TxOtherInv, HwSendInv DEF Next, RxRelease, RxSync, HwReceive

\* All pointers start at slot 0.
LEMMA InitTx == Init => TxInv
BY ZeroPtr, DistSelf DEF Init, TxInv, Pending, Assumed

RingInv == TypeOK /\ ControlInv /\ RxInv /\ TxInv

\* The invariants of the channel hold together.
LEMMA RingSafe == Spec => []RingInv
<1>1. Init => RingInv
  BY InitTypeOK, InitControl, InitRx, InitTx DEF RingInv
<1>2. RingInv /\ [Next]_vars => RingInv'
  BY TypeOKInductive, ControlInductive, RxInductive, TxInductive DEF RingInv
<1> QED
  BY <1>1, <1>2, PTL DEF Spec

\* Writers that share a TX channel never have overlapping windows, and no
\* window reaches into packets that were published but not sent.
THEOREM TxNoOverlap == Spec => []TxWindows
<1>1. RingInv => TxWindows
  <2> SUFFICES ASSUME RingInv, Type = "TX", NEW s \in list_subscriptions, pc[s] = "idle",
                      s = locked_sub
               PROVE  Dist(sub_swptr[s], swptr) <= Mask(hw_ptr - swptr - 1)
    BY DEF RingInv, TxInv, TxWindows
  <2>1. hw_ptr \in Ptr /\ hwptr \in Ptr /\ swptr \in Ptr /\ sub_swptr[s] \in Ptr
    BY DEF RingInv, TypeOK
  <2>2. /\ Dist(sub_swptr[s], swptr) \in Nat /\ Dist(swptr, hwptr) \in Nat
        /\ Dist(swptr, hw_ptr) \in Nat
    BY <2>1, DistNat
  <2>3. Mask(hw_ptr - swptr - 1) = Size - 1 - Dist(swptr, hw_ptr)
    BY <2>1, FreeValue
  <2>4. /\ Dist(swptr, hw_ptr) <= Dist(swptr, hwptr)
        /\ Dist(sub_swptr[s], swptr) + Dist(swptr, hwptr) < Size
    BY DEF RingInv, TxInv, Pending, Assumed
  <2> QED
    BY <2>2, <2>3, <2>4, SizeAssumption
<1> QED
  BY <1>1, RingSafe, PTL

ForwardStep ==
  \/ start_count = 0
  \/ Type = "RX" /\ Dist(hw_ptr, swptr') <= Dist(hw_ptr, swptr)
  \/ Type = "TX" /\ Dist(swptr', hw_ptr) >= Dist(swptr, hw_ptr)
  \/ hw_ptr' # hw_ptr

\* set_swptr only ever hands slots over: to an RX controller for reception, to
\* a TX controller for transmission.
THEOREM SwptrMonotone == Spec => SwptrForward
<1>1. RingInv /\ [Next]_vars => [ForwardStep]_vars
  <2> SUFFICES ASSUME RingInv, Next
               PROVE  ForwardStep
    OBVIOUS
  <2>1. ASSUME swptr' = swptr
        PROVE  ForwardStep
    <3>1. Dist(hw_ptr, swptr) \in Nat /\ Dist(swptr, hw_ptr) \in Nat
      BY DistNat DEF RingInv, TypeOK
    <3> QED
      BY <2>1, <3>1, TypeAssumption DEF ForwardStep
  <2>2. ASSUME NEW s \in Sub, NEW n \in Ptr, RxSync(s, n)
        PROVE  ForwardStep
    BY Zenon, <2>2, RxSyncInv DEF RingInv, ForwardStep, RxSync
  <2>3. ASSUME NEW s \in Sub, NEW n \in Ptr, TxSyncHolder(s, n)
        PROVE  ForwardStep
    BY <2>3, TxHolderInv DEF RingInv, ForwardStep, TxSyncHolder
  <2>4. ASSUME NEW s \in Sub, StartFirst(s)
        PROVE  ForwardStep
    BY <2>4 DEF StartFirst, ForwardStep
  <2> QED
    BY Zenon, <2>1, <2>2, <2>3, <2>4
       DEF Next, Subscribe, Unsubscribe, StartJoin, Stop, Destroy, StopForce, StopEnter,
           StopAgain, StopDone, Unlink, RxRelease, TxRequest, TxSyncFree, TxSyncOther,
           HwReceive, HwSend, HwHalt, ptrs
<1> QED
  BY <1>1, RingSafe, PTL DEF Spec, SwptrForward, ForwardStep
=============================================================================
