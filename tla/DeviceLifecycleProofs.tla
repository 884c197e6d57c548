----------------------- MODULE DeviceLifecycleProofs -----------------------
(***************************************************************************)
(* When startup and stop calls are serialised by the application, for any  *)
(* number of threads, devices and descriptors: the count is the number of  *)
(* users, descriptors are neither leaked nor closed twice, and callbacks   *)
(* run on an open descriptor of their own device.                          *)
(***************************************************************************)
EXTENDS DeviceLifecycle, FiniteSetTheorems, TLAPS

Opened(d) == fd[d] \in Fds /\ \A f \in Fds : owner[f] = d <=> f = fd[d]
Closed(d) == \A f \in Fds : owner[f] # d
Consistent(d) == IF ref[d] > 0 THEN Opened(d) ELSE Closed(d)

\* At most one startup/stop call is in progress.
OneCall == \A s, t \in Threads : InLifecycle(s) /\ InLifecycle(t) => s = t

\* What a device looks like between calls, and at each step of a call.
DeviceState == \A d \in Devices : Settled(d) => Consistent(d)
CallState ==
  \A t \in Threads : LET d == arg[t] IN
    /\ pc[t] \in {"st_check", "sp_check"} => Consistent(d)
    /\ pc[t] = "st_open" => ref[d] = 0 /\ Closed(d)
    /\ pc[t] \in {"st_load", "sp_test"} => Opened(d)
    /\ pc[t] = "st_store" => Opened(d) /\ tmp[t] = ref[d]
    /\ pc[t] = "sp_load" => Opened(d) /\ ref[d] > 0
    /\ pc[t] = "sp_store" => Opened(d) /\ tmp[t] = ref[d] /\ ref[d] > 0
    /\ pc[t] = "sp_close" => Opened(d) /\ ref[d] = 0

\* A thread starts what it does not use and calls back what it does.
UserState ==
  \A t \in Threads :
    /\ pc[t] \in {"st_check", "st_open", "st_load", "st_store"} =>
         arg[t] \notin using[t]
    /\ pc[t] \in {"io_lock", "io"} => arg[t] \in using[t]

\* No call counts more users than there are; without suspicion, exactly them.
CountState ==
  \A d \in Devices :
    /\ ref[d] <= Cardinality(Users(d))
    /\ d \notin suspect => ref[d] = Cardinality(Users(d))

IInv == TypeOK /\ OneCall /\ DeviceState /\ CallState /\ UserState /\ CountState

-----------------------------------------------------------------------------
(* Type correctness *)

LEMMA InitTypeOK == Init => TypeOK
  BY LifecycleAssumption DEF LifecycleAssumption, Init, TypeOK, Labels

LEMMA NextTypeOK == TypeOK /\ [Next]_vars => TypeOK'
<1> SUFFICES ASSUME TypeOK, [Next]_vars PROVE TypeOK'
  OBVIOUS
<1> USE LifecycleAssumption DEF LifecycleAssumption, TypeOK, Labels, Goto
<1>1. ASSUME NEW t \in Threads, StartupCall(t) PROVE TypeOK'
  BY <1>1 DEF StartupCall
<1>2. ASSUME NEW t \in Threads, StartupCheck(t) PROVE TypeOK'
  BY <1>2 DEF StartupCheck
<1>3. ASSUME NEW t \in Threads, StartupOpen(t) PROVE TypeOK'
  BY <1>3 DEF StartupOpen, DriverOpens
<1>4. ASSUME NEW t \in Threads, StartupOpenFails(t) PROVE TypeOK'
  BY <1>4 DEF StartupOpenFails, DriverOpenFails
<1>5. ASSUME NEW t \in Threads, StartupLoad(t) PROVE TypeOK'
  BY <1>5 DEF StartupLoad
<1>6. ASSUME NEW t \in Threads, StartupStore(t) PROVE TypeOK'
  BY <1>6 DEF StartupStore, Inc
<1>7. ASSUME NEW t \in Threads, StopCall(t) PROVE TypeOK'
  BY <1>7 DEF StopCall
<1>8. ASSUME NEW t \in Threads, StopCheck(t) PROVE TypeOK'
  BY <1>8 DEF StopCheck
<1>9. ASSUME NEW t \in Threads, StopLoad(t) PROVE TypeOK'
  BY <1>9 DEF StopLoad
<1>10. ASSUME NEW t \in Threads, StopStore(t) PROVE TypeOK'
  BY <1>10 DEF StopStore, Dec
<1>11. ASSUME NEW t \in Threads, StopTest(t) PROVE TypeOK'
  BY <1>11 DEF StopTest
<1>12. ASSUME NEW t \in Threads, StopClose(t) PROVE TypeOK'
  BY <1>12 DEF StopClose, DriverCloses
<1>13. ASSUME NEW t \in Threads, IoCall(t) PROVE TypeOK'
  BY <1>13 DEF IoCall
<1>14. ASSUME NEW t \in Threads, IoLock(t) PROVE TypeOK'
  BY <1>14 DEF IoLock
<1>15. ASSUME NEW t \in Threads, IoReturn(t) PROVE TypeOK'
  BY <1>15 DEF IoReturn
<1>16. CASE AppOpen
  BY <1>16 DEF AppOpen
<1>17. CASE AppClose
  BY <1>17 DEF AppClose
<1>18. CASE UNCHANGED vars
  BY <1>18 DEF vars
<1> QED
  BY <1>1, <1>2, <1>3, <1>4, <1>5, <1>6, <1>7, <1>8, <1>9, <1>10, <1>11, <1>12, <1>13, <1>14, <1>15, <1>16, <1>17, <1>18 DEF Next

\* Every reachable state is well typed, serialised or not: in particular ref
\* stays a uint16_t whatever the threads do.
THEOREM TypeCorrect == Spec => []TypeOK
<1>1. Init => TypeOK
  BY InitTypeOK
<1>2. TypeOK /\ [Next]_vars => TypeOK'
  BY NextTypeOK
<1> QED
  BY <1>1, <1>2, PTL DEF Spec

-----------------------------------------------------------------------------
(* Counting users *)

LEMMA UsersFinite ==
  ASSUME NEW d \in Devices
  PROVE  /\ IsFiniteSet(Users(d))
         /\ Cardinality(Users(d)) \in Nat
         /\ Cardinality(Users(d)) <= Cardinality(Threads)
<1>1. Users(d) \subseteq Threads
  BY DEF Users
<1> QED
  BY <1>1, LifecycleAssumption, FS_Subset, FS_CardinalityType
  DEF LifecycleAssumption

\* A thread that becomes a user of e adds one to e's users, and to no other's.
LEMMA UserAdded ==
  ASSUME TypeOK, NEW t \in Threads, NEW e \in Devices, e \notin using[t],
         using' = [using EXCEPT ![t] = @ \cup {e}]
  PROVE  /\ Cardinality(Users(e)') = Cardinality(Users(e)) + 1
         /\ Cardinality(Users(e)) + 1 <= Cardinality(Threads)
         /\ \A d \in Devices \ {e} : Users(d)' = Users(d)
<1>1. Users(e)' = Users(e) \cup {t}
  BY DEF Users, TypeOK
<1>2. t \notin Users(e)
  BY DEF Users
<1>3. \A d \in Devices \ {e} : Users(d)' = Users(d)
  BY DEF Users, TypeOK
<1>4. /\ Users(e)' \subseteq Threads
      /\ Cardinality(Users(e)') = Cardinality(Users(e)) + 1
  BY <1>1, <1>2, UsersFinite, FS_AddElement DEF Users
<1>5. Cardinality(Users(e)') <= Cardinality(Threads)
  BY <1>4, LifecycleAssumption, FS_Subset DEF LifecycleAssumption
<1> QED
  BY <1>3, <1>4, <1>5

\* A thread that ceases to use e takes one from e's users, and from no other's.
LEMMA UserRemoved ==
  ASSUME TypeOK, NEW t \in Threads, NEW e \in Devices,
         using' = [using EXCEPT ![t] = @ \ {e}]
  PROVE  /\ e \in using[t] => Cardinality(Users(e)') = Cardinality(Users(e)) - 1
         /\ e \notin using[t] => Users(e)' = Users(e)
         /\ \A d \in Devices \ {e} : Users(d)' = Users(d)
<1>1. Users(e)' = Users(e) \ {t}
  BY DEF Users, TypeOK
<1>2. e \in using[t] <=> t \in Users(e)
  BY DEF Users
<1>3. \A d \in Devices \ {e} : Users(d)' = Users(d)
  BY DEF Users, TypeOK
<1>4. t \in Users(e) => Cardinality(Users(e)') = Cardinality(Users(e)) - 1
  BY <1>1, UsersFinite, FS_RemoveElement
<1>5. t \notin Users(e) => Users(e)' = Users(e)
  BY <1>1
<1> QED
  BY <1>2, <1>3, <1>4, <1>5

-----------------------------------------------------------------------------
(* The inductive invariant *)

LEMMA InitIInv == Init => IInv
<1> SUFFICES ASSUME Init PROVE IInv
  OBVIOUS
<1>1. TypeOK
  BY InitTypeOK
<1>2. OneCall /\ CallState /\ UserState
  BY DEF Init, OneCall, InLifecycle, CallState, UserState
<1>3. DeviceState
  BY LifecycleAssumption
  DEF LifecycleAssumption, Init, DeviceState, Consistent, Closed
<1>4. CountState
  <2>1. \A d \in Devices : Users(d) = {}
    BY DEF Users, Init
  <2> QED
    BY <2>1, FS_EmptySet DEF CountState, Init
<1> QED
  BY <1>1, <1>2, <1>3, <1>4 DEF IInv

LEMMA NextIInv ==
  ASSUME Serialised, IInv, [Next]_vars
  PROVE  IInv'
<1> USE LifecycleAssumption
    DEF LifecycleAssumption, IInv, TypeOK, Labels, Goto, InLifecycle
<1>0. TypeOK'
  BY NextTypeOK
<1>1. ASSUME NEW t \in Threads, StartupCall(t) PROVE IInv'
  <2> USE <1>1 DEF StartupCall
  <2>1. OneCall'
    BY DEF OneCall, MayEnter
  <2>2. DeviceState'
    BY DEF OneCall, DeviceState, CallState, Settled, Consistent, Opened, Closed
  <2>3. CallState'
    BY DEF OneCall, DeviceState, CallState, Settled, Consistent, Opened, Closed, MayEnter
  <2>4. UserState'
    BY DEF OneCall, UserState, CallState
  <2>5. CountState'
    BY DEF CountState, Users, CallState, UserState
  <2> QED
    BY <1>0, <2>1, <2>2, <2>3, <2>4, <2>5
<1>2. ASSUME NEW t \in Threads, StartupCheck(t) PROVE IInv'
  <2> USE <1>2 DEF StartupCheck
  <2>1. OneCall'
    BY DEF OneCall, MayEnter
  <2>2. DeviceState'
    BY DEF OneCall, DeviceState, CallState, Settled, Consistent, Opened, Closed
  <2>3. CallState'
    BY DEF OneCall, DeviceState, CallState, Settled, Consistent, Opened, Closed, MayEnter
  <2>4. UserState'
    BY DEF OneCall, UserState, CallState
  <2>5. CountState'
    BY DEF CountState, Users, CallState, UserState
  <2> QED
    BY <1>0, <2>1, <2>2, <2>3, <2>4, <2>5
<1>3. ASSUME NEW t \in Threads, StartupOpen(t) PROVE IInv'
  <2> USE <1>3 DEF StartupOpen, DriverOpens, LowestFree
  <2>1. OneCall'
    BY DEF OneCall, MayEnter
  <2>2. DeviceState'
    BY DEF OneCall, DeviceState, CallState, Settled, Consistent, Opened, Closed
  <2>3. CallState'
    BY DEF OneCall, DeviceState, CallState, Settled, Consistent, Opened, Closed, MayEnter
  <2>4. UserState'
    BY DEF OneCall, UserState, CallState
  <2>5. CountState'
    BY DEF CountState, Users, CallState, UserState
  <2> QED
    BY <1>0, <2>1, <2>2, <2>3, <2>4, <2>5
<1>4. ASSUME NEW t \in Threads, StartupOpenFails(t) PROVE IInv'
  <2> USE <1>4 DEF StartupOpenFails, DriverOpenFails
  <2>1. OneCall'
    BY DEF OneCall, MayEnter
  <2>2. DeviceState'
    BY DEF OneCall, DeviceState, CallState, Settled, Consistent, Opened, Closed
  <2>3. CallState'
    BY DEF OneCall, DeviceState, CallState, Settled, Consistent, Opened, Closed, MayEnter
  <2>4. UserState'
    BY DEF OneCall, UserState, CallState
  <2>5. CountState'
    <3>1. arg[t] \in Devices /\ arg[t] \notin using[t]
      BY DEF UserState
    <3>2. /\ Cardinality(Users(arg[t])') = Cardinality(Users(arg[t])) + 1
          /\ \A d \in Devices \ {arg[t]} : Users(d)' = Users(d)
      BY <3>1, UserAdded
    <3> QED
      BY <3>1, <3>2, UsersFinite DEF CountState
  <2> QED
    BY <1>0, <2>1, <2>2, <2>3, <2>4, <2>5
<1>5. ASSUME NEW t \in Threads, StartupLoad(t) PROVE IInv'
  <2> USE <1>5 DEF StartupLoad
  <2>1. OneCall'
    BY DEF OneCall, MayEnter
  <2>2. DeviceState'
    BY DEF OneCall, DeviceState, CallState, Settled, Consistent, Opened, Closed
  <2>3. CallState'
    BY DEF OneCall, DeviceState, CallState, Settled, Consistent, Opened, Closed, MayEnter
  <2>4. UserState'
    BY DEF OneCall, UserState, CallState
  <2>5. CountState'
    BY DEF CountState, Users, CallState, UserState
  <2> QED
    BY <1>0, <2>1, <2>2, <2>3, <2>4, <2>5
<1>6. ASSUME NEW t \in Threads, StartupStore(t) PROVE IInv'
  <2> USE <1>6 DEF StartupStore, Inc
  <2>1. OneCall'
    BY DEF OneCall, MayEnter
  <2> DEFINE e == arg[t]
  <2>6. e \in Devices /\ e \notin using[t] /\ tmp[t] = ref[e]
    BY DEF UserState, CallState
  <2>7. /\ Cardinality(Users(e)') = Cardinality(Users(e)) + 1
        /\ Cardinality(Users(e)) + 1 <= Cardinality(Threads)
        /\ \A d \in Devices \ {e} : Users(d)' = Users(d)
    BY <2>6, UserAdded
  <2>8. Cardinality(Threads) \in Nat
    BY FS_CardinalityType
  <2>9. ref'[e] = ref[e] + 1
    BY <2>6, <2>7, <2>8, UsersFinite DEF CountState
  <2>2. DeviceState'
    BY <2>9 DEF OneCall, DeviceState, CallState, Settled, Consistent, Opened, Closed
  <2>3. CallState'
    BY DEF OneCall, DeviceState, CallState, Settled, Consistent, Opened, Closed, MayEnter
  <2>4. UserState'
    BY DEF OneCall, UserState, CallState
  <2>5. CountState'
    BY <2>6, <2>7, <2>9, UsersFinite DEF CountState
  <2> QED
    BY <1>0, <2>1, <2>2, <2>3, <2>4, <2>5
<1>7. ASSUME NEW t \in Threads, StopCall(t) PROVE IInv'
  <2> USE <1>7 DEF StopCall
  <2>1. OneCall'
    BY DEF OneCall, MayEnter
  <2>2. DeviceState'
    BY DEF OneCall, DeviceState, CallState, Settled, Consistent, Opened, Closed
  <2>3. CallState'
    BY DEF OneCall, DeviceState, CallState, Settled, Consistent, Opened, Closed, MayEnter
  <2>4. UserState'
    BY DEF OneCall, UserState, CallState
  <2>5. CountState'
    BY DEF CountState, Users, CallState, UserState
  <2> QED
    BY <1>0, <2>1, <2>2, <2>3, <2>4, <2>5
<1>8. ASSUME NEW t \in Threads, StopCheck(t) PROVE IInv'
  <2> USE <1>8 DEF StopCheck
  <2>1. OneCall'
    BY DEF OneCall, MayEnter
  <2>2. DeviceState'
    BY DEF OneCall, DeviceState, CallState, Settled, Consistent, Opened, Closed
  <2>3. CallState'
    BY DEF OneCall, DeviceState, CallState, Settled, Consistent, Opened, Closed, MayEnter
  <2>4. UserState'
    BY DEF OneCall, UserState, CallState
  <2>5. CountState'
    <3>1. CASE ref[arg[t]] > 0
      BY <3>1 DEF CountState, Users
    <3>2. CASE ref[arg[t]] = 0
      <4>1. /\ arg[t] \in using[t] =>
                 Cardinality(Users(arg[t])') = Cardinality(Users(arg[t])) - 1
            /\ arg[t] \notin using[t] => Users(arg[t])' = Users(arg[t])
            /\ \A d \in Devices \ {arg[t]} : Users(d)' = Users(d)
        BY <3>2, UserRemoved
      <4>2. arg[t] \in using[t] => Cardinality(Users(arg[t])) # 0
        <5>1. arg[t] \in using[t] => Users(arg[t]) # {}
          BY DEF Users
        <5> QED
          BY <5>1, FS_EmptySet, UsersFinite
      <4> QED
        BY <3>2, <4>1, <4>2, UsersFinite DEF CountState
    <3> QED
      BY <3>1, <3>2
  <2> QED
    BY <1>0, <2>1, <2>2, <2>3, <2>4, <2>5
<1>9. ASSUME NEW t \in Threads, StopLoad(t) PROVE IInv'
  <2> USE <1>9 DEF StopLoad
  <2>1. OneCall'
    BY DEF OneCall, MayEnter
  <2>2. DeviceState'
    BY DEF OneCall, DeviceState, CallState, Settled, Consistent, Opened, Closed
  <2>3. CallState'
    BY DEF OneCall, DeviceState, CallState, Settled, Consistent, Opened, Closed, MayEnter
  <2>4. UserState'
    BY DEF OneCall, UserState, CallState
  <2>5. CountState'
    BY DEF CountState, Users, CallState, UserState
  <2> QED
    BY <1>0, <2>1, <2>2, <2>3, <2>4, <2>5
<1>10. ASSUME NEW t \in Threads, StopStore(t) PROVE IInv'
  <2> USE <1>10 DEF StopStore, Dec
  <2>1. OneCall'
    BY DEF OneCall, MayEnter
  <2>2. DeviceState'
    BY DEF OneCall, DeviceState, CallState, Settled, Consistent, Opened, Closed
  <2>3. CallState'
    BY DEF OneCall, DeviceState, CallState, Settled, Consistent, Opened, Closed, MayEnter
  <2>4. UserState'
    BY DEF OneCall, UserState, CallState
  <2>5. CountState'
    <3>1. ref[arg[t]] > 0 /\ ref'[arg[t]] = ref[arg[t]] - 1
      BY DEF CallState
    <3>2. /\ arg[t] \in using[t] =>
               Cardinality(Users(arg[t])') = Cardinality(Users(arg[t])) - 1
          /\ arg[t] \notin using[t] => Users(arg[t])' = Users(arg[t])
          /\ \A d \in Devices \ {arg[t]} : Users(d)' = Users(d)
      BY UserRemoved
    <3> QED
      BY <3>1, <3>2, UsersFinite DEF CountState
  <2> QED
    BY <1>0, <2>1, <2>2, <2>3, <2>4, <2>5
<1>11. ASSUME NEW t \in Threads, StopTest(t) PROVE IInv'
  <2> USE <1>11 DEF StopTest, LastUser
  <2>1. OneCall'
    BY DEF OneCall, MayEnter
  <2>2. DeviceState'
    BY DEF OneCall, DeviceState, CallState, Settled, Consistent, Opened, Closed
  <2>3. CallState'
    BY DEF OneCall, DeviceState, CallState, Settled, Consistent, Opened, Closed, MayEnter
  <2>4. UserState'
    BY DEF OneCall, UserState, CallState
  <2>5. CountState'
    BY DEF CountState, Users, CallState, UserState
  <2> QED
    BY <1>0, <2>1, <2>2, <2>3, <2>4, <2>5
<1>12. ASSUME NEW t \in Threads, StopClose(t) PROVE IInv'
  <2> USE <1>12 DEF StopClose, DriverCloses
  <2>1. OneCall'
    BY DEF OneCall, MayEnter
  <2>2. DeviceState'
    BY DEF OneCall, DeviceState, CallState, Settled, Consistent, Opened, Closed
  <2>3. CallState'
    BY DEF OneCall, DeviceState, CallState, Settled, Consistent, Opened, Closed, MayEnter
  <2>4. UserState'
    BY DEF OneCall, UserState, CallState
  <2>5. CountState'
    BY DEF CountState, Users, CallState, UserState
  <2> QED
    BY <1>0, <2>1, <2>2, <2>3, <2>4, <2>5
<1>13. ASSUME NEW t \in Threads, IoCall(t) PROVE IInv'
  <2> USE <1>13 DEF IoCall
  <2>1. OneCall'
    BY DEF OneCall, MayEnter
  <2>2. DeviceState'
    BY DEF OneCall, DeviceState, CallState, Settled, Consistent, Opened, Closed
  <2>3. CallState'
    BY DEF OneCall, DeviceState, CallState, Settled, Consistent, Opened, Closed, MayEnter
  <2>4. UserState'
    BY DEF OneCall, UserState, CallState
  <2>5. CountState'
    BY DEF CountState, Users, CallState, UserState
  <2> QED
    BY <1>0, <2>1, <2>2, <2>3, <2>4, <2>5
<1>14. ASSUME NEW t \in Threads, IoLock(t) PROVE IInv'
  <2> USE <1>14 DEF IoLock, MutexFree
  <2>1. OneCall'
    BY DEF OneCall, MayEnter
  <2>2. DeviceState'
    BY DEF OneCall, DeviceState, CallState, Settled, Consistent, Opened, Closed
  <2>3. CallState'
    BY DEF OneCall, DeviceState, CallState, Settled, Consistent, Opened, Closed, MayEnter
  <2>4. UserState'
    BY DEF OneCall, UserState, CallState
  <2>5. CountState'
    BY DEF CountState, Users, CallState, UserState
  <2> QED
    BY <1>0, <2>1, <2>2, <2>3, <2>4, <2>5
<1>15. ASSUME NEW t \in Threads, IoReturn(t) PROVE IInv'
  <2> USE <1>15 DEF IoReturn
  <2>1. OneCall'
    BY DEF OneCall, MayEnter
  <2>2. DeviceState'
    BY DEF OneCall, DeviceState, CallState, Settled, Consistent, Opened, Closed
  <2>3. CallState'
    BY DEF OneCall, DeviceState, CallState, Settled, Consistent, Opened, Closed, MayEnter
  <2>4. UserState'
    BY DEF OneCall, UserState, CallState
  <2>5. CountState'
    BY DEF CountState, Users, CallState, UserState
  <2> QED
    BY <1>0, <2>1, <2>2, <2>3, <2>4, <2>5
<1>16. CASE AppOpen
  BY <1>0, <1>16 DEF AppOpen, LowestFree, OneCall, DeviceState, CallState, UserState, CountState, Users, Settled, Consistent, Opened, Closed
<1>17. CASE AppClose
  BY <1>0, <1>17 DEF AppClose, OneCall, DeviceState, CallState, UserState, CountState, Users, Settled, Consistent, Opened, Closed
<1>18. CASE UNCHANGED vars
  BY <1>0, <1>18 DEF vars, OneCall, DeviceState, CallState, UserState, CountState, Users, Settled, Consistent, Opened, Closed
<1> QED
  BY <1>1, <1>2, <1>3, <1>4, <1>5, <1>6, <1>7, <1>8, <1>9, <1>10, <1>11, <1>12, <1>13, <1>14, <1>15, <1>16, <1>17, <1>18 DEF Next
-----------------------------------------------------------------------------
(* The theorems *)

LEMMA SerialInvariant == ASSUME Serialised PROVE Spec => []IInv
<1>1. Init => IInv
  BY InitIInv
<1>2. IInv /\ [Next]_vars => IInv'
  BY NextIInv
<1> QED
  BY <1>1, <1>2, PTL DEF Spec

LEMMA IInvAccounting == IInv => FdAccounting
  BY DEF IInv, TypeOK, DeviceState, FdAccounting, Consistent, Opened, Closed, OwnFds

LEMMA IInvCount == IInv => RefCountsUsers
  BY DEF IInv, CountState, RefCountsUsers

\* A user's device is counted, so no step of a call leaves it closed.
LEMMA IInvCallback == IInv => CallbackOnOwnFd
<1> SUFFICES ASSUME IInv, NEW t \in Threads,
                    pc[t] = "io", arg[t] \notin suspect
             PROVE  Opened(arg[t])
  BY DEF CallbackOnOwnFd, Opened, OwnFds
<1> DEFINE e == arg[t]
<1>1. e \in Devices /\ ref[e] = Cardinality(Users(e))
  BY DEF IInv, TypeOK, CountState
<1>2. Users(e) # {}
  BY DEF IInv, UserState, Users
<1>3. ref[e] > 0
  BY <1>1, <1>2, FS_EmptySet, UsersFinite
<1>4. CASE Settled(e)
  BY <1>1, <1>3, <1>4 DEF IInv, DeviceState, Consistent
<1>5. CASE ~Settled(e)
  BY <1>1, <1>3, <1>5
  DEF IInv, TypeOK, Labels, CallState, Consistent, Settled, InLifecycle
<1> QED
  BY <1>4, <1>5

\* Whether or not the application serialises anything, device->mutex keeps two
\* callbacks of one device apart.
THEOREM CallbacksNeverOverlap == Spec => []CallbacksExclusive
<1> DEFINE Holds == \A t \in Threads : pc[t] = "io" => mutex[arg[t]] = t
<1>1. Init => Holds
  BY DEF Init
<1>2. TypeOK /\ Holds /\ [Next]_vars => Holds'
  <2> SUFFICES ASSUME TypeOK, Holds, [Next]_vars PROVE Holds'
    OBVIOUS
  <2>1. ASSUME NEW t \in Threads, IoLock(t) PROVE Holds'
    BY <2>1, LifecycleAssumption
    DEF LifecycleAssumption, TypeOK, IoLock, MutexFree, Goto
  <2>2. ASSUME NEW t \in Threads, IoReturn(t) PROVE Holds'
    BY <2>2 DEF TypeOK, IoReturn, Goto
  <2>3. ASSUME NEW t \in Threads,
               \/ StartupCall(t) \/ StartupCheck(t) \/ StartupOpen(t)
               \/ StartupOpenFails(t) \/ StartupLoad(t) \/ StartupStore(t)
        PROVE  Holds'
    BY <2>3 DEF TypeOK, StartupCall, StartupCheck, StartupOpen,
                StartupOpenFails, StartupLoad, StartupStore, Goto
  <2>4. ASSUME NEW t \in Threads,
               \/ StopCall(t) \/ StopCheck(t) \/ StopLoad(t) \/ StopStore(t)
               \/ StopTest(t) \/ StopClose(t) \/ IoCall(t)
        PROVE  Holds'
    BY <2>4 DEF TypeOK, StopCall, StopCheck, StopLoad, StopStore,
                StopTest, StopClose, IoCall, Goto
  <2>5. CASE AppOpen \/ AppClose \/ UNCHANGED vars
    BY <2>5 DEF AppOpen, AppClose, vars
  <2> QED
    BY <2>1, <2>2, <2>3, <2>4, <2>5 DEF Next
<1>3. TypeOK /\ Holds => CallbacksExclusive
  BY DEF CallbacksExclusive
<1> QED
  BY TypeCorrect, <1>1, <1>2, <1>3, PTL DEF Spec

\* With startup and stop calls kept apart, the count and the descriptors agree:
\* nothing is leaked and nothing is closed while counted.
THEOREM SerialFdAccounting == ASSUME Serialised PROVE Spec => []FdAccounting
  BY SerialInvariant, IInvAccounting, PTL

\* ... the count is the number of users of every device above suspicion.
THEOREM SerialRefCountsUsers == ASSUME Serialised PROVE Spec => []RefCountsUsers
  BY SerialInvariant, IInvCount, PTL

\* ... callbacks run on an open descriptor of their own device.
THEOREM SerialCallbackOnOwnFd == ASSUME Serialised PROVE Spec => []CallbackOnOwnFd
  BY SerialInvariant, IInvCallback, PTL

\* ... and stop_device closes only what its device owns.
THEOREM SerialClosesOnlyItsOwn == ASSUME Serialised PROVE Spec => ClosesOnlyItsOwn
<1>1. IInv /\ [Next]_vars =>
        [\A t \in Threads : StopClose(t) => fd[arg[t]] \in OwnFds(arg[t])]_vars
  BY DEF IInv, CallState, StopClose, Opened, OwnFds, TypeOK
<1>2. Spec => []IInv
  BY SerialInvariant
<1> QED
  BY <1>1, <1>2, PTL DEF ClosesOnlyItsOwn, Spec
=============================================================================
