--------------------------- MODULE RegistryProofs ---------------------------
(***************************************************************************)
(* Theorems about Registry, for any number of threads, objects, names,     *)
(* classes and programs.                                                   *)
(*                                                                         *)
(* At every step of the writer the pointers are related to order, the      *)
(* sequence of the listed devices: forwards they are its ring at all       *)
(* times, backwards at all times but between the two halves of __list_add  *)
(* (Ring).  A traversal behind the read lock keeps the writer out, and so  *)
(* stays on the ring and misses no device (OnRing).                        *)
(***************************************************************************)
EXTENDS Registry, SequenceTheorems, TLAPS

\* Where a thread has an object, and where it has the write lock.
Adding == {"find_lock", "find", "found", "add_lock", "add", "add_link"}
Removing == {"unreg", "del_lock", "del"}
Outside == Adding \cup {"del_clear"}
Attending == Outside \cup Removing \cup {"add_count", "init", "done"}
Writing == {"add", "add_link", "add_count", "del", "del_clear"}

\* No object is in two hands, and each is in the list when its thread has put it
\* there or not yet taken it out.
Hands ==
  /\ \A t \in Threads :
       /\ pc[t] \in Attending => dev[t] \in Devices
       /\ pc[t] \in Outside => dev[t] \notin Listed
       /\ pc[t] \in Removing => dev[t] \in Listed
       /\ pc[t] \in {"get_lock", "get", "find_lock", "find", "found"} => want[t] \in Names
       /\ pc[t] = "done" => dev[t] \in ready
       /\ table[t] # NoTable => entry[t] # 0
       /\ pc[t] = "create" => table[t] # NoTable
  /\ \A t, u \in Threads : dev[t] = dev[u] /\ dev[t] # Null => t = u

\* Who holds rwlock_dev, and which program makes which calls.
LockHeld ==
  /\ \A t \in Threads :
       /\ pc[t] \in Locked => t \in readers
       /\ pc[t] \in Writing <=> writer = t
       /\ pc[t] \in Removing \cup {"del_clear"} => program.unregister
       /\ pc[t] \in {"type", "list"} => program.unlocked
  /\ writer # NoThread => readers = {}

Ring ==
  /\ \A i, j \in 1 .. Len(order) : order[i] = order[j] => i = j
  /\ \A i \in 0 .. Len(order) : next[Node(i)] = Node(i + 1)
  /\ \A i \in 1 .. Len(order) : prev[Node(i)] = Node(i - 1)
  /\ (\A t \in Threads : pc[t] # "add_link") => prev[ListHead] = Node(Len(order))
  /\ \A t \in Threads :
       pc[t] = "add_link" =>
         prev[ListHead] = dev[t] /\ prev[dev[t]] = Node(Len(order)) /\ next[dev[t]] = ListHead

Counted ==
  /\ (\A t \in Threads : pc[t] \notin {"add_count", "del_clear"}) =>
       g_device_num = Len(order)
  /\ \A t \in Threads :
       /\ pc[t] = "add_count" => g_device_num = Len(order) - 1
       /\ pc[t] = "del_clear" => g_device_num = Len(order) + 1

\* A traversal has reached a place of the ring; a lookup has passed no match.
OnRing ==
  \A t \in Threads :
    pc[t] \in Locked =>
      \E k \in 1 .. Len(order) + 1 :
        /\ cur[t] = Node(k)
        /\ pc[t] \in Lookups =>
             \A i \in 1 .. k - 1 : <<want[t], name[order[i]]>> \notin PrefixOf

\* No program both removes devices and walks the list without the lock.
Safe == \A p \in Programs : ~(p.unregister /\ p.unlocked)

OnRingUnlocked ==
  \A t \in Threads : pc[t] \in {"type", "list"} => cur[t] \in Listed \cup {ListHead}

-----------------------------------------------------------------------------
(* Types                                                                    *)

\* A sequence without its i-th element.
LEMMA WithoutOne ==
  ASSUME NEW S, NEW s \in Seq(S), NEW i \in 1 .. Len(s)
  PROVE  /\ Without(s, i) \in Seq(S)
         /\ Len(Without(s, i)) = Len(s) - 1
         /\ \A j \in 1 .. i - 1 : Without(s, i)[j] = s[j]
         /\ \A j \in i .. Len(s) - 1 : Without(s, i)[j] = s[j + 1]
  <1> DEFINE front == SubSeq(s, 1, i - 1)
             back == SubSeq(s, i + 1, Len(s))
  <1>1. Len(s) \in Nat /\ i \in Nat  OBVIOUS
  <1>2. /\ front \in Seq(S) /\ Len(front) = i - 1
        /\ \A j \in 1 .. i - 1 : front[j] = s[j]
    <2>1. \A j \in 1 .. i - 1 : s[j] \in S  BY ElementOfSeq
    <2> QED  BY <1>1, <2>1, SubSeqProperties
  <1>3. /\ back \in Seq(S) /\ Len(back) = Len(s) - i
        /\ \A j \in 1 .. Len(s) - i : back[j] = s[i + j]
    <2>1. \A j \in i + 1 .. Len(s) : s[j] \in S  BY ElementOfSeq
    <2> QED  BY <1>1, <2>1, SubSeqProperties
  <1>4. Without(s, i) = front \o back  BY DEF Without
  <1> HIDE DEF front, back
  <1>5. /\ front \o back \in Seq(S) /\ Len(front \o back) = Len(front) + Len(back)
        /\ \A j \in 1 .. Len(front) + Len(back) :
             (front \o back)[j] = IF j <= Len(front) THEN front[j] ELSE back[j - Len(front)]
    BY <1>2, <1>3, ConcatProperties
  <1>6. ASSUME NEW j \in 1 .. i - 1  PROVE Without(s, i)[j] = s[j]
    BY <1>1, <1>2, <1>3, <1>4, <1>5
  <1>7. ASSUME NEW j \in i .. Len(s) - 1  PROVE Without(s, i)[j] = s[j + 1]
    <2>1. j \in Nat /\ ~(j <= i - 1) /\ j - (i - 1) \in 1 .. Len(s) - i /\ i + (j - (i - 1)) = j + 1
      BY <1>1
    <2>2. (front \o back)[j] = back[j - (i - 1)]  BY <1>1, <1>2, <1>3, <1>5, <2>1
    <2> QED  BY <1>3, <1>4, <2>1, <2>2
  <1> QED  BY <1>1, <1>2, <1>3, <1>4, <1>5, <1>6, <1>7

LEMMA InitTypes == Init => TypeOK
  <1> SUFFICES ASSUME Init PROVE TypeOK  OBVIOUS
  <1>1. << >> \in Seq(Devices)  BY EmptySeq
  <1> QED  BY <1>1, RegistryAssumption DEF Init, TypeOK, Nodes, Labels

LEMMA ReturnTypes ==
  ASSUME TypeOK, NEW t \in Threads, Return(t)
  PROVE  /\ pc' \in [Threads -> Labels]
         /\ dev' \in [Threads -> Devices \cup {Null}]
         /\ want' \in [Threads -> Names \cup Classes \cup {NoName}]
         /\ found' \in [Threads -> Devices \cup {Null}]
  BY DEF Return, Goto, TypeOK, Labels

LEMMA ClassTypes ==
  ASSUME TypeOK, NEW c
  PROVE  ClassesBehind(c) \subseteq Classes
  BY RegistryAssumption
  DEF ClassesBehind, ldal_device_class_get, ldal_device_class_set, TypeOK

\* An entry of a table.
LEMMA EntryTypes ==
  ASSUME NEW p \in Programs, NEW tbl \in p.tables, NEW i \in Nat \ {0}, i <= Len(tbl)
  PROVE  tbl[i].name \in Names
  <1> DEFINE Entries == [name : Names, class : Classes]
  <1>1. tbl \in Seq(Entries)  BY RegistryAssumption
  <1> HIDE DEF Entries
  <1>2. tbl[i] \in Entries  BY <1>1
  <1> QED  BY <1>2 DEF Entries

LEMMA StepTypes == TypeOK /\ Hands /\ [Next]_vars => TypeOK'
  <1> SUFFICES ASSUME TypeOK, Hands, [Next]_vars PROVE TypeOK'  OBVIOUS
  <1> USE DEF links, locks, objects, creation, local, Goto, Labels, Walks, Locked, Lookups,
              Nodes
  <1>1. ASSUME NEW t \in Threads, GetByName(t) \/ ShowDeviceList(t)  PROVE TypeOK'
    <2>1. \E l \in {"get_lock", "show_lock"} : pc' = [pc EXCEPT ![t] = l]
      BY <1>1 DEF GetByName, ShowDeviceList
    <2>2. want' = want \/ \E n \in Names : want' = [want EXCEPT ![t] = n]
      BY <1>1 DEF GetByName, ShowDeviceList
    <2>3. UNCHANGED <<program, links, locks, objects, dev, cur, found, creation>>
      BY <1>1 DEF GetByName, ShowDeviceList
    <2>4. pc' \in [Threads -> Labels]
      BY <2>1 DEF TypeOK
    <2>5. want' \in [Threads -> Names \cup Classes \cup {NoName}]
      BY <2>2 DEF TypeOK
    <2> QED  BY <2>3, <2>4, <2>5 DEF TypeOK
  <1>2. ASSUME NEW t \in Threads, GetByType(t) \/ ListDevice(t)  PROVE TypeOK'
    <2>1. cur' = [cur EXCEPT ![t] = next[ListHead]] /\ next[ListHead] \in Nodes \cup {Null}
      BY <1>2 DEF GetByType, ListDevice, TypeOK
    <2>2. \E l \in {"type", "list"} : pc' = [pc EXCEPT ![t] = l]
      BY <1>2 DEF GetByType, ListDevice
    <2>3. want' = want \/ \E c \in Classes : want' = [want EXCEPT ![t] = c]
      BY <1>2 DEF GetByType, ListDevice
    <2>4. UNCHANGED <<program, links, locks, objects, dev, found, creation>>
      BY <1>2 DEF GetByType, ListDevice
    <2>5. pc' \in [Threads -> Labels]
      BY <2>2 DEF TypeOK
    <2>6. want' \in [Threads -> Names \cup Classes \cup {NoName}]
      BY <2>3 DEF TypeOK
    <2>7. cur' \in [Threads -> Nodes \cup {Null}]
      BY <2>1 DEF TypeOK
    <2> QED  BY <2>4, <2>5, <2>6, <2>7 DEF TypeOK
  <1>3. ASSUME NEW t \in Threads, BeginLocked(t)  PROVE TypeOK'
    BY <1>3 DEF BeginLocked, Behind, TypeOK
  <1>4. ASSUME NEW t \in Threads, Advance(t)  PROVE TypeOK'
    BY <1>4 DEF Advance, AtEnd, TypeOK
  <1>5. ASSUME NEW t \in Threads, Finish(t)  PROVE TypeOK'
    <2>1. CASE pc[t] = "find"
      BY <1>5, <2>1 DEF Finish, AtEnd, Result, TypeOK
    <2>2. CASE pc[t] # "find"
      BY <1>5, <2>2, ReturnTypes DEF Finish, TypeOK
    <2> QED  BY <2>1, <2>2
  <1>6. ASSUME NEW t \in Threads, RegisterCall(t)  PROVE TypeOK'
    BY <1>6 DEF RegisterCall, TypeOK
  <1>7. ASSUME NEW t \in Threads, RegisterFails(t)  PROVE TypeOK'
    BY <1>7, ReturnTypes, ClassTypes DEF RegisterFails, TypeOK
  <1>8. ASSUME NEW t \in Threads, RegisterFill(t)  PROVE TypeOK'
    <2>1. dev[t] \in Devices  BY <1>8 DEF RegisterFill, Hands, Attending, Outside, Adding
    <2>2. want[t] \in Names  BY <1>8 DEF RegisterFill, Hands
    <2> QED  BY <1>8, <2>1, <2>2, ClassTypes DEF RegisterFill, Copied, TypeOK
  <1>9. ASSUME NEW t \in Threads, WriteLock(t)  PROVE TypeOK'
    BY <1>9 DEF WriteLock, TypeOK
  <1>10. ASSUME NEW t \in Threads, AddPrepare(t)  PROVE TypeOK'
    BY <1>10 DEF AddPrepare, TypeOK
  <1>11. ASSUME NEW t \in Threads, AddLink(t)  PROVE TypeOK'
    <2>1. dev[t] \in Devices  BY <1>11 DEF AddLink, Hands, Attending, Outside, Adding
    <2>2. order' \in Seq(Devices)  BY <1>11, <2>1 DEF AddLink, TypeOK
    <2> QED  BY <1>11, <2>1, <2>2 DEF AddLink, TypeOK
  <1>12. ASSUME NEW t \in Threads, AddCount(t)  PROVE TypeOK'
    BY <1>12 DEF AddCount, TypeOK
  <1>13. ASSUME NEW t \in Threads, InitDevice(t)  PROVE TypeOK'
    <2>1. dev[t] \in Devices  BY <1>13 DEF InitDevice, Hands, Attending
    <2> QED  BY <1>13, <2>1 DEF InitDevice, TypeOK
  <1>14. ASSUME NEW t \in Threads, RegisterDone(t)  PROVE TypeOK'
    BY <1>14, ReturnTypes DEF RegisterDone, TypeOK
  <1>15. ASSUME NEW t \in Threads, UnregisterCall(t)  PROVE TypeOK'
    <2>1. Listed \subseteq Devices  BY DEF Listed, TypeOK
    <2> QED  BY <1>15, <2>1 DEF UnregisterCall, TypeOK
  <1>16. ASSUME NEW t \in Threads, UnregisterRefused(t) \/ UnregisterGoesOn(t)  PROVE TypeOK'
    BY <1>16, ReturnTypes DEF UnregisterRefused, UnregisterGoesOn, TypeOK
  <1>17. ASSUME NEW t \in Threads, DelUnlink(t)  PROVE TypeOK'
    <2>1. dev[t] \in Devices  BY <1>17 DEF DelUnlink, Hands, Attending, Outside, Removing
    <2>2. order' \in Seq(Devices)  BY <1>17, WithoutOne DEF DelUnlink, TypeOK
    <2> QED  BY <1>17, <2>1, <2>2 DEF DelUnlink, TypeOK
  <1>18. ASSUME NEW t \in Threads, DelClear(t)  PROVE TypeOK'
    <2>1. /\ next' = [next EXCEPT ![dev[t]] = Null] /\ prev' = [prev EXCEPT ![dev[t]] = Null]
          /\ g_device_num' = g_device_num - 1 /\ writer' = NoThread
      BY <1>18 DEF DelClear
    <2>3. next' \in [Nodes -> Nodes \cup {Null}]  BY <2>1 DEF TypeOK
    <2>4. prev' \in [Nodes -> Nodes \cup {Null}]  BY <2>1 DEF TypeOK
    <2>5. g_device_num' \in Int
      <3>1. g_device_num \in Int  BY DEF TypeOK
      <3> QED  BY <2>1, <3>1
    <2>2. UNCHANGED <<program, order, readers, classes, name, is_init, ready, cur, creation>>
      BY <1>18 DEF DelClear
    <2> QED  BY <1>18, <2>1, <2>2, <2>3, <2>4, <2>5, ReturnTypes DEF DelClear, TypeOK
  <1>19. ASSUME NEW t \in Threads, CreateCall(t)  PROVE TypeOK'
    BY <1>19 DEF CreateCall, TypeOK
  <1>20. ASSUME NEW t \in Threads, CreateEntry(t)  PROVE TypeOK'
    <2>1. table[t] \in program.tables /\ program \in Programs /\ entry[t] \in Nat \ {0}
          /\ entry[t] <= Len(table[t])
      BY <1>20 DEF CreateEntry, EntryLeft, Hands, TypeOK
    <2>3. table[t][entry[t]].name \in Names  BY <2>1, EntryTypes
    <2>4. /\ dev' \in [Threads -> Devices \cup {Null}]
          /\ name' \in [Devices -> Names \cup {NoName}] /\ is_init' \in [Devices -> BOOLEAN]
          /\ ready' \subseteq Devices
      BY <1>20 DEF CreateEntry, TypeOK
    <2>5. /\ want' \in [Threads -> Names \cup Classes \cup {NoName}]
          /\ entry' \in [Threads -> Nat] /\ pc' \in [Threads -> Labels]
      BY <1>20, <2>3 DEF CreateEntry, TypeOK
    <2>6. UNCHANGED <<program, links, locks, classes, cur, found, table>>
      BY <1>20 DEF CreateEntry
    <2> QED  BY <2>4, <2>5, <2>6 DEF TypeOK
  <1>21. ASSUME NEW t \in Threads, CreateFails(t) \/ CreateReturns(t)  PROVE TypeOK'
    <2>1. CreateOver(t)  BY <1>21 DEF CreateFails, CreateReturns
    <2>2. table' \in [Threads -> program.tables \cup {NoTable}]
      BY <2>1 DEF CreateOver, TypeOK
    <2>3. entry' \in [Threads -> Nat] /\ pc' \in [Threads -> Labels]
      BY <2>1 DEF CreateOver, TypeOK
    <2>4. UNCHANGED <<program, links, locks, objects, dev, want, cur, found>>
      BY <2>1 DEF CreateOver
    <2> QED  BY <2>2, <2>3, <2>4 DEF TypeOK
  <1>22. CASE UNCHANGED vars
    BY <1>22 DEF vars, TypeOK
  <1> QED
    BY <1>1, <1>2, <1>3, <1>4, <1>5, <1>6, <1>7, <1>8, <1>9, <1>10, <1>11, <1>12, <1>13,
       <1>14, <1>15, <1>16, <1>17, <1>18, <1>19, <1>20, <1>21, <1>22
    DEF Next

-----------------------------------------------------------------------------
(* What becomes of the list                                                 *)

\* The label in front of list_add_tail, and the devices behind it.
LEMMA LinkedListed ==
  ASSUME TypeOK, NEW d \in Devices, order' = Append(order, d)
  PROVE  /\ Len(order) \in Nat /\ Len(order') = Len(order) + 1
         /\ \A i \in 1 .. Len(order) : order'[i] = order[i]
         /\ order'[Len(order) + 1] = d
         /\ Listed' = Listed \cup {d}
  <1>1. order \in Seq(Devices) /\ Len(order) \in Nat  BY DEF TypeOK
  <1>2. /\ Len(order') = Len(order) + 1
        /\ \A i \in 1 .. Len(order) : order'[i] = order[i]
        /\ order'[Len(order) + 1] = d
    BY <1>1, AppendProperties
  <1>3. ASSUME NEW e  PROVE e \in Listed' <=> e \in Listed \cup {d}
    <2>1. ASSUME e \in Listed'  PROVE e \in Listed \cup {d}
      <3> PICK i \in 1 .. Len(order) + 1 : order'[i] = e  BY <2>1, <1>2 DEF Listed
      <3>1. CASE i = Len(order) + 1  BY <3>1, <1>2
      <3>2. CASE i \in 1 .. Len(order)  BY <3>2, <1>2 DEF Listed
      <3> QED  BY <3>1, <3>2, <1>1
    <2>2. ASSUME e \in Listed  PROVE e \in Listed'
      <3> PICK i \in 1 .. Len(order) : order[i] = e  BY <2>2 DEF Listed
      <3>1. i \in 1 .. Len(order') /\ order'[i] = e  BY <1>1, <1>2
      <3> QED  BY <3>1 DEF Listed
    <2>3. d \in Listed'
      <3>1. Len(order) + 1 \in 1 .. Len(order')  BY <1>1, <1>2
      <3> QED  BY <3>1, <1>2 DEF Listed
    <2> QED  BY <2>1, <2>2, <2>3
  <1> QED  BY <1>1, <1>2, <1>3

LEMMA UnlinkedListed ==
  ASSUME TypeOK, Ring, NEW k \in 1 .. Len(order), order' = Without(order, k)
  PROVE  /\ Len(order) \in Nat /\ Len(order') = Len(order) - 1
         /\ \A i \in 1 .. k - 1 : order'[i] = order[i]
         /\ \A i \in k .. Len(order) - 1 : order'[i] = order[i + 1]
         /\ Listed' = Listed \ {order[k]}
  <1>1. order \in Seq(Devices) /\ Len(order) \in Nat /\ k \in Nat /\ k <= Len(order)
    BY DEF TypeOK
  <1>2. /\ Len(order') = Len(order) - 1
        /\ \A i \in 1 .. k - 1 : order'[i] = order[i]
        /\ \A i \in k .. Len(order) - 1 : order'[i] = order[i + 1]
    BY <1>1, WithoutOne
  <1>3. \A i, j \in 1 .. Len(order) : order[i] = order[j] => i = j  BY DEF Ring
  <1>4. ASSUME NEW e  PROVE e \in Listed' <=> e \in Listed \ {order[k]}
    <2>1. ASSUME e \in Listed'  PROVE e \in Listed \ {order[k]}
      <3> PICK i \in 1 .. Len(order) - 1 : order'[i] = e  BY <2>1, <1>2 DEF Listed
      <3>1. CASE i < k
        <4>1. e = order[i] /\ i \in 1 .. Len(order) /\ i # k  BY <3>1, <1>1, <1>2
        <4> QED  BY <4>1, <1>3 DEF Listed
      <3>2. CASE i >= k
        <4>1. e = order[i + 1] /\ i + 1 \in 1 .. Len(order) /\ i + 1 # k
          BY <3>2, <1>1, <1>2
        <4> QED  BY <4>1, <1>3 DEF Listed
      <3> QED  BY <3>1, <3>2, <1>1
    <2>2. ASSUME e \in Listed, e # order[k]  PROVE e \in Listed'
      <3> PICK i \in 1 .. Len(order) : order[i] = e  BY <2>2 DEF Listed
      <3>1. i # k  BY <2>2
      <3>2. CASE i < k
        <4>1. i \in 1 .. k - 1 /\ i \in 1 .. Len(order')  BY <3>2, <1>1, <1>2
        <4> QED  BY <4>1, <1>2 DEF Listed
      <3>3. CASE i > k
        <4>1. i - 1 \in k .. Len(order) - 1 /\ i - 1 \in 1 .. Len(order') /\ (i - 1) + 1 = i
          BY <3>3, <1>1, <1>2
        <4>2. order'[i - 1] = e  BY <4>1, <1>2
        <4> QED  BY <4>1, <4>2 DEF Listed
      <3> QED  BY <3>1, <3>2, <3>3, <1>1
    <2> QED  BY <2>1, <2>2
  <1> QED  BY <1>1, <1>2, <1>4

\* Who is not at work on the list leaves it and the objects' places in it alone.
Bystander(t) ==
  \/ GetByName(t) \/ ShowDeviceList(t) \/ GetByType(t) \/ ListDevice(t)
  \/ BeginLocked(t) \/ Advance(t) \/ Finish(t)
  \/ RegisterCall(t) \/ RegisterFails(t) \/ RegisterFill(t) \/ WriteLock(t)
  \/ AddPrepare(t) \/ AddCount(t) \/ InitDevice(t) \/ RegisterDone(t)
  \/ UnregisterCall(t) \/ UnregisterRefused(t) \/ UnregisterGoesOn(t) \/ DelClear(t)
  \/ CreateCall(t) \/ CreateEntry(t) \/ CreateFails(t) \/ CreateReturns(t)

LEMMA BystanderKeepsOrder ==
  ASSUME NEW t, Bystander(t)
  PROVE  order' = order /\ program' = program
  BY DEF Bystander, links, GetByName, ShowDeviceList, GetByType, ListDevice, BeginLocked,
         Advance, Finish, RegisterCall, RegisterFails, RegisterFill, WriteLock, AddPrepare,
         AddCount, InitDevice, RegisterDone, UnregisterCall, UnregisterRefused,
         UnregisterGoesOn, DelClear, CreateCall, CreateEntry, CreateFails, CreateReturns,
         CreateOver

\* Only t's own step, object and table change.
OthersStay(t) ==
  \A u \in Threads \ {t} :
    /\ pc'[u] = pc[u] /\ dev'[u] = dev[u] /\ want'[u] = want[u] /\ cur'[u] = cur[u]
    /\ table'[u] = table[u] /\ entry'[u] = entry[u] /\ found'[u] = found[u]

LEMMA OnlyOwn ==
  ASSUME TypeOK, NEW t \in Threads, Bystander(t) \/ AddLink(t) \/ DelUnlink(t)
  PROVE  OthersStay(t)
  <1> USE DEF OthersStay, TypeOK, Goto, local, creation
  <1>1. ASSUME GetByName(t) \/ ShowDeviceList(t) \/ GetByType(t) \/ ListDevice(t)
               \/ BeginLocked(t) \/ Advance(t)
        PROVE  OthersStay(t)
    BY <1>1 DEF GetByName, ShowDeviceList, GetByType, ListDevice, BeginLocked, Advance
  <1>2. ASSUME Finish(t)
        PROVE  OthersStay(t)
    BY <1>2 DEF Finish, Return
  <1>3. ASSUME RegisterCall(t) \/ RegisterFails(t) \/ RegisterFill(t) \/ WriteLock(t)
               \/ AddPrepare(t) \/ AddCount(t) \/ InitDevice(t) \/ RegisterDone(t)
        PROVE  OthersStay(t)
    BY <1>3 DEF RegisterCall, RegisterFails, RegisterFill, WriteLock, AddPrepare, AddCount,
                InitDevice, RegisterDone, Return
  <1>4. ASSUME UnregisterCall(t) \/ UnregisterRefused(t) \/ UnregisterGoesOn(t)
               \/ DelClear(t) \/ AddLink(t) \/ DelUnlink(t)
        PROVE  OthersStay(t)
    BY <1>4 DEF UnregisterCall, UnregisterRefused, UnregisterGoesOn, DelClear, AddLink,
                DelUnlink, Return
  <1>5. ASSUME CreateCall(t) \/ CreateEntry(t) \/ CreateFails(t) \/ CreateReturns(t)
        PROVE  OthersStay(t)
    BY <1>5 DEF CreateCall, CreateEntry, CreateFails, CreateReturns, CreateOver
  <1> QED  BY <1>1, <1>2, <1>3, <1>4, <1>5 DEF Bystander

-----------------------------------------------------------------------------
(* The lock                                                                 *)

LEMMA InitLock == Init => LockHeld
  BY RegistryAssumption
  DEF Init, LockHeld, Locked, Lookups, Writing, Removing

LEMMA StepLock == TypeOK /\ LockHeld /\ [Next]_vars => LockHeld'
  <1> SUFFICES ASSUME TypeOK, LockHeld, [Next]_vars PROVE LockHeld'  OBVIOUS
  <1> USE RegistryAssumption
      DEF Goto, Locked, Lookups, Writing, Removing, locks, Return
  <1>1. ASSUME NEW t \in Threads,
               Bystander(t) \/ AddLink(t) \/ DelUnlink(t),
               pc[t] \notin Locked \cup Writing,
               pc'[t] \notin Locked \cup Writing,
               pc'[t] \in Removing => program.unregister,
               pc'[t] \in {"type", "list"} => program.unlocked,
               UNCHANGED <<locks, program>>
        PROVE  LockHeld'
    BY <1>1, OnlyOwn DEF OthersStay, LockHeld
  <1>2. ASSUME NEW t \in Threads, GetByName(t) \/ ShowDeviceList(t) \/ GetByType(t) \/ ListDevice(t)
        PROVE  LockHeld'
    <2>1. pc[t] = "idle" /\ pc'[t] \in {"get_lock", "show_lock", "type", "list"}
          /\ (pc'[t] \in {"type", "list"} => program.unlocked) /\ UNCHANGED <<locks, program>>
      BY <1>2 DEF GetByName, ShowDeviceList, GetByType, ListDevice, TypeOK
    <2> QED  BY <1>1, <1>2, <2>1 DEF Bystander
  <1>3. ASSUME NEW t \in Threads, BeginLocked(t)  PROVE LockHeld'
    <2>1. /\ writer = NoThread /\ writer' = writer /\ readers' = readers \cup {t}
          /\ program' = program
          /\ pc'[t] \in Locked /\ pc[t] \notin Writing
      BY <1>3 DEF BeginLocked, ReadersMayEnter, Behind, TypeOK
    <2> QED  BY <1>3, <2>1, OnlyOwn DEF OthersStay, Bystander, LockHeld
  <1>4. ASSUME NEW t \in Threads, Advance(t)  PROVE LockHeld'
    BY <1>4 DEF Advance, LockHeld
  <1>5. ASSUME NEW t \in Threads, Finish(t)  PROVE LockHeld'
    <2>1. /\ writer' = writer /\ readers' = readers \ {t} /\ program' = program
          /\ pc'[t] \in {"found", "idle", "create"} /\ pc[t] \notin Writing
      BY <1>5 DEF Finish, Walks, TypeOK
    <2> QED  BY <1>5, <2>1, OnlyOwn DEF OthersStay, Bystander, LockHeld
  <1>6. ASSUME NEW t \in Threads,
               RegisterCall(t) \/ RegisterFails(t) \/ RegisterFill(t) \/ InitDevice(t)
               \/ RegisterDone(t) \/ UnregisterRefused(t)
               \/ CreateCall(t) \/ CreateEntry(t) \/ CreateFails(t) \/ CreateReturns(t)
        PROVE  LockHeld'
    <2>1. /\ pc[t] \in {"idle", "found", "init", "done", "unreg", "create"}
          /\ pc'[t] \in {"find_lock", "idle", "create", "add_lock", "done"}
          /\ UNCHANGED <<locks, program>>
      BY <1>6 DEF RegisterCall, RegisterFails, RegisterFill, InitDevice, RegisterDone,
                  UnregisterRefused, CreateCall, CreateEntry, CreateFails,
                  CreateReturns, CreateOver, TypeOK
    <2> QED  BY <1>1, <1>6, <2>1 DEF Bystander
  <1>7. ASSUME NEW t \in Threads, UnregisterCall(t) \/ UnregisterGoesOn(t)  PROVE LockHeld'
    <2>1. /\ pc[t] \in {"idle", "unreg"} /\ pc'[t] \in {"unreg", "del_lock"}
          /\ program.unregister /\ UNCHANGED <<locks, program>>
      BY <1>7 DEF UnregisterCall, UnregisterGoesOn, LockHeld, TypeOK
    <2> QED  BY <1>1, <1>7, <2>1 DEF Bystander
  <1>8. ASSUME NEW t \in Threads, WriteLock(t)  PROVE LockHeld'
    <2>1. /\ writer = NoThread /\ readers = {} /\ writer' = t /\ readers' = readers
          /\ program' = program /\ pc'[t] \in {"add", "del"}
          /\ (pc'[t] = "del" => pc[t] = "del_lock")
      BY <1>8 DEF WriteLock, WriterMayEnter, TypeOK
    <2> QED  BY <1>8, <2>1, OnlyOwn DEF OthersStay, Bystander, LockHeld
  <1>9. ASSUME NEW t \in Threads, AddPrepare(t) \/ AddLink(t) \/ DelUnlink(t)  PROVE LockHeld'
    <2>1. /\ pc[t] \in Writing /\ pc'[t] \in Writing /\ UNCHANGED <<locks, program>>
          /\ (pc'[t] = "del_clear" => pc[t] = "del") /\ pc'[t] # "del"
      BY <1>9 DEF AddPrepare, AddLink, DelUnlink, TypeOK
    <2> QED  BY <1>9, <2>1, OnlyOwn DEF OthersStay, Bystander, LockHeld
  <1>10. ASSUME NEW t \in Threads, AddCount(t) \/ DelClear(t)  PROVE LockHeld'
    <2>1. /\ pc[t] \in Writing /\ pc'[t] \in {"init", "idle", "create"}
          /\ writer' = NoThread /\ readers' = readers /\ program' = program
      BY <1>10 DEF AddCount, DelClear, TypeOK, links
    <2>2. \A u \in Threads \ {t} : pc[u] \notin Writing
      BY <2>1 DEF LockHeld
    <2> QED  BY <1>10, <2>1, <2>2, OnlyOwn DEF OthersStay, Bystander, LockHeld
  <1>11. CASE UNCHANGED vars
    BY <1>11 DEF vars, LockHeld
  <1> QED
    BY <1>2, <1>3, <1>4, <1>5, <1>6, <1>7, <1>8, <1>9, <1>10, <1>11 DEF Next

-----------------------------------------------------------------------------
(* The objects                                                              *)

LEMMA InitHands == Init => Hands
  BY RegistryAssumption
  DEF Init, Hands, Attending, Outside, Adding, Removing

LEMMA StepHands == TypeOK /\ Hands /\ Ring /\ [Next]_vars => Hands'
  <1> SUFFICES ASSUME TypeOK, Hands, Ring, [Next]_vars PROVE Hands'  OBVIOUS
  <1> USE DEF Goto, Attending, Outside, Adding, Removing, locks, links, objects, local, creation, Return
  <1>a. Listed \subseteq Devices /\ Null \notin Devices
    BY RegistryAssumption DEF TypeOK, Listed
  \* What t has to show for a step that leaves the list alone.
  <1> DEFINE Mine(t) ==
        /\ pc'[t] \in Attending => dev'[t] \in Devices
        /\ pc'[t] \in Outside => dev'[t] \notin Listed
        /\ pc'[t] \in Removing => dev'[t] \in Listed
        /\ pc'[t] \in {"get_lock", "get", "find_lock", "find", "found"} => want'[t] \in Names
        /\ pc'[t] = "done" => dev'[t] \in ready'
        /\ table'[t] # NoTable => entry'[t] # 0
        /\ pc'[t] = "create" => table'[t] # NoTable
        /\ dev'[t] \in {dev[t], Null} \/ \A u \in Threads : dev[u] # dev'[t]
        /\ \A u \in Threads \ {t} : pc[u] = "done" => dev[u] \in ready'
  <1>1. ASSUME NEW t \in Threads, Bystander(t), Mine(t)  PROVE Hands'
    <2>1. order' = order /\ Listed' = Listed
      BY <1>1, BystanderKeepsOrder DEF Listed
    <2>2. \A u \in Threads \ {t} :
            /\ pc'[u] = pc[u] /\ dev'[u] = dev[u] /\ want'[u] = want[u]
            /\ table'[u] = table[u] /\ entry'[u] = entry[u]
      BY <1>1, OnlyOwn DEF OthersStay
    <2>3. \A u \in Threads :
            /\ pc'[u] \in Attending => dev'[u] \in Devices
            /\ pc'[u] \in Outside => dev'[u] \notin Listed'
            /\ pc'[u] \in Removing => dev'[u] \in Listed'
            /\ pc'[u] \in {"get_lock", "get", "find_lock", "find", "found"} => want'[u] \in Names
            /\ pc'[u] = "done" => dev'[u] \in ready'
            /\ table'[u] # NoTable => entry'[u] # 0
            /\ pc'[u] = "create" => table'[u] # NoTable
      BY <1>1, <2>1, <2>2 DEF Hands
    <2>4. \A u, v \in Threads : dev'[u] = dev'[v] /\ dev'[u] # Null => u = v
      BY <1>1, <2>2 DEF Hands
    <2> QED  BY <2>3, <2>4 DEF Hands
  <1>2. ASSUME NEW t \in Threads,
               GetByName(t) \/ ShowDeviceList(t) \/ GetByType(t) \/ ListDevice(t)
               \/ BeginLocked(t) \/ Advance(t)
        PROVE  Mine(t)
    BY <1>2 DEF GetByName, ShowDeviceList, GetByType, ListDevice, BeginLocked, Behind,
                Advance, Hands, TypeOK
  <1>3. ASSUME NEW t \in Threads, Finish(t)  PROVE Mine(t)
    <2>1. CASE pc[t] = "find"
      BY <1>3, <2>1 DEF Finish, Hands, TypeOK
    <2>2. CASE pc[t] # "find"
      BY <1>3, <2>2 DEF Finish, Hands, TypeOK
    <2> QED  BY <2>1, <2>2
  <1>4. ASSUME NEW t \in Threads, RegisterCall(t) \/ UnregisterCall(t)  PROVE Mine(t)
    BY <1>4, <1>a DEF RegisterCall, UnregisterCall, Attended, Hands, TypeOK
  <1>5. ASSUME NEW t \in Threads,
               RegisterFails(t) \/ RegisterDone(t) \/ UnregisterRefused(t) \/ DelClear(t)
        PROVE  Mine(t)
    <2>1. /\ pc' = [pc EXCEPT ![t] = IF table[t] = NoTable THEN "idle" ELSE "create"]
          /\ dev' = [dev EXCEPT ![t] = Null]
          /\ UNCHANGED <<ready, table, entry>>
      BY <1>5 DEF RegisterFails, RegisterDone, UnregisterRefused, DelClear
    <2> QED  BY <2>1 DEF Hands, TypeOK
  <1>6. ASSUME NEW t \in Threads,
               RegisterFill(t) \/ WriteLock(t) \/ AddPrepare(t) \/ AddCount(t)
               \/ UnregisterGoesOn(t)
        PROVE  Mine(t)
    BY <1>6 DEF RegisterFill, WriteLock, AddPrepare, AddCount, UnregisterGoesOn, Hands, TypeOK
  <1>7. ASSUME NEW t \in Threads, InitDevice(t)  PROVE Mine(t)
    BY <1>7 DEF InitDevice, Hands, TypeOK
  <1>8. ASSUME NEW t \in Threads, CreateCall(t)  PROVE Mine(t)
    <2>1. /\ pc'[t] = "create" /\ table'[t] # NoTable /\ entry'[t] = 1
          /\ UNCHANGED <<dev, ready>>
      BY <1>8, RegistryAssumption DEF CreateCall, TypeOK
    <2> QED  BY <2>1 DEF Hands
  <1>9. ASSUME NEW t \in Threads, CreateFails(t) \/ CreateReturns(t)  PROVE Mine(t)
    <2>1. /\ pc'[t] = "idle" /\ table'[t] = NoTable /\ UNCHANGED <<dev, ready>>
      BY <1>9 DEF CreateFails, CreateReturns, CreateOver, TypeOK
    <2> QED  BY <2>1 DEF Hands
  <1>10. ASSUME NEW t \in Threads, CreateEntry(t)  PROVE Mine(t)
    <2> PICK d \in Devices \ Listed :
          ~Attended(d) /\ dev' = [dev EXCEPT ![t] = d] /\ ready' = ready \ {d}
      BY <1>10 DEF CreateEntry
    <2>1. /\ pc'[t] = "find_lock" /\ want'[t] = table[t][entry[t]].name
          /\ table' = table /\ entry'[t] = entry[t] + 1
      BY <1>10 DEF CreateEntry, TypeOK
    <2>2. table[t] \in program.tables /\ program \in Programs /\ entry[t] \in Nat \ {0}
          /\ entry[t] <= Len(table[t])
      BY <1>10 DEF CreateEntry, EntryLeft, Hands, TypeOK
    <2>3. table[t][entry[t]].name \in Names  BY <2>2, EntryTypes
    <2> QED  BY <2>1, <2>2, <2>3, <1>a DEF Attended, Hands, TypeOK
  <1>11. ASSUME NEW t \in Threads, AddLink(t)  PROVE Hands'
    <2>1. dev[t] \in Devices /\ pc[t] = "add_link" /\ pc' = [pc EXCEPT ![t] = "add_count"]
          /\ order' = Append(order, dev[t])
      BY <1>11 DEF AddLink, Hands
    <2>2. Listed' = Listed \cup {dev[t]}  BY <2>1, LinkedListed
    <2>3. UNCHANGED <<dev, want, ready, table, entry>>  BY <1>11 DEF AddLink
    <2>4. \A u \in Threads \ {t} : dev[u] # dev[t]
      BY <2>1, <1>a DEF Hands
    <2> QED  BY <2>1, <2>2, <2>3, <2>4 DEF Hands, TypeOK
  <1>12. ASSUME NEW t \in Threads, DelUnlink(t)  PROVE Hands'
    <2> PICK k \in 1 .. Len(order) : order[k] = dev[t] /\ order' = Without(order, k)
      BY <1>12 DEF DelUnlink
    <2>1. pc[t] = "del" /\ pc' = [pc EXCEPT ![t] = "del_clear"] /\ dev[t] \in Devices
      BY <1>12 DEF DelUnlink, Hands
    <2>2. Listed' = Listed \ {dev[t]}  BY UnlinkedListed
    <2>3. UNCHANGED <<dev, want, ready, table, entry>>  BY <1>12 DEF DelUnlink
    <2>4. \A u \in Threads \ {t} : dev[u] # dev[t]
      BY <2>1, <1>a DEF Hands
    <2> QED  BY <2>1, <2>2, <2>3, <2>4 DEF Hands, TypeOK
  <1>13. CASE UNCHANGED vars
    BY <1>13 DEF vars, Hands, Listed
  <1> HIDE DEF Mine
  <1> QED
    BY <1>1, <1>2, <1>3, <1>4, <1>5, <1>6, <1>7, <1>8, <1>9, <1>10, <1>11, <1>12, <1>13
    DEF Next, Bystander

-----------------------------------------------------------------------------
(* The ring                                                                 *)

LEMMA InitRing == Init => Ring
  <1> SUFFICES ASSUME Init PROVE Ring  OBVIOUS
  <1>1. Len(order) = 0 /\ next[ListHead] = ListHead /\ prev[ListHead] = ListHead
    BY DEF Init, Nodes
  <1> QED  BY <1>1 DEF Init, Ring, Node

\* The places of the ring are different nodes, and none of another object.
LEMMA NodesDiffer ==
  ASSUME TypeOK, Ring
  PROVE  /\ Len(order) \in Nat
         /\ \A i \in Int : Node(i) \in Nodes
         /\ \A i, j \in 0 .. Len(order) : Node(i) = Node(j) => i = j
         /\ \A i \in 1 .. Len(order) : Node(i) = order[i] /\ order[i] \in Listed
         /\ \A i \in Int : i \notin 1 .. Len(order) => Node(i) = ListHead
         /\ \A d \in Devices \ Listed, i \in Int : d # Node(i)
         /\ Listed \subseteq Devices /\ ListHead \notin Devices
  <1>1. order \in Seq(Devices) /\ Len(order) \in Nat /\ ListHead \notin Devices
    BY RegistryAssumption DEF TypeOK
  <1>2. \A i \in 1 .. Len(order) : order[i] \in Devices  BY <1>1
  <1>3. \A i, j \in 1 .. Len(order) : order[i] = order[j] => i = j  BY DEF Ring
  <1> QED  BY <1>1, <1>2, <1>3 DEF Node, Nodes, Listed

\* The ring stands while its nodes keep their pointers and nobody begins or ends an
\* addition.
LEMMA RingStays ==
  ASSUME TypeOK, Ring, UNCHANGED order,
         \A i \in 0 .. Len(order) : next'[Node(i)] = next[Node(i)],
         \A i \in 0 .. Len(order) : prev'[Node(i)] = prev[Node(i)],
         \A u \in Threads : pc'[u] = "add_link" <=> pc[u] = "add_link",
         \A u \in Threads :
           pc[u] = "add_link" =>
             dev'[u] = dev[u] /\ next'[dev[u]] = next[dev[u]] /\ prev'[dev[u]] = prev[dev[u]]
  PROVE  Ring'
  <1>1. \A i \in Int : Node(i)' = Node(i)  BY DEF Node
  <1>2. Len(order) \in Nat /\ Node(0) = ListHead  BY NodesDiffer
  <1>3. \A i \in 0 .. Len(order) : next'[Node(i)] = Node(i + 1)  BY DEF Ring
  <1>4. \A i \in 1 .. Len(order) : prev'[Node(i)] = Node(i - 1)  BY <1>2 DEF Ring
  <1>5. prev'[ListHead] = prev[ListHead]  BY <1>2
  <1>6. \A i \in 0 .. Len(order) : next'[Node(i)'] = Node(i + 1)'  BY <1>1, <1>2, <1>3
  <1>7. \A i \in 1 .. Len(order) : prev'[Node(i)'] = Node(i - 1)'  BY <1>1, <1>2, <1>4
  <1>8. /\ (\A u \in Threads : pc'[u] # "add_link") => prev'[ListHead] = Node(Len(order))'
        /\ \A u \in Threads :
             pc'[u] = "add_link" =>
               /\ prev'[ListHead] = dev'[u] /\ prev'[dev'[u]] = Node(Len(order))'
               /\ next'[dev'[u]] = ListHead
    BY <1>1, <1>2, <1>5 DEF Ring
  <1>9. \A i, j \in 1 .. Len(order) : order[i] = order[j] => i = j  BY DEF Ring
  <1> QED  BY <1>6, <1>7, <1>8, <1>9 DEF Ring

\* Where a step may change pointers: RegisterFill, __list_add, __list_del and the end
\* of list_del.
Pointers(t) ==
  RegisterFill(t) \/ AddPrepare(t) \/ AddLink(t) \/ DelUnlink(t) \/ DelClear(t)

LEMMA PointersKept ==
  ASSUME TypeOK, NEW t \in Threads, Bystander(t), ~Pointers(t)
  PROVE  /\ UNCHANGED <<next, prev, order>>
         /\ \A u \in Threads : pc'[u] = "add_link" <=> pc[u] = "add_link"
         /\ \A u \in Threads : pc[u] = "add_link" => dev'[u] = dev[u]
  <1> USE DEF links, Goto, Return, TypeOK
  <1>1. ASSUME GetByName(t) \/ ShowDeviceList(t) \/ GetByType(t) \/ ListDevice(t)
               \/ BeginLocked(t) \/ Advance(t)
        PROVE  UNCHANGED <<next, prev, order>> /\ pc[t] # "add_link" /\ pc'[t] # "add_link"
    BY <1>1 DEF GetByName, ShowDeviceList, GetByType, ListDevice, BeginLocked, Behind, Advance,
                Walks, Locked, Lookups
  <1>2. ASSUME Finish(t)
        PROVE  UNCHANGED <<next, prev, order>> /\ pc[t] # "add_link" /\ pc'[t] # "add_link"
    BY <1>2 DEF Finish, Walks, Locked, Lookups
  <1>3. ASSUME RegisterCall(t) \/ RegisterFails(t) \/ WriteLock(t) \/ AddCount(t)
               \/ InitDevice(t) \/ RegisterDone(t)
        PROVE  UNCHANGED <<next, prev, order>> /\ pc[t] # "add_link" /\ pc'[t] # "add_link"
    BY <1>3 DEF RegisterCall, RegisterFails, WriteLock, AddCount, InitDevice, RegisterDone
  <1>4. ASSUME UnregisterCall(t) \/ UnregisterRefused(t) \/ UnregisterGoesOn(t)
               \/ CreateCall(t) \/ CreateEntry(t) \/ CreateFails(t) \/ CreateReturns(t)
        PROVE  UNCHANGED <<next, prev, order>> /\ pc[t] # "add_link" /\ pc'[t] # "add_link"
    BY <1>4 DEF UnregisterCall, UnregisterRefused, UnregisterGoesOn, CreateCall, CreateEntry,
                CreateFails, CreateReturns, CreateOver
  <1>5. UNCHANGED <<next, prev, order>> /\ pc[t] # "add_link" /\ pc'[t] # "add_link"
    BY <1>1, <1>2, <1>3, <1>4 DEF Bystander, Pointers
  <1> QED  BY <1>5, OnlyOwn DEF OthersStay

LEMMA StepRing == TypeOK /\ Hands /\ LockHeld /\ Ring /\ [Next]_vars => Ring'
  <1> SUFFICES ASSUME TypeOK, Hands, LockHeld, Ring, [Next]_vars PROVE Ring'  OBVIOUS
  <1> USE DEF Goto
  <1>a. /\ \A i \in 0 .. Len(order) : next[Node(i)] = Node(i + 1)
        /\ \A i \in 1 .. Len(order) : prev[Node(i)] = Node(i - 1)
    BY DEF Ring
  <1>b. /\ next \in [Nodes -> Nodes \cup {Null}] /\ prev \in [Nodes -> Nodes \cup {Null}]
        /\ Devices \subseteq Nodes /\ ListHead \in Nodes /\ pc \in [Threads -> Labels]
    BY DEF TypeOK, Nodes
  <1>c. ASSUME NEW t \in Threads, pc[t] \in Writing
        PROVE  \A u \in Threads : pc[u] \in Writing => u = t
    BY <1>c DEF LockHeld
  <1>1. ASSUME NEW t \in Threads, Bystander(t), ~Pointers(t)  PROVE Ring'
    BY <1>1, PointersKept, RingStays
  <1>2. ASSUME NEW t \in Threads, RegisterFill(t) \/ DelClear(t)  PROVE Ring'
    <2>1. dev[t] \in Devices \ Listed /\ pc[t] # "add_link" /\ pc'[t] # "add_link"
      BY <1>2, <1>b DEF RegisterFill, DelClear, Return, Hands, Attending, Outside, Adding
    <2>2. PICK n \in {dev[t], Null} :
            next' = [next EXCEPT ![dev[t]] = n] /\ prev' = [prev EXCEPT ![dev[t]] = n]
      BY <1>2 DEF RegisterFill, DelClear
    <2>3. order' = order  BY <1>2 DEF RegisterFill, DelClear
    <2>4. OthersStay(t)  BY <1>2, OnlyOwn DEF Bystander
    <2>5. \A m \in Nodes \ {dev[t]} : next'[m] = next[m] /\ prev'[m] = prev[m]
      BY <2>2, <1>b
    <2>6. \A i \in 0 .. Len(order) : Node(i) \in Nodes \ {dev[t]}
      BY <2>1, NodesDiffer
    <2>7. \A u \in Threads : pc[u] = "add_link" => u # t /\ dev[u] \in Nodes \ {dev[t]}
      <3>1. Null \notin Devices  BY RegistryAssumption
      <3> QED  BY <2>1, <3>1, <1>b DEF Hands, Attending, Outside, Adding
    <2> QED  BY <2>1, <2>3, <2>4, <2>5, <2>6, <2>7, RingStays DEF OthersStay
  <1>3. ASSUME NEW t \in Threads, AddPrepare(t)  PROVE Ring'
    <2>1. /\ pc[t] = "add" /\ dev[t] \in Devices \ Listed
          /\ \A u \in Threads : pc[u] # "add_link"
      BY <1>3, <1>c DEF AddPrepare, Hands, Attending, Outside, Adding, Writing
    <2>2. /\ prev' = [prev EXCEPT ![ListHead] = dev[t], ![dev[t]] = prev[ListHead]]
          /\ next' = [next EXCEPT ![dev[t]] = ListHead]
          /\ pc' = [pc EXCEPT ![t] = "add_link"] /\ UNCHANGED <<order, dev>>
      BY <1>3 DEF AddPrepare, local
    <2>3. prev[ListHead] = Node(Len(order))  BY <2>1 DEF Ring
    <2>4. dev[t] # ListHead /\ dev[t] \in Nodes  BY <2>1, NodesDiffer, <1>b
    <2>5. /\ prev'[ListHead] = dev[t] /\ prev'[dev[t]] = Node(Len(order))
          /\ next'[dev[t]] = ListHead
          /\ \A m \in Nodes \ {dev[t], ListHead} : prev'[m] = prev[m]
          /\ \A m \in Nodes \ {dev[t]} : next'[m] = next[m]
      BY <2>2, <2>3, <2>4, <1>b
    <2>6. \A i \in Int : Node(i)' = Node(i)  BY <2>2 DEF Node
    <2>7. \A i \in 0 .. Len(order) : next'[Node(i)] = Node(i + 1)
      BY <2>1, <2>5, <1>a, NodesDiffer
    <2>8. \A i \in 1 .. Len(order) : prev'[Node(i)] = Node(i - 1)
      <3>1. \A i \in 1 .. Len(order) : Node(i) \in Nodes \ {dev[t], ListHead}
        BY <2>1, NodesDiffer
      <3> QED  BY <2>5, <3>1, <1>a
    <2>9. \A u \in Threads : pc'[u] = "add_link" <=> u = t
      BY <2>1, <2>2, <1>b
    <2>10. Len(order) \in Nat /\ \A i, j \in 1 .. Len(order) : order[i] = order[j] => i = j
      BY NodesDiffer DEF Ring
    <2>11. \A i \in 0 .. Len(order) : next'[Node(i)'] = Node(i + 1)'
      BY <2>6, <2>7, <2>10
    <2>12. \A i \in 1 .. Len(order) : prev'[Node(i)'] = Node(i - 1)'
      BY <2>6, <2>8, <2>10
    <2>13. Node(Len(order))' = Node(Len(order))  BY <2>2 DEF Node
    <2>14. \A u \in Threads :
             pc'[u] = "add_link" =>
               /\ prev'[ListHead] = dev'[u] /\ prev'[dev'[u]] = Node(Len(order))'
               /\ next'[dev'[u]] = ListHead
      BY <2>2, <2>5, <2>9, <2>13
    <2>15. ~ \A u \in Threads : pc'[u] # "add_link"  BY <2>9
    <2> QED  BY <2>2, <2>10, <2>11, <2>12, <2>14, <2>15 DEF Ring
  <1>4. ASSUME NEW t \in Threads, AddLink(t)  PROVE Ring'
    <2>n. PICK n \in Nat : n = Len(order)  BY NodesDiffer
    <2>d. PICK d : d = dev[t]  OBVIOUS
    <2>1. /\ pc[t] = "add_link" /\ d \in Devices \ Listed /\ d # ListHead /\ d \in Nodes
          /\ \A u \in Threads \ {t} : pc[u] # "add_link"
      <3>1. pc[t] = "add_link"  BY <1>4 DEF AddLink
      <3>2. d \in Devices \ Listed
        BY <3>1, <2>d DEF Hands, Attending, Outside, Adding
      <3> QED  BY <3>1, <3>2, <1>b, <1>c, NodesDiffer DEF Writing
    <2>2. /\ prev[ListHead] = d /\ prev[d] = Node(n) /\ next[d] = ListHead
      BY <2>1, <2>n, <2>d DEF Ring
    <2>3. /\ next' = [next EXCEPT ![Node(n)] = d] /\ prev' = prev /\ dev' = dev
          /\ order' = Append(order, d) /\ pc' = [pc EXCEPT ![t] = "add_count"]
      BY <1>4, <2>2, <2>d DEF AddLink, local
    <2>4. /\ n \in Nat /\ Len(order') = n + 1 /\ order'[n + 1] = d
          /\ \A i \in 1 .. n : order'[i] = order[i]
      BY <2>1, <2>3, <2>n, LinkedListed
    <2>5. /\ \A i \in 0 .. n : Node(i)' = Node(i)
          /\ Node(n + 1)' = d /\ Node(n + 2)' = ListHead
      BY <2>4, <2>n DEF Node
    <2>6. /\ \A i \in 0 .. n : Node(i) \in Nodes /\ Node(i) # d
          /\ \A i \in 0 .. n - 1 : Node(i) # Node(n)
          /\ \A i \in 1 .. n : Node(i) # ListHead
      BY <2>1, <2>4, <2>n, NodesDiffer
    <2>7. /\ \A i \in 0 .. n - 1 : next'[Node(i)] = Node(i + 1)
          /\ next'[Node(n)] = d /\ next'[d] = ListHead
      BY <2>2, <2>3, <2>4, <2>6, <1>a, <1>b, <2>1, <2>n
    <2>8. ASSUME NEW i \in 0 .. n + 1  PROVE next'[Node(i)'] = Node(i + 1)'
      <3>1. CASE i \in 0 .. n - 1
        <4>1. i \in 0 .. n /\ i + 1 \in 0 .. n  BY <3>1, <2>4
        <4> QED  BY <3>1, <4>1, <2>5, <2>7
      <3>2. CASE i = n
        <4>1. i \in 0 .. n  BY <3>2, <2>4
        <4> QED  BY <3>2, <4>1, <2>5, <2>7
      <3>3. CASE i = n + 1
        <4>1. i + 1 = n + 2  BY <3>3, <2>4
        <4> QED  BY <3>3, <4>1, <2>5, <2>7
      <3> QED  BY <3>1, <3>2, <3>3, <2>4
    <2>9. ASSUME NEW i \in 1 .. n + 1  PROVE prev'[Node(i)'] = Node(i - 1)'
      <3>1. CASE i \in 1 .. n
        <4>1. i \in 0 .. n /\ i - 1 \in 0 .. n  BY <3>1, <2>4
        <4>2. prev[Node(i)] = Node(i - 1)  BY <3>1, <1>a, <2>n
        <4> QED  BY <4>1, <4>2, <2>3, <2>5
      <3>2. CASE i = n + 1
        <4>1. i - 1 = n /\ n \in 0 .. n  BY <3>2, <2>4
        <4> QED  BY <3>2, <4>1, <2>2, <2>3, <2>5
      <3> QED  BY <3>1, <3>2, <2>4
    <2>10. prev'[ListHead] = Node(n + 1)'  BY <2>2, <2>3, <2>5
    <2>11. \A u \in Threads : pc'[u] # "add_link"  BY <2>1, <2>3, <1>b
    <2>12. ASSUME NEW i \in 1 .. n + 1, NEW j \in 1 .. n + 1, order'[i] = order'[j]
           PROVE  i = j
      <3>1. \A k \in 1 .. n : order[k] # d
        BY <2>1, <2>n, NodesDiffer
      <3>2. \A k, l \in 1 .. n : order[k] = order[l] => k = l  BY <2>n DEF Ring
      <3> QED  BY <2>4, <2>12, <3>1, <3>2
    <2>13. /\ \A i \in 0 .. Len(order') : next'[Node(i)'] = Node(i + 1)'
           /\ \A i \in 1 .. Len(order') : prev'[Node(i)'] = Node(i - 1)'
      BY <2>4, <2>8, <2>9
    <2>14. prev'[ListHead] = Node(Len(order))'  BY <2>4, <2>10
    <2>15. \A i, j \in 1 .. Len(order') : order'[i] = order'[j] => i = j
      BY <2>4, <2>12
    <2> QED  BY <2>11, <2>13, <2>14, <2>15 DEF Ring
  <1>5. ASSUME NEW t \in Threads, DelUnlink(t)  PROVE Ring'
    <2>n. PICK n \in Nat : n = Len(order)  BY NodesDiffer
    <2>d. PICK d : d = dev[t]  OBVIOUS
    <2>k. PICK k \in 1 .. n : order[k] = d /\ order' = Without(order, k)
      BY <1>5, <2>n, <2>d DEF DelUnlink
    <2>1. /\ pc[t] = "del" /\ \A u \in Threads : pc[u] # "add_link"
      BY <1>5, <1>c DEF DelUnlink, Writing
    <2>2. /\ \A i \in 0 .. n : next[Node(i)] = Node(i + 1)
          /\ \A i \in 1 .. n + 1 : prev[Node(i)] = Node(i - 1)
      <3>1. Node(n + 1) = ListHead /\ prev[ListHead] = Node(n)
        BY <2>1, <2>n DEF Ring, Node
      <3>2. (n + 1) - 1 = n /\ \A i \in 1 .. n + 1 : i \in 1 .. n \/ i = n + 1  OBVIOUS
      <3> QED  BY <3>1, <3>2, <1>a, <2>n
    <2>3. /\ \A i, j \in 0 .. n : Node(i) = Node(j) => i = j
          /\ \A i, j \in 1 .. n + 1 : Node(i) = Node(j) => i = j
          /\ \A i \in 0 .. n + 1 : Node(i) \in Nodes
      <3>1. Node(n + 1) = Node(0)  BY <2>n DEF Node
      <3>2. \A i, j \in 0 .. n : Node(i) = Node(j) => i = j  BY <2>n, NodesDiffer
      <3>3. \A i \in 1 .. n : Node(i) # Node(n + 1)  BY <3>1, <3>2
      <3> QED  BY <3>2, <3>3, NodesDiffer
    <2>4. d = Node(k) /\ prev[d] = Node(k - 1) /\ next[d] = Node(k + 1)
      <3>1. d = Node(k)  BY <2>k, <2>n DEF Node
      <3> QED  BY <3>1, <2>2, <2>k
    <2>5. /\ next' = [next EXCEPT ![Node(k - 1)] = Node(k + 1)]
          /\ prev' = [prev EXCEPT ![Node(k + 1)] = Node(k - 1)]
          /\ pc' = [pc EXCEPT ![t] = "del_clear"]
      BY <1>5, <2>d, <2>4 DEF DelUnlink
    <2>6. /\ Len(order') = n - 1
          /\ \A i \in 1 .. k - 1 : order'[i] = order[i]
          /\ \A i \in k .. n - 1 : order'[i] = order[i + 1]
      BY <2>k, <2>n, UnlinkedListed
    <2>7. /\ \A i \in 0 .. k - 1 : Node(i)' = Node(i)
          /\ \A i \in k .. n : Node(i)' = Node(i + 1)
      BY <2>6, <2>n DEF Node
    <2>8. /\ next'[Node(k - 1)] = Node(k + 1)
          /\ \A i \in 0 .. n : i # k - 1 => next'[Node(i)] = Node(i + 1)
      BY <2>2, <2>3, <2>5, <1>b
    <2>9. /\ prev'[Node(k + 1)] = Node(k - 1)
          /\ \A i \in 1 .. n + 1 : i # k + 1 => prev'[Node(i)] = Node(i - 1)
      BY <2>2, <2>3, <2>5, <1>b
    <2>10. ASSUME NEW i \in 0 .. n - 1  PROVE next'[Node(i)'] = Node(i + 1)'
      <3>1. CASE i < k - 1
        <4>1. i \in 0 .. k - 1 /\ i + 1 \in 0 .. k - 1 /\ i \in 0 .. n /\ i # k - 1  BY <3>1
        <4> QED  BY <4>1, <2>7, <2>8
      <3>2. CASE i = k - 1
        <4>1. i \in 0 .. k - 1 /\ i + 1 = k /\ k \in k .. n  BY <3>2
        <4> QED  BY <3>2, <4>1, <2>7, <2>8
      <3>3. CASE i >= k
        <4>1. i \in k .. n /\ i + 1 \in k .. n /\ i + 1 \in 0 .. n /\ i + 1 # k - 1  BY <3>3
        <4> QED  BY <4>1, <2>7, <2>8
      <3> QED  BY <3>1, <3>2, <3>3
    <2>11. ASSUME NEW i \in 1 .. n  PROVE prev'[Node(i)'] = Node(i - 1)'
      <3>1. CASE i < k
        <4>1. i \in 0 .. k - 1 /\ i - 1 \in 0 .. k - 1 /\ i \in 1 .. n + 1 /\ i # k + 1  BY <3>1
        <4> QED  BY <4>1, <2>7, <2>9
      <3>2. CASE i = k
        <4>1. i \in k .. n /\ i - 1 \in 0 .. k - 1 /\ i - 1 = k - 1  BY <3>2
        <4> QED  BY <3>2, <4>1, <2>7, <2>9
      <3>3. CASE i > k
        <4>1. /\ i \in k .. n /\ i - 1 \in k .. n /\ i + 1 \in 1 .. n + 1 /\ i + 1 # k + 1
              /\ (i + 1) - 1 = (i - 1) + 1
          BY <3>3
        <4> QED  BY <4>1, <2>7, <2>9
      <3> QED  BY <3>1, <3>2, <3>3
    <2>12. prev'[ListHead] = Node(n - 1)'
      <3>1. Node(n)' = ListHead  BY <2>6 DEF Node
      <3> QED  BY <3>1, <2>11
    <2>13. \A i, j \in 1 .. n - 1 : order'[i] = order'[j] => i = j
      <3>1. \A i, j \in 1 .. n : order[i] = order[j] => i = j  BY <2>n DEF Ring
      <3> QED  BY <2>6, <3>1
    <2>14. /\ \A i \in 0 .. Len(order') : next'[Node(i)'] = Node(i + 1)'
           /\ \A i \in 1 .. Len(order') : prev'[Node(i)'] = Node(i - 1)'
           /\ \A i, j \in 1 .. Len(order') : order'[i] = order'[j] => i = j
      BY <2>6, <2>10, <2>11, <2>13
    <2>15. prev'[ListHead] = Node(Len(order))'  BY <2>6, <2>12
    <2>16. \A u \in Threads : pc'[u] # "add_link"  BY <2>1, <2>5, <1>b
    <2> QED  BY <2>14, <2>15, <2>16 DEF Ring
  <1>6. CASE UNCHANGED vars
    BY <1>6, RingStays DEF vars, links, local
  <1> QED
    BY <1>1, <1>2, <1>3, <1>4, <1>5, <1>6 DEF Next, Bystander, Pointers

LEMMA InitCounted == Init => Counted
  BY DEF Init, Counted

LEMMA StepCounted == TypeOK /\ Hands /\ LockHeld /\ Ring /\ Counted /\ [Next]_vars => Counted'
  <1> SUFFICES ASSUME TypeOK, Hands, LockHeld, Ring, Counted, [Next]_vars PROVE Counted'
    OBVIOUS
  <1> USE DEF Goto
  <1>b. pc \in [Threads -> Labels] /\ g_device_num \in Int /\ Len(order) \in Nat
    BY NodesDiffer DEF TypeOK
  <1>c. ASSUME NEW t \in Threads, pc[t] \in Writing
        PROVE  \A u \in Threads : pc[u] \in Writing => u = t
    BY <1>c DEF LockHeld
  <1>1. ASSUME NEW t \in Threads, Bystander(t), ~AddCount(t), ~DelClear(t)
        PROVE  Counted'
    <2>1. UNCHANGED <<g_device_num, order>>
          /\ pc[t] \notin {"add_count", "del_clear"} /\ pc'[t] \notin {"add_count", "del_clear"}
      <3> USE DEF links, Return
      <3>1. ASSUME GetByName(t) \/ ShowDeviceList(t) \/ GetByType(t) \/ ListDevice(t)
                   \/ BeginLocked(t) \/ Advance(t) \/ Finish(t)
            PROVE  UNCHANGED <<g_device_num, order>>
                   /\ pc[t] \notin {"add_count", "del_clear"}
                   /\ pc'[t] \notin {"add_count", "del_clear"}
        BY <3>1, <1>b DEF GetByName, ShowDeviceList, GetByType, ListDevice, BeginLocked,
                          Behind, Advance, Finish, Walks, Locked, Lookups
      <3>2. ASSUME RegisterCall(t) \/ RegisterFails(t) \/ RegisterFill(t) \/ WriteLock(t)
                   \/ AddPrepare(t) \/ InitDevice(t) \/ RegisterDone(t)
            PROVE  UNCHANGED <<g_device_num, order>>
                   /\ pc[t] \notin {"add_count", "del_clear"}
                   /\ pc'[t] \notin {"add_count", "del_clear"}
        BY <3>2, <1>b DEF RegisterCall, RegisterFails, RegisterFill, WriteLock, AddPrepare,
                          InitDevice, RegisterDone
      <3>3. ASSUME UnregisterCall(t) \/ UnregisterRefused(t) \/ UnregisterGoesOn(t)
                   \/ CreateCall(t) \/ CreateEntry(t) \/ CreateFails(t) \/ CreateReturns(t)
            PROVE  UNCHANGED <<g_device_num, order>>
                   /\ pc[t] \notin {"add_count", "del_clear"}
                   /\ pc'[t] \notin {"add_count", "del_clear"}
        BY <3>3, <1>b DEF UnregisterCall, UnregisterRefused, UnregisterGoesOn, CreateCall,
                          CreateEntry, CreateFails, CreateReturns, CreateOver
      <3> QED  BY <1>1, <3>1, <3>2, <3>3 DEF Bystander
    <2>2. \A u \in Threads : pc'[u] \in {"add_count", "del_clear"} \/ pc[u] \in {"add_count", "del_clear"}
                             => pc'[u] = pc[u]
      BY <1>1, <2>1, OnlyOwn DEF OthersStay
    <2> QED  BY <2>1, <2>2 DEF Counted
  <1>2. ASSUME NEW t \in Threads, AddLink(t)  PROVE Counted'
    <2>1. /\ pc[t] = "add_link" /\ pc' = [pc EXCEPT ![t] = "add_count"]
          /\ g_device_num' = g_device_num /\ order' = Append(order, dev[t]) /\ dev[t] \in Devices
      BY <1>2 DEF AddLink, Hands, Attending, Outside, Adding
    <2>2. \A u \in Threads : pc[u] \notin {"add_count", "del_clear"}
      BY <2>1, <1>c DEF Writing
    <2>3. g_device_num = Len(order) /\ Len(order') = Len(order) + 1
      BY <2>1, <2>2, LinkedListed DEF Counted
    <2> QED  BY <2>1, <2>2, <2>3, <1>b DEF Counted
  <1>3. ASSUME NEW t \in Threads, DelUnlink(t)  PROVE Counted'
    <2>1. /\ pc[t] = "del" /\ pc' = [pc EXCEPT ![t] = "del_clear"]
          /\ g_device_num' = g_device_num
          /\ \E k \in 1 .. Len(order) : order' = Without(order, k)
      BY <1>3 DEF DelUnlink
    <2>2. \A u \in Threads : pc[u] \notin {"add_count", "del_clear"}
      BY <2>1, <1>c DEF Writing
    <2>3. g_device_num = Len(order) /\ Len(order') = Len(order) - 1
      BY <2>1, <2>2, UnlinkedListed DEF Counted
    <2> QED  BY <2>1, <2>2, <2>3, <1>b DEF Counted
  <1>4. ASSUME NEW t \in Threads, AddCount(t) \/ DelClear(t)  PROVE Counted'
    <2>1. /\ pc[t] \in {"add_count", "del_clear"} /\ pc'[t] \notin {"add_count", "del_clear"}
          /\ order' = order
          /\ g_device_num' = IF pc[t] = "add_count" THEN g_device_num + 1 ELSE g_device_num - 1
      BY <1>4, <1>b DEF AddCount, DelClear, Return
    <2>2. \A u \in Threads \ {t} : pc[u] \notin {"add_count", "del_clear"}
      BY <2>1, <1>c DEF Writing
    <2>3. \A u \in Threads : pc'[u] \notin {"add_count", "del_clear"}
      BY <1>4, <2>1, <2>2, OnlyOwn DEF OthersStay, Bystander
    <2> QED  BY <2>1, <2>3, <1>b DEF Counted
  <1>5. CASE UNCHANGED vars
    BY <1>5 DEF vars, links, Counted
  <1> QED
    BY <1>1, <1>2, <1>3, <1>4, <1>5 DEF Next, Bystander

-----------------------------------------------------------------------------
(* The traversals                                                           *)

LEMMA InitOnRing == Init => OnRing /\ OnRingUnlocked
  BY DEF Init, OnRing, OnRingUnlocked, Locked, Lookups

\* The names of the listed devices do not change.
LEMMA NamesKept ==
  ASSUME TypeOK, Hands, NEW t \in Threads, Bystander(t)
  PROVE  \A d \in Listed : name'[d] = name[d]
  <1>a. Listed \subseteq Devices /\ name \in [Devices -> Names \cup {NoName}]
    BY DEF TypeOK, Listed
  <1>1. CASE RegisterFill(t)
    <2>1. name' = [name EXCEPT ![dev[t]] = Copied(@, want[t])] /\ dev[t] \notin Listed
      BY <1>1 DEF RegisterFill, Hands, Outside, Adding
    <2> QED  BY <2>1, <1>a
  <1>2. CASE CreateEntry(t)
    <2>1. \E d \in Devices \ Listed : name' = [name EXCEPT ![d] = NoName]
      BY <1>2 DEF CreateEntry
    <2> QED  BY <2>1, <1>a
  <1>3. CASE ~RegisterFill(t) /\ ~CreateEntry(t)
    <2>1. name' = name
      BY <1>3
      DEF Bystander, objects, GetByName, ShowDeviceList, GetByType, ListDevice, BeginLocked,
          Advance, Finish, RegisterCall, RegisterFails, WriteLock, AddPrepare, AddCount,
          InitDevice, RegisterDone, UnregisterCall, UnregisterRefused, UnregisterGoesOn,
          DelClear, CreateCall, CreateFails, CreateReturns, CreateOver
    <2> QED  BY <2>1
  <1> QED  BY <1>1, <1>2, <1>3

\* Nor does that of an object a thread is about to add, unless by its own doing.
LEMMA HeldNameKept ==
  ASSUME TypeOK, Hands, NEW v \in Threads, NEW t \in Threads \ {v}, Bystander(t),
         pc[v] \in Adding
  PROVE  name'[dev[v]] = name[dev[v]]
  <1>a. dev[v] \in Devices /\ name \in [Devices -> Names \cup {NoName}] /\ Null \notin Devices
    BY RegistryAssumption DEF TypeOK, Hands, Attending, Outside
  <1>b. dev[t] # dev[v]  BY <1>a DEF Hands
  <1>1. CASE RegisterFill(t)  BY <1>1, <1>a, <1>b DEF RegisterFill
  <1>2. CASE CreateEntry(t)
    <2>1. \E d \in Devices : ~Attended(d) /\ name' = [name EXCEPT ![d] = NoName]
      BY <1>2 DEF CreateEntry
    <2> QED  BY <2>1, <1>a DEF Attended
  <1>3. CASE ~RegisterFill(t) /\ ~CreateEntry(t)
    <2>1. name' = name
      BY <1>3
      DEF Bystander, objects, GetByName, ShowDeviceList, GetByType, ListDevice, BeginLocked,
          Advance, Finish, RegisterCall, RegisterFails, WriteLock, AddPrepare, AddCount,
          InitDevice, RegisterDone, UnregisterCall, UnregisterRefused, UnregisterGoesOn,
          DelClear, CreateCall, CreateFails, CreateReturns, CreateOver
    <2> QED  BY <2>1
  <1> QED  BY <1>1, <1>2, <1>3

LEMMA StepOnRing ==
  TypeOK /\ Hands /\ LockHeld /\ Ring /\ OnRing /\ [Next]_vars => OnRing'
  <1> SUFFICES ASSUME TypeOK, Hands, LockHeld, Ring, OnRing, [Next]_vars PROVE OnRing'
    OBVIOUS
  <1> USE DEF Goto
  <1>b. /\ pc \in [Threads -> Labels] /\ cur \in [Threads -> Nodes \cup {Null}]
        /\ Len(order) \in Nat
    BY NodesDiffer DEF TypeOK
  \* It is enough to look at the thread that makes the step.
  <1>1. ASSUME NEW t \in Threads, Bystander(t),
               pc'[t] \in Locked =>
                 \E k \in 1 .. Len(order) + 1 :
                   /\ cur'[t] = Node(k)
                   /\ pc'[t] \in Lookups =>
                        \A i \in 1 .. k - 1 : <<want'[t], name[order[i]]>> \notin PrefixOf
        PROVE  OnRing'
    <2>1. order' = order /\ \A i \in Int : Node(i)' = Node(i)
      BY <1>1, BystanderKeepsOrder DEF Node
    <2>2. \A i \in 1 .. Len(order) : name'[order[i]] = name[order[i]]
      BY <1>1, NamesKept, NodesDiffer
    <2>3. ASSUME NEW u \in Threads, pc'[u] \in Locked
          PROVE  \E k \in 1 .. Len(order) + 1 :
                   /\ cur'[u] = Node(k)
                   /\ pc'[u] \in Lookups =>
                        \A i \in 1 .. k - 1 : <<want'[u], name[order[i]]>> \notin PrefixOf
      <3>1. CASE u = t  BY <3>1, <2>3, <1>1
      <3>2. CASE u # t
        <4>1. pc'[u] = pc[u] /\ cur'[u] = cur[u] /\ want'[u] = want[u]
          BY <3>2, <1>1, OnlyOwn DEF OthersStay
        <4> QED  BY <4>1, <2>3 DEF OnRing
      <3> QED  BY <3>1, <3>2
    <2>4. ASSUME NEW u \in Threads, pc'[u] \in Locked
          PROVE  \E k \in 1 .. Len(order') + 1 :
                   /\ cur'[u] = Node(k)'
                   /\ pc'[u] \in Lookups =>
                        \A i \in 1 .. k - 1 : <<want'[u], name'[order'[i]]>> \notin PrefixOf
      <3> PICK k \in 1 .. Len(order) + 1 :
            /\ cur'[u] = Node(k)
            /\ pc'[u] \in Lookups =>
                 \A i \in 1 .. k - 1 : <<want'[u], name[order[i]]>> \notin PrefixOf
        BY <2>3, <2>4
      <3>1. Node(k)' = Node(k) /\ k \in 1 .. Len(order') + 1  BY <2>1
      <3>2. \A i \in 1 .. k - 1 : name'[order'[i]] = name[order[i]]
        BY <2>1, <2>2, <1>b
      <3> QED  BY <3>1, <3>2
    <2> QED  BY <2>4 DEF OnRing
  <1>2. ASSUME NEW t \in Threads, BeginLocked(t)  PROVE OnRing'
    <2>1. cur'[t] = Node(1)
      <3>1. cur'[t] = next[ListHead]  BY <1>2, <1>b DEF BeginLocked
      <3>2. Node(0) = ListHead /\ 0 \in 0 .. Len(order)  BY NodesDiffer
      <3>3. next[Node(0)] = Node(0 + 1)  BY <3>2 DEF Ring
      <3> QED  BY <3>1, <3>2, <3>3
    <2>2. \A i \in 1 .. 1 - 1 : FALSE  OBVIOUS
    <2>3. 1 \in 1 .. Len(order) + 1  BY <1>b
    <2> QED  BY <1>1, <1>2, <2>1, <2>2, <2>3 DEF Bystander
  <1>3. ASSUME NEW t \in Threads, Advance(t)  PROVE OnRing'
    <2>1. pc'[t] = pc[t] /\ want'[t] = want[t] /\ cur'[t] = next[cur[t]] /\ cur[t] # ListHead
          /\ (cur[t] \in Devices => ~StopsAt(t, cur[t]))
      BY <1>3, <1>b DEF Advance, AtEnd
    <2>2. ASSUME pc[t] \in Locked
          PROVE  \E k \in 1 .. Len(order) + 1 :
                   /\ cur'[t] = Node(k)
                   /\ pc'[t] \in Lookups =>
                        \A i \in 1 .. k - 1 : <<want'[t], name[order[i]]>> \notin PrefixOf
      <3> PICK k \in 1 .. Len(order) + 1 :
            /\ cur[t] = Node(k)
            /\ pc[t] \in Lookups =>
                 \A i \in 1 .. k - 1 : <<want[t], name[order[i]]>> \notin PrefixOf
        BY <2>2 DEF OnRing
      <3>1. k \in 1 .. Len(order) /\ cur[t] = order[k] /\ order[k] \in Devices
        BY <2>1, NodesDiffer
      <3>2. next[cur[t]] = Node(k + 1)
        <4>1. k \in 0 .. Len(order) /\ cur[t] = Node(k)  BY <3>1
        <4> QED  BY <4>1 DEF Ring
      <3>3. pc[t] \in Lookups => <<want[t], name[order[k]]>> \notin PrefixOf
        BY <2>1, <3>1 DEF StopsAt, Matches, Lookups
      <3>4. k + 1 \in 1 .. Len(order) + 1 /\ (k + 1) - 1 = k
            /\ \A i \in 1 .. k : i \in 1 .. k - 1 \/ i = k
        BY <3>1, <1>b
      <3> QED  BY <2>1, <3>2, <3>3, <3>4
    <2> QED  BY <1>1, <1>3, <2>1, <2>2 DEF Bystander
  <1>4. ASSUME NEW t \in Threads, Bystander(t), ~BeginLocked(t), ~Advance(t)
        PROVE  OnRing'
    <2>1. pc'[t] \notin Locked
      <3> USE DEF Locked, Lookups, Return
      <3>1. ASSUME GetByName(t) \/ ShowDeviceList(t) \/ GetByType(t) \/ ListDevice(t) \/ Finish(t)
            PROVE  pc'[t] \notin Locked
        BY <3>1, <1>b DEF GetByName, ShowDeviceList, GetByType, ListDevice, Finish
      <3>2. ASSUME RegisterCall(t) \/ RegisterFails(t) \/ RegisterFill(t) \/ WriteLock(t)
                   \/ AddPrepare(t) \/ AddCount(t) \/ InitDevice(t) \/ RegisterDone(t)
            PROVE  pc'[t] \notin Locked
        BY <3>2, <1>b DEF RegisterCall, RegisterFails, RegisterFill, WriteLock, AddPrepare,
                          AddCount, InitDevice, RegisterDone
      <3>3. ASSUME UnregisterCall(t) \/ UnregisterRefused(t) \/ UnregisterGoesOn(t) \/ DelClear(t)
                   \/ CreateCall(t) \/ CreateEntry(t) \/ CreateFails(t) \/ CreateReturns(t)
            PROVE  pc'[t] \notin Locked
        BY <3>3, <1>b DEF UnregisterCall, UnregisterRefused, UnregisterGoesOn, DelClear,
                          CreateCall, CreateEntry, CreateFails, CreateReturns, CreateOver
      <3> QED  BY <1>4, <3>1, <3>2, <3>3 DEF Bystander
    <2> QED  BY <1>1, <1>4, <2>1
  <1>5. ASSUME NEW t \in Threads, AddLink(t) \/ DelUnlink(t)  PROVE OnRing'
    \* The writer is alone.
    <2>1. pc[t] \in Writing /\ pc'[t] \notin Locked
      BY <1>5, <1>b DEF AddLink, DelUnlink, Writing, Locked, Lookups
    <2>2. \A u \in Threads : pc[u] \notin Locked
      BY <2>1, RegistryAssumption DEF LockHeld
    <2>3. \A u \in Threads : pc'[u] \notin Locked
      BY <1>5, <2>1, <2>2, OnlyOwn DEF OthersStay
    <2> QED  BY <2>3 DEF OnRing
  <1>6. CASE UNCHANGED vars
    BY <1>6 DEF vars, links, objects, local, OnRing, Node
  <1> QED
    BY <1>2, <1>3, <1>4, <1>5, <1>6 DEF Next, Bystander

LEMMA StepOnRingUnlocked ==
  ASSUME Safe
  PROVE  TypeOK /\ LockHeld /\ Ring /\ OnRingUnlocked /\ [Next]_vars => OnRingUnlocked'
  <1> SUFFICES ASSUME TypeOK, LockHeld, Ring, OnRingUnlocked, [Next]_vars
               PROVE  OnRingUnlocked'
    OBVIOUS
  <1> USE DEF Goto
  <1>b. /\ pc \in [Threads -> Labels] /\ cur \in [Threads -> Nodes \cup {Null}]
        /\ program \in Programs
    BY DEF TypeOK
  \* Pointers lead from the ring to the ring.
  <1>c. \A m \in Listed \cup {ListHead} : next[m] \in Listed \cup {ListHead}
    <2>1. \A i \in 0 .. Len(order) : next[Node(i)] \in Listed \cup {ListHead}
      <3>1. \A i \in Int : Node(i) \in Listed \cup {ListHead}  BY NodesDiffer
      <3> QED  BY <3>1 DEF Ring
    <2>2. \A m \in Listed \cup {ListHead} : \E i \in 0 .. Len(order) : m = Node(i)
      <3>1. \A m \in Listed : \E i \in 1 .. Len(order) : m = Node(i)
        BY NodesDiffer DEF Listed
      <3>2. ListHead = Node(0) /\ 0 \in 0 .. Len(order)  BY NodesDiffer
      <3> QED  BY <3>1, <3>2
    <2> QED  BY <2>1, <2>2
  <1>1. ASSUME NEW t \in Threads, Bystander(t) \/ AddLink(t), Listed \subseteq Listed',
               pc'[t] \in {"type", "list"} => cur'[t] \in Listed \cup {ListHead}
        PROVE  OnRingUnlocked'
    BY <1>1, OnlyOwn DEF OthersStay, OnRingUnlocked
  <1>2. ASSUME NEW t \in Threads, Bystander(t)  PROVE Listed \subseteq Listed'
    BY <1>2, BystanderKeepsOrder DEF Listed
  <1>3. ASSUME NEW t \in Threads, GetByType(t) \/ ListDevice(t)  PROVE OnRingUnlocked'
    <2>1. cur'[t] = next[ListHead]  BY <1>3, <1>b DEF GetByType, ListDevice
    <2> QED  BY <1>1, <1>2, <1>3, <1>c, <2>1 DEF Bystander
  <1>4. ASSUME NEW t \in Threads, Advance(t)  PROVE OnRingUnlocked'
    <2>1. pc'[t] = pc[t] /\ cur'[t] = next[cur[t]]  BY <1>4, <1>b DEF Advance
    <2>2. pc[t] \in {"type", "list"} => cur[t] \in Listed \cup {ListHead}
      BY DEF OnRingUnlocked
    <2> QED  BY <1>1, <1>2, <1>4, <1>c, <2>1, <2>2 DEF Bystander
  <1>5. ASSUME NEW t \in Threads, Bystander(t) \/ AddLink(t),
               ~GetByType(t), ~ListDevice(t), ~Advance(t)
        PROVE  pc'[t] \notin {"type", "list"}
    <2> USE DEF Return
    <2>1. ASSUME GetByName(t) \/ ShowDeviceList(t) \/ BeginLocked(t) \/ Finish(t)
          PROVE  pc'[t] \notin {"type", "list"}
      BY <2>1, <1>b DEF GetByName, ShowDeviceList, BeginLocked, Behind, Finish
    <2>2. ASSUME RegisterCall(t) \/ RegisterFails(t) \/ RegisterFill(t) \/ WriteLock(t)
                 \/ AddPrepare(t) \/ AddLink(t) \/ AddCount(t) \/ InitDevice(t)
                 \/ RegisterDone(t)
          PROVE  pc'[t] \notin {"type", "list"}
      BY <2>2, <1>b DEF RegisterCall, RegisterFails, RegisterFill, WriteLock, AddPrepare,
                        AddLink, AddCount, InitDevice, RegisterDone
    <2>3. ASSUME UnregisterCall(t) \/ UnregisterRefused(t) \/ UnregisterGoesOn(t) \/ DelClear(t)
                 \/ CreateCall(t) \/ CreateEntry(t) \/ CreateFails(t) \/ CreateReturns(t)
          PROVE  pc'[t] \notin {"type", "list"}
      BY <2>3, <1>b DEF UnregisterCall, UnregisterRefused, UnregisterGoesOn, DelClear,
                        CreateCall, CreateEntry, CreateFails, CreateReturns, CreateOver
    <2> QED  BY <1>5, <2>1, <2>2, <2>3 DEF Bystander
  <1>6. ASSUME NEW t \in Threads, AddLink(t)  PROVE OnRingUnlocked'
    <2>1. Listed \subseteq Listed'
      <3>1. order \in Seq(Devices)  BY DEF TypeOK
      <3>2. order' = Append(order, dev[t])  BY <1>6 DEF AddLink
      <3>3. Len(order) \in Nat /\ Len(order') = Len(order) + 1
            /\ \A i \in 1 .. Len(order) : order'[i] = order[i]
        BY <3>1, <3>2
      <3> QED  BY <3>3 DEF Listed
    <2>2. pc'[t] \notin {"type", "list"}  BY <1>6, <1>b DEF AddLink
    <2> QED  BY <1>1, <1>6, <2>1, <2>2
  <1>7. ASSUME NEW t \in Threads, DelUnlink(t)  PROVE OnRingUnlocked'
    \* The program unregisters devices, and so walks behind the lock only.
    <2>1. ~program.unlocked
      BY <1>7, <1>b DEF DelUnlink, LockHeld, Removing, Safe
    <2>2. pc'[t] \notin {"type", "list"}  BY <1>7, <1>b DEF DelUnlink
    <2>3. \A u \in Threads : pc'[u] \notin {"type", "list"}
      BY <1>7, <2>1, <2>2, OnlyOwn DEF OthersStay, LockHeld
    <2> QED  BY <2>3 DEF OnRingUnlocked
  <1>8. CASE UNCHANGED vars
    BY <1>8 DEF vars, links, local, OnRingUnlocked, Listed
  <1> QED
    BY <1>1, <1>2, <1>3, <1>4, <1>5, <1>6, <1>7, <1>8 DEF Next, Bystander

-----------------------------------------------------------------------------
(* Theorems                                                                 *)

IInv == TypeOK /\ LockHeld /\ Ring /\ Hands /\ Counted /\ OnRing

\* The inductive invariant.
THEOREM RegistryInvariant == Spec => []IInv
  <1>1. Init => IInv
    BY InitTypes, InitLock, InitRing, InitHands, InitCounted, InitOnRing DEF IInv
  <1>2. IInv /\ [Next]_vars => IInv'
    BY StepTypes, StepLock, StepRing, StepHands, StepCounted, StepOnRing DEF IInv
  <1> QED  BY <1>1, <1>2, PTL DEF Spec

\* The variables of the registry keep their types.
THEOREM RegistryTypeCorrect == Spec => []TypeOK
  <1>1. IInv => TypeOK  BY DEF IInv
  <1> QED  BY <1>1, RegistryInvariant, PTL

\* ListWellFormed: whatever threads register and unregister whatever objects, the list
\* the next holder of the lock finds is a ring, forwards and backwards.
THEOREM ListStaysWellFormed == Spec => []ListWellFormed
  <1>1. IInv => ListWellFormed
    <2> SUFFICES ASSUME IInv, writer = NoThread
                 PROVE  /\ \A i \in 0 .. Len(order) : /\ next[Node(i)] = Node(i + 1)
                                                      /\ prev[Node(i + 1)] = Node(i)
                        /\ \A i, j \in 1 .. Len(order) : order[i] = order[j] => i = j
                        /\ g_device_num = Len(order)
      BY DEF ListWellFormed
    <2>1. \A t \in Threads : pc[t] \notin Writing
      BY RegistryAssumption DEF IInv, LockHeld
    <2>2. g_device_num = Len(order) /\ prev[ListHead] = Node(Len(order))
      BY <2>1 DEF IInv, Counted, Ring, Writing
    <2>3. Len(order) \in Nat /\ Node(Len(order) + 1) = ListHead
      BY NodesDiffer DEF IInv
    <2>4. ASSUME NEW i \in 0 .. Len(order)  PROVE prev[Node(i + 1)] = Node(i)
      <3>1. CASE i = Len(order)  BY <3>1, <2>2, <2>3
      <3>2. CASE i # Len(order)
        <4>1. i + 1 \in 1 .. Len(order) /\ (i + 1) - 1 = i  BY <3>2, <2>3
        <4>2. \A j \in 1 .. Len(order) : prev[Node(j)] = Node(j - 1)  BY DEF IInv, Ring
        <4> QED  BY <4>1, <4>2
      <3> QED  BY <3>1, <3>2
    <2> QED  BY <2>2, <2>4 DEF IInv, Ring
  <1> QED  BY <1>1, RegistryInvariant, PTL

\* TraversalOnList: in a program that does not both unregister devices and walk the list
\* without the lock, no traversal leaves the list.
THEOREM TraversalsStayOnList ==
  ASSUME Safe
  PROVE  Spec => []TraversalOnList
  <1>1. Init => OnRingUnlocked  BY InitOnRing
  <1>2. IInv /\ OnRingUnlocked /\ [Next]_vars => OnRingUnlocked'
    BY StepOnRingUnlocked DEF IInv
  <1>3. IInv /\ OnRingUnlocked => TraversalOnList
    <2> SUFFICES ASSUME IInv, OnRingUnlocked, NEW t \in Threads, pc[t] \in Locked
                 PROVE  cur[t] \in Listed \cup {ListHead}
      BY DEF TraversalOnList, OnRingUnlocked, Walks
    <2>1. PICK k \in 1 .. Len(order) + 1 : cur[t] = Node(k)
      BY DEF IInv, OnRing
    <2> QED  BY <2>1, NodesDiffer DEF IInv
  <1> QED  BY <1>1, <1>2, <1>3, RegistryInvariant, PTL DEF Spec

\* A lookup that ends.
LEMMA ResultExact ==
  ASSUME IInv, NEW t \in Threads, pc[t] \in Lookups, Finish(t)
  PROVE  IF Result(t) = Null THEN \A d \in Listed : ~Matches(d, want[t])
                             ELSE Result(t) \in Listed
  <1>1. PICK k \in 1 .. Len(order) + 1 :
          /\ cur[t] = Node(k)
          /\ \A i \in 1 .. k - 1 : <<want[t], name[order[i]]>> \notin PrefixOf
    BY DEF IInv, OnRing, Locked
  <1>2. /\ Len(order) \in Nat /\ Listed \subseteq Devices /\ ListHead \notin Devices
        /\ Null \notin Devices
    BY NodesDiffer, RegistryAssumption DEF IInv
  <1>3. \A i \in 1 .. Len(order) : Node(i) \in Listed
    <2>1. TypeOK /\ Ring  BY DEF IInv
    <2>2. \A i \in 1 .. Len(order) : Node(i) = order[i] /\ order[i] \in Listed
      BY <2>1, NodesDiffer
    <2> QED  BY <2>2
  <1>4. k \in 1 .. Len(order) \/ k = Len(order) + 1  BY <1>2
  <1>5. CASE cur[t] = ListHead
    <2>1. k = Len(order) + 1  BY <1>1, <1>2, <1>5, <1>3, <1>4
    <2>2. \A i \in 1 .. Len(order) : <<want[t], name[order[i]]>> \notin PrefixOf
      BY <1>1, <1>2, <2>1
    <2>3. \A d \in Listed : ~Matches(d, want[t])
      BY <2>2 DEF Listed, Matches
    <2> QED  BY <1>5, <2>3 DEF Result, AtEnd
  <1>6. CASE cur[t] # ListHead
    <2>1. cur[t] \in Listed
      <3>1. k = Len(order) + 1 => Node(k) = ListHead  BY <1>2 DEF Node
      <3> QED  BY <1>1, <1>6, <1>3, <1>4, <3>1
    <2> QED  BY <1>2, <1>6, <2>1 DEF Result, AtEnd
  <1> QED  BY <1>5, <1>6

\* LookupExact: a locked lookup that finds nothing has looked at every device there is.
THEOREM LookupsAreExact == Spec => LookupExact
  <1> DEFINE Exact ==
        \A t \in Threads :
          pc[t] \in Lookups /\ Finish(t) =>
            IF Result(t) = Null THEN \A d \in Listed : ~Matches(d, want[t])
                                ELSE Result(t) \in Listed
  <1>1. ASSUME IInv, NEW t \in Threads, pc[t] \in Lookups, Finish(t)
        PROVE  IF Result(t) = Null THEN \A d \in Listed : ~Matches(d, want[t])
                                   ELSE Result(t) \in Listed
    BY <1>1, ResultExact
  <1>2. IInv /\ [Next]_vars => [Exact]_vars  BY <1>1
  <1> QED  BY <1>2, RegistryInvariant, PTL DEF Spec, LookupExact

\* InitBeforeUse: a device that startup_device accepts is ready.
THEOREM DevicesReadyBeforeUse == Spec => []InitBeforeUse
  <1>1. Init => InitBeforeUse  BY DEF Init, InitBeforeUse
  <1>2. IInv /\ InitBeforeUse /\ [Next]_vars => InitBeforeUse'
    <2> SUFFICES ASSUME IInv, InitBeforeUse, [Next]_vars PROVE InitBeforeUse'  OBVIOUS
    <2> USE DEF IInv, TypeOK, InitBeforeUse, objects
    <2>1. ASSUME NEW t \in Threads, RegisterFails(t)  PROVE InitBeforeUse'
      BY <2>1 DEF RegisterFails
    <2>2. ASSUME NEW t \in Threads, InitDevice(t)  PROVE InitBeforeUse'
      BY <2>2 DEF InitDevice
    <2>3. ASSUME NEW t \in Threads, RegisterDone(t)  PROVE InitBeforeUse'
      <3>1. dev[t] \in ready  BY <2>3 DEF RegisterDone, Hands
      <3> QED  BY <2>3, <3>1 DEF RegisterDone
    <2>4. ASSUME NEW t \in Threads, CreateEntry(t)  PROVE InitBeforeUse'
      <3>1. PICK d \in Devices : is_init' = [is_init EXCEPT ![d] = FALSE] /\ ready' = ready \ {d}
        BY <2>4 DEF CreateEntry
      <3> QED  BY <3>1
    <2>5. ASSUME NEW t \in Threads,
                 Bystander(t) \/ AddLink(t) \/ DelUnlink(t),
                 ~RegisterFails(t), ~InitDevice(t), ~RegisterDone(t), ~CreateEntry(t)
          PROVE  is_init' = is_init /\ ready' = ready
      BY <2>5
      DEF Bystander, GetByName, ShowDeviceList, GetByType, ListDevice, BeginLocked,
          Advance, Finish, RegisterCall, RegisterFill, WriteLock, AddPrepare, AddLink,
          AddCount, UnregisterCall, UnregisterRefused, UnregisterGoesOn, DelUnlink,
          DelClear, CreateCall, CreateFails, CreateReturns, CreateOver
    <2>6. CASE UNCHANGED vars  BY <2>6 DEF vars
    <2> QED
      BY <2>1, <2>2, <2>3, <2>4, <2>5, <2>6 DEF Next, Bystander
  <1> QED  BY <1>1, <1>2, RegistryInvariant, PTL DEF Spec

-----------------------------------------------------------------------------
(* Names, where one thread at a time registers devices                      *)

Registers(t) == pc[t] \in Adding \cup {"add_count", "init", "done"} \/ table[t] # NoTable

Vacant(t) ==
  /\ pc[t] = "found" /\ found[t] = Null =>
       \A d \in Listed : <<want[t], name[d]>> \notin PrefixOf
  /\ pc[t] \in {"add_lock", "add", "add_link"} =>
       \A d \in Listed : <<name[dev[t]], name[d]>> \notin PrefixOf

\* The thread that registers is the only one that does, and the name of its device is,
\* once it has been looked for in vain, still that of nobody in the list.
NameFree ==
  ~program.together =>
    /\ \A t, u \in Threads : Registers(t) /\ Registers(u) => t = u
    /\ \A t \in Threads : Vacant(t)
    /\ \A i \in 1 .. Len(order) : \A j \in 1 .. i - 1 :
         <<name[order[i]], name[order[j]]>> \notin PrefixOf

\* One registration at a time.
LEMMA StepSole ==
  ASSUME IInv, NameFree, [Next]_vars, ~program.together
  PROVE  \A t, u \in Threads : Registers(t)' /\ Registers(u)' => t = u
  <1> USE DEF IInv, Goto, Adding, Registers
  <1>b. pc \in [Threads -> Labels] /\ table \in [Threads -> program.tables \cup {NoTable}]
    BY DEF TypeOK
  <1>c. \A t, u \in Threads : Registers(t) /\ Registers(u) => t = u
    BY DEF NameFree
  <1>1. ASSUME NEW t \in Threads, Bystander(t) \/ AddLink(t) \/ DelUnlink(t),
               Registers(t)' => Registers(t) \/ \A u \in Threads \ {t} : ~Registers(u)
        PROVE  \A u, v \in Threads : Registers(u)' /\ Registers(v)' => u = v
    <2>1. \A u \in Threads \ {t} : Registers(u)' <=> Registers(u)
      BY <1>1, OnlyOwn DEF OthersStay
    <2> HIDE DEF Registers
    <2> QED  BY <1>1, <1>c, <2>1
  <1>2. ASSUME NEW t \in Threads, RegisterCall(t) \/ CreateCall(t)
        PROVE  \A u \in Threads \ {t} : ~Registers(u)
    <2>1. \A u \in Threads \ {t} : dev[u] = Null /\ table[u] = NoTable
      BY <1>2 DEF RegisterCall, CreateCall, MayRegister
    <2>2. \A u \in Threads : pc[u] \in Attending => dev[u] # Null
      BY RegistryAssumption DEF Hands
    <2> QED  BY <2>1, <2>2 DEF Attending, Outside
  <1>3. ASSUME NEW t \in Threads, Bystander(t) \/ AddLink(t) \/ DelUnlink(t),
               ~RegisterCall(t), ~CreateCall(t)
        PROVE  Registers(t)' => Registers(t)
    <2> USE DEF local, creation, Return
    <2>1. ASSUME GetByName(t) \/ ShowDeviceList(t) \/ GetByType(t) \/ ListDevice(t)
                 \/ BeginLocked(t) \/ Advance(t) \/ Finish(t)
          PROVE  Registers(t)' => Registers(t)
      BY <2>1, <1>b DEF GetByName, ShowDeviceList, GetByType, ListDevice, BeginLocked, Behind,
                        Advance, Finish
    <2>2. ASSUME RegisterFails(t) \/ RegisterFill(t) \/ AddPrepare(t) \/ AddLink(t)
                 \/ AddCount(t) \/ InitDevice(t) \/ RegisterDone(t) \/ WriteLock(t)
          PROVE  Registers(t)' => Registers(t)
      BY <2>2, <1>b DEF RegisterFails, RegisterFill, WriteLock, AddPrepare, AddLink, AddCount,
                        InitDevice, RegisterDone
    <2>3. ASSUME UnregisterCall(t) \/ UnregisterRefused(t) \/ UnregisterGoesOn(t)
                 \/ DelUnlink(t) \/ DelClear(t)
          PROVE  Registers(t)' => Registers(t)
      BY <2>3, <1>b DEF UnregisterCall, UnregisterRefused, UnregisterGoesOn, DelUnlink, DelClear
    <2>4. ASSUME CreateEntry(t) \/ CreateFails(t) \/ CreateReturns(t)
          PROVE  Registers(t)' => Registers(t)
      BY <2>4, <1>b DEF CreateEntry, CreateFails, CreateReturns, CreateOver, Hands
    <2> QED  BY <1>3, <2>1, <2>2, <2>3, <2>4 DEF Bystander
  <1>4. CASE UNCHANGED vars
    BY <1>4, <1>c DEF vars, local, creation
  <1> HIDE DEF Registers
  <1> QED  BY <1>1, <1>2, <1>3, <1>4 DEF Next, Bystander

LEMMA StepVacant ==
  ASSUME IInv, NameFree, [Next]_vars, ~program.together, NEW v \in Threads
  PROVE  Vacant(v)'
  <1> USE DEF IInv, Goto
  <1>b. /\ pc \in [Threads -> Labels] /\ name \in [Devices -> Names \cup {NoName}]
        /\ found \in [Threads -> Devices \cup {Null}]
        /\ want \in [Threads -> Names \cup Classes \cup {NoName}]
    BY DEF TypeOK
  <1>c. Vacant(v)  BY DEF NameFree
  <1>d. Listed \subseteq Devices /\ Null \notin Devices
    BY RegistryAssumption DEF TypeOK, Listed
  <1>e. pc[v] \in Adding => dev[v] \in Devices \ Listed
    BY DEF Hands, Attending, Outside
  \* Nobody else disturbs v: the list may only lose devices while v registers one.
  <1>1. ASSUME NEW t \in Threads \ {v}, Bystander(t) \/ AddLink(t) \/ DelUnlink(t)
        PROVE  Vacant(v)'
    <2>1. /\ pc'[v] = pc[v] /\ want'[v] = want[v] /\ dev'[v] = dev[v] /\ found'[v] = found[v]
      BY <1>1, OnlyOwn DEF OthersStay
    <2>2. SUFFICES ASSUME pc[v] \in {"found", "add_lock", "add", "add_link"}
                   PROVE  /\ Listed' \subseteq Listed
                          /\ \A d \in Listed \cup {dev[v]} : name'[d] = name[d]
      BY <2>1, <1>c, <1>d DEF Vacant
    <2>3. dev[v] \in Devices \ Listed /\ dev[t] # dev[v]
      <3>1. dev[v] \in Devices \ Listed  BY <2>2, <1>e DEF Adding
      <3> QED  BY <3>1, <1>d DEF Hands
    <2>4. CASE Bystander(t)
      <3>1. Listed' = Listed  BY <2>4, BystanderKeepsOrder DEF Listed
      <3>2. \A d \in Listed : name'[d] = name[d]  BY <2>4, NamesKept
      <3>3. name'[dev[v]] = name[dev[v]]  BY <2>2, <2>4, HeldNameKept DEF Adding
      <3> QED  BY <3>1, <3>2, <3>3
    <2>5. CASE AddLink(t)
      <3>1. Registers(t) /\ Registers(v)
        BY <2>2, <2>5 DEF AddLink, Registers, Adding
      <3> QED  BY <3>1, <1>1 DEF NameFree
    <2>6. CASE DelUnlink(t)
      <3>1. name' = name  BY <2>6 DEF DelUnlink, objects
      <3>2. \E k \in 1 .. Len(order) : order' = Without(order, k)  BY <2>6 DEF DelUnlink
      <3>3. Listed' \subseteq Listed  BY <3>2, UnlinkedListed
      <3> QED  BY <3>1, <3>3
    <2> QED  BY <1>1, <2>4, <2>5, <2>6
  <1>2. CASE Finish(v)
    <2>1. CASE pc[v] = "find"
      <3>1. /\ pc'[v] = "found" /\ found'[v] = Result(v) /\ want'[v] = want[v]
            /\ name' = name /\ Listed' = Listed
        BY <1>2, <2>1, <1>b DEF Finish, objects, links, Listed
      <3>2. Result(v) = Null => \A d \in Listed : ~Matches(d, want[v])
        BY <1>2, <2>1, ResultExact DEF Lookups
      <3> QED  BY <3>1, <3>2 DEF Vacant, Matches
    <2>2. CASE pc[v] # "find"
      <3>1. pc'[v] \in {"idle", "create"}  BY <1>2, <2>2, <1>b DEF Finish, Return
      <3> QED  BY <3>1 DEF Vacant
    <2> QED  BY <2>1, <2>2
  <1>3. CASE RegisterFill(v)
    <2>1. /\ pc'[v] = "add_lock" /\ Listed' = Listed /\ dev'[v] = dev[v]
          /\ dev[v] \in Devices \ Listed /\ want[v] \in Names
          /\ name' = [name EXCEPT ![dev[v]] = Copied(@, want[v])]
      BY <1>3, <1>b, <1>e DEF RegisterFill, local, Listed, Adding, Hands
    <2>2. \A d \in Listed : <<want[v], name[d]>> \notin PrefixOf /\ name'[d] = name[d]
      BY <1>3, <2>1, <1>b, <1>c, <1>d DEF RegisterFill, Taken, Vacant
    <2>3. name'[dev[v]] = Copied(name[dev[v]], want[v])  BY <2>1, <1>b
    <2>4. ASSUME NEW d \in Listed, <<name'[dev[v]], name[d]>> \in PrefixOf
          PROVE  FALSE
      <3>1. /\ name'[dev[v]] \in Names /\ name[d] \in Names
            /\ \A l, m \in Names : <<l, m>> \in PrefixOf /\ <<m, name[d]>> \in PrefixOf
                                     => <<l, name[d]>> \in PrefixOf
        BY <2>4, RegistryAssumption
      <3>2. <<want[v], name'[dev[v]]>> \in PrefixOf
        BY <2>1, <2>3, RegistryAssumption DEF Copied
      <3> QED  BY <2>1, <2>2, <2>4, <3>1, <3>2
    <2> QED  BY <2>1, <2>2, <2>4 DEF Vacant
  <1>4. CASE WriteLock(v) \/ AddPrepare(v)
    <2>1. /\ \/ pc'[v] = "del"
             \/ pc'[v] \in {"add", "add_link"} /\ pc[v] \in {"add_lock", "add"}
          /\ UNCHANGED <<order, name, dev>>
      BY <1>4, <1>b DEF WriteLock, AddPrepare, links, objects, local
    <2> QED  BY <2>1, <1>c DEF Vacant, Listed
  <1>5. ASSUME Bystander(v) \/ AddLink(v) \/ DelUnlink(v),
               ~Finish(v), ~RegisterFill(v), ~WriteLock(v), ~AddPrepare(v)
        PROVE  Vacant(v)'
    <2>1. pc'[v] \notin {"found", "add_lock", "add", "add_link"}
      <3> USE DEF Return
      <3>1. ASSUME GetByName(v) \/ ShowDeviceList(v) \/ GetByType(v) \/ ListDevice(v)
                   \/ BeginLocked(v) \/ Advance(v)
            PROVE  pc'[v] \notin {"found", "add_lock", "add", "add_link"}
        BY <3>1, <1>b DEF GetByName, ShowDeviceList, GetByType, ListDevice, BeginLocked,
                          Behind, Advance, Walks, Locked, Lookups
      <3>2. ASSUME RegisterCall(v) \/ RegisterFails(v) \/ AddLink(v) \/ AddCount(v)
                   \/ InitDevice(v) \/ RegisterDone(v)
            PROVE  pc'[v] \notin {"found", "add_lock", "add", "add_link"}
        BY <3>2, <1>b DEF RegisterCall, RegisterFails, AddLink, AddCount, InitDevice, RegisterDone
      <3>3. ASSUME UnregisterCall(v) \/ UnregisterRefused(v) \/ UnregisterGoesOn(v)
                   \/ DelUnlink(v) \/ DelClear(v)
                   \/ CreateCall(v) \/ CreateEntry(v) \/ CreateFails(v) \/ CreateReturns(v)
            PROVE  pc'[v] \notin {"found", "add_lock", "add", "add_link"}
        BY <3>3, <1>b DEF UnregisterCall, UnregisterRefused, UnregisterGoesOn, DelUnlink,
                          DelClear, CreateCall, CreateEntry, CreateFails, CreateReturns,
                          CreateOver
      <3> QED  BY <1>5, <3>1, <3>2, <3>3 DEF Bystander
    <2> QED  BY <2>1 DEF Vacant
  <1>6. CASE UNCHANGED vars
    BY <1>6, <1>c DEF vars, links, objects, local, Vacant, Listed
  <1> QED
    BY <1>1, <1>2, <1>3, <1>4, <1>5, <1>6 DEF Next, Bystander

\* No device stands behind one whose name its own is a prefix of.
Ordered ==
  \A i \in 1 .. Len(order) : \A j \in 1 .. i - 1 :
    <<name[order[i]], name[order[j]]>> \notin PrefixOf

LEMMA StepOrdered ==
  ASSUME IInv, NameFree, [Next]_vars, ~program.together
  PROVE  Ordered'
  <1> USE DEF IInv
  <1>a. Ordered /\ \A t \in Threads : Vacant(t)  BY DEF NameFree, Ordered
  <1>b. /\ Len(order) \in Nat
        /\ \A i \in 1 .. Len(order) : order[i] \in Listed
    BY NodesDiffer DEF Listed
  <1>1. ASSUME NEW t \in Threads, Bystander(t)  PROVE Ordered'
    <2>1. order' = order  BY <1>1, BystanderKeepsOrder
    <2>2. \A i \in 1 .. Len(order) : name'[order[i]] = name[order[i]]
      BY <1>1, <1>b, NamesKept
    <2> QED  BY <2>1, <2>2, <1>a, <1>b DEF Ordered
  <1>2. ASSUME NEW t \in Threads, AddLink(t)  PROVE Ordered'
    <2>1. /\ pc[t] = "add_link" /\ dev[t] \in Devices
          /\ order' = Append(order, dev[t]) /\ name' = name
      BY <1>2 DEF AddLink, objects, Hands, Attending, Outside, Adding
    <2>2. /\ Len(order') = Len(order) + 1 /\ order'[Len(order) + 1] = dev[t]
          /\ \A i \in 1 .. Len(order) : order'[i] = order[i]
      BY <2>1, LinkedListed
    <2>3. \A j \in 1 .. Len(order) : <<name[dev[t]], name[order[j]]>> \notin PrefixOf
      BY <2>1, <1>a, <1>b DEF Vacant
    <2>4. ASSUME NEW i \in 1 .. Len(order) + 1, NEW j \in 1 .. i - 1
          PROVE  <<name[order'[i]], name[order'[j]]>> \notin PrefixOf
      <3>1. CASE i = Len(order) + 1
        <4>1. j \in 1 .. Len(order)  BY <3>1, <1>b
        <4> QED  BY <3>1, <4>1, <2>2, <2>3
      <3>2. CASE i # Len(order) + 1
        <4>1. i \in 1 .. Len(order) /\ j \in 1 .. Len(order)  BY <3>2, <1>b
        <4> QED  BY <4>1, <2>2, <1>a DEF Ordered
      <3> QED  BY <3>1, <3>2
    <2> QED  BY <2>1, <2>2, <2>4 DEF Ordered
  <1>3. ASSUME NEW t \in Threads, DelUnlink(t)  PROVE Ordered'
    <2>1. PICK k \in 1 .. Len(order) : order' = Without(order, k)
      BY <1>3 DEF DelUnlink
    <2>2. name' = name  BY <1>3 DEF DelUnlink, objects
    <2>3. /\ Len(order') = Len(order) - 1
          /\ \A i \in 1 .. k - 1 : order'[i] = order[i]
          /\ \A i \in k .. Len(order) - 1 : order'[i] = order[i + 1]
      BY <2>1, UnlinkedListed
    <2>4. ASSUME NEW i \in 1 .. Len(order) - 1, NEW j \in 1 .. i - 1
          PROVE  <<name[order'[i]], name[order'[j]]>> \notin PrefixOf
      <3>1. CASE i < k
        <4>1. i \in 1 .. k - 1 /\ j \in 1 .. k - 1 /\ i \in 1 .. Len(order)  BY <3>1, <1>b
        <4> QED  BY <4>1, <2>3, <1>a DEF Ordered
      <3>2. CASE i >= k /\ j < k
        <4>1. i \in k .. Len(order) - 1 /\ j \in 1 .. k - 1 /\ i + 1 \in 1 .. Len(order)
              /\ j \in 1 .. (i + 1) - 1
          BY <3>2, <1>b
        <4> QED  BY <4>1, <2>3, <1>a DEF Ordered
      <3>3. CASE j >= k
        <4>1. i \in k .. Len(order) - 1 /\ j \in k .. Len(order) - 1
              /\ i + 1 \in 1 .. Len(order) /\ j + 1 \in 1 .. (i + 1) - 1
          BY <3>3, <1>b
        <4> QED  BY <4>1, <2>3, <1>a DEF Ordered
      <3> QED  BY <3>1, <3>2, <3>3
    <2> QED  BY <2>2, <2>3, <2>4 DEF Ordered
  <1>4. CASE UNCHANGED vars
    BY <1>4, <1>a DEF vars, links, objects, Ordered
  <1> QED
    BY <1>1, <1>2, <1>3, <1>4 DEF Next, Bystander

\* OwnNameFound: with one registration at a time every device answers to its own name,
\* although names are compared by prefix and a second registration keeps the end of an
\* older, longer name.
THEOREM OwnNamesFound == Spec => []OwnNameFound
  <1>1. Init => NameFree
    BY RegistryAssumption DEF Init, NameFree, Registers, Adding, Vacant
  <1>2. IInv /\ NameFree /\ [Next]_vars => NameFree'
    <2> SUFFICES ASSUME IInv, NameFree, [Next]_vars, ~program'.together
                 PROVE  NameFree'
      BY DEF NameFree
    <2>1. program' = program
      <3>1. ASSUME NEW t \in Threads, Bystander(t) \/ AddLink(t) \/ DelUnlink(t)
            PROVE  program' = program
        BY <3>1, BystanderKeepsOrder DEF AddLink, DelUnlink
      <3>2. CASE UNCHANGED vars  BY <3>2 DEF vars
      <3> QED  BY <3>1, <3>2 DEF Next, Bystander
    <2>2. ~program.together  BY <2>1
    <2>3. \A t, u \in Threads : Registers(t)' /\ Registers(u)' => t = u
      BY <2>2, StepSole
    <2>4. \A t \in Threads : Vacant(t)'  BY <2>2, StepVacant
    <2>5. Ordered'  BY <2>2, StepOrdered
    <2> QED  BY <2>3, <2>4, <2>5 DEF NameFree, Ordered
  <1>3. NameFree => OwnNameFound  BY DEF NameFree, OwnNameFound, Matches
  <1> QED  BY <1>1, <1>2, <1>3, RegistryInvariant, PTL DEF Spec

-----------------------------------------------------------------------------
(* Tables, where no device is unregistered                                  *)

Creating == Adding \cup {"create", "add_count", "init", "done"}

\* An entry of a table can be found by its name, or its class can never be had.
Provided(t, i) ==
  \/ \E d \in Listed : Matches(d, table[t][i].name)
  \/ table[t][i].class \notin classes \cup Selectable

\* The entry being registered: the object and the name are the entry's, and what the
\* duplicate check came upon answers to that name.
Pending(t) ==
  /\ want[t] = table[t][entry[t] - 1].name
  /\ ClassOf[dev[t]] = table[t][entry[t] - 1].class
  /\ pc[t] \in {"find_lock", "find", "found"} => name[dev[t]] = NoName
  /\ pc[t] = "found" /\ found[t] # Null =>
       found[t] \in Listed /\ Matches(found[t], want[t])
  /\ pc[t] \in {"add_lock", "add", "add_link"} => name[dev[t]] = want[t]

\* Each entry behind the one being registered is provided, and that one as soon as its
\* device is linked or refused.
Created(t) ==
  table[t] # NoTable =>
    /\ pc[t] \in Creating
    /\ pc[t] \in Adding => Pending(t)
    /\ \A i \in 1 .. Len(table[t]) :
         i < entry[t] - 1 \/ (i = entry[t] - 1 /\ pc[t] \notin Adding) => Provided(t, i)

\* Devices, their names and the classes that cannot be had are there to stay.
LEMMA ListGrows ==
  ASSUME IInv, [Next]_vars, ~program.unregister
  PROVE  /\ Listed \subseteq Listed' /\ \A d \in Listed : name'[d] = name[d]
         /\ classes' \subseteq classes \cup Selectable
  <1> USE DEF IInv
  <1>1. ASSUME NEW t \in Threads, Bystander(t)
        PROVE  Listed' = Listed /\ \A d \in Listed : name'[d] = name[d]
    BY <1>1, BystanderKeepsOrder, NamesKept DEF Listed
  <1>2. ASSUME NEW t \in Threads, AddLink(t)
        PROVE  Listed' = Listed \cup {dev[t]} /\ UNCHANGED <<name, classes>>
    <2>1. /\ dev[t] \in Devices /\ order' = Append(order, dev[t])
          /\ UNCHANGED <<name, classes>>
      BY <1>2 DEF AddLink, objects, Hands, Attending, Outside, Adding
    <2> QED  BY <2>1, LinkedListed
  <1>3. ASSUME NEW t \in Threads  PROVE ~DelUnlink(t)
    BY DEF DelUnlink, LockHeld, Removing
  <1>4. ASSUME NEW t \in Threads, Bystander(t)  PROVE classes' \subseteq classes \cup Selectable
    <2>1. CASE RegisterFails(t) \/ RegisterFill(t)
      BY <2>1 DEF RegisterFails, RegisterFill, ClassesBehind, ldal_device_class_set
    <2>2. CASE ~RegisterFails(t) /\ ~RegisterFill(t)
      <3>1. classes' = classes
        BY <1>4, <2>2
        DEF Bystander, objects, GetByName, ShowDeviceList, GetByType, ListDevice, BeginLocked,
            Advance, Finish, RegisterCall, WriteLock, AddPrepare, AddCount, InitDevice,
            RegisterDone, UnregisterCall, UnregisterRefused, UnregisterGoesOn, DelClear,
            CreateCall, CreateEntry, CreateFails, CreateReturns, CreateOver
      <3> QED  BY <3>1
    <2> QED  BY <2>1, <2>2
  <1>5. CASE UNCHANGED vars
    BY <1>5 DEF vars, links, objects, Listed
  <1> QED  BY <1>1, <1>2, <1>3, <1>4, <1>5 DEF Next, Bystander

LEMMA StaysProvided ==
  ASSUME IInv, [Next]_vars, ~program.unregister, NEW v \in Threads, table'[v] = table[v],
         NEW i, Provided(v, i)
  PROVE  Provided(v, i)'
  BY ListGrows DEF Provided, Matches

\* A step of another thread.
LEMMA OtherCreated ==
  ASSUME IInv, [Next]_vars, ~program.unregister, NEW v \in Threads, Created(v),
         NEW t \in Threads \ {v}, Bystander(t) \/ AddLink(t)
  PROVE  Created(v)'
  <1>1. /\ pc'[v] = pc[v] /\ dev'[v] = dev[v] /\ want'[v] = want[v] /\ found'[v] = found[v]
        /\ table'[v] = table[v] /\ entry'[v] = entry[v]
    BY OnlyOwn DEF OthersStay, IInv
  <1>2. ASSUME pc[v] \in Adding  PROVE name'[dev[v]] = name[dev[v]]
    <2>1. CASE Bystander(t)  BY <1>2, <2>1, HeldNameKept DEF IInv
    <2>2. CASE AddLink(t)  BY <2>2 DEF AddLink, objects
    <2> QED  BY <2>1, <2>2
  <1>3. ASSUME table[v] # NoTable, pc[v] \in Adding  PROVE Pending(v)'
    <2>1. Pending(v)  BY <1>3 DEF Created
    <2>2. Listed \subseteq Listed' /\ \A d \in Listed : name'[d] = name[d]
      BY ListGrows
    <2> QED  BY <1>1, <1>2, <1>3, <2>1, <2>2 DEF Pending, Matches
  <1>4. ASSUME NEW i, Provided(v, i)  PROVE Provided(v, i)'
    BY <1>1, <1>4, StaysProvided
  <1> QED  BY <1>1, <1>3, <1>4 DEF Created

\* What the duplicate check returns answers to the name it was made for.
LEMMA FoundMatches ==
  ASSUME IInv, NEW t \in Threads, pc[t] = "find", Finish(t), Result(t) # Null
  PROVE  Result(t) \in Listed /\ Matches(Result(t), want[t])
  <1>1. Result(t) \in Listed  BY ResultExact DEF Lookups
  <1>2. ~AtEnd(t) /\ Result(t) = cur[t]  BY DEF Result
  <1>3. StopsAt(t, cur[t])  BY <1>2 DEF Finish
  <1> QED  BY <1>1, <1>2, <1>3 DEF StopsAt, Lookups

\* A step of the thread that creates.
LEMMA OwnCreated ==
  ASSUME IInv, [Next]_vars, ~program.unregister, NEW v \in Threads, Created(v),
         table[v] # NoTable, Bystander(v) \/ AddLink(v)
  PROVE  Created(v)'
  <1> USE DEF Goto
  <1>a. /\ pc \in [Threads -> Labels] /\ dev \in [Threads -> Devices \cup {Null}]
        /\ want \in [Threads -> Names \cup Classes \cup {NoName}]
        /\ found \in [Threads -> Devices \cup {Null}]
        /\ name \in [Devices -> Names \cup {NoName}]
        /\ entry \in [Threads -> Nat]
        /\ table \in [Threads -> program.tables \cup {NoTable}]
    BY DEF IInv, TypeOK
  <1>b. pc[v] \in Creating /\ (pc[v] \in Adding => Pending(v) /\ dev[v] \in Devices)
    BY DEF Created, IInv, Hands, Attending, Outside
  <1>c. \A i \in 1 .. Len(table[v]) :
          i < entry[v] - 1 \/ (i = entry[v] - 1 /\ pc[v] \notin Adding) => Provided(v, i)
    BY DEF Created
  <1>d. \A i : table'[v] = table[v] /\ Provided(v, i) => Provided(v, i)'
    BY StaysProvided
  <1>e. Listed \subseteq Listed' /\ \A d \in Listed : name'[d] = name[d]
    BY ListGrows
  \* The entry in hand has been done with.
  <1>f. ASSUME UNCHANGED <<table, entry>>, pc'[v] \in Creating \ Adding,
               pc[v] \in Adding => \A i \in 1 .. Len(table[v]) :
                                     i = entry[v] - 1 => Provided(v, i)'
        PROVE  Created(v)'
    BY <1>f, <1>c, <1>d DEF Created
  \* The entry in hand is still in hand.
  <1>g. ASSUME UNCHANGED <<table, entry>>, pc[v] \in Adding, pc'[v] \in Adding, Pending(v)'
        PROVE  Created(v)'
    BY <1>g, <1>c, <1>d DEF Created, Creating
  <1>1. CASE BeginLocked(v) \/ Advance(v) \/ WriteLock(v) \/ AddPrepare(v)
    <2>1. /\ UNCHANGED <<table, entry, dev, want, found, name, order>>
          /\ <<pc[v], pc'[v]>> \in {<<"find_lock", "find">>, <<"find", "find">>,
                                    <<"add_lock", "add">>, <<"add", "add_link">>}
      BY <1>1, <1>a, <1>b
      DEF BeginLocked, Behind, Advance, WriteLock, AddPrepare, links, objects, local, creation,
          Walks, Locked, Lookups, Creating, Adding
    <2>2. pc[v] \in Adding /\ pc'[v] \in Adding  BY <2>1 DEF Adding
    <2>3. Pending(v)'  BY <2>1, <2>2, <1>b DEF Pending
    <2> QED  BY <2>1, <2>2, <2>3, <1>g
  <1>2. CASE Finish(v)
    <2>1. pc[v] = "find"
      BY <1>2, <1>b DEF Finish, Creating, Adding, Walks, Locked, Lookups
    <2>2. /\ UNCHANGED <<table, entry, dev, want, name, order>>
          /\ pc'[v] = "found" /\ found'[v] = Result(v)
      BY <1>2, <2>1, <1>a DEF Finish, links, objects, creation
    <2>3. Result(v) # Null => Result(v) \in Listed /\ Matches(Result(v), want[v])
      BY <1>2, <2>1, FoundMatches
    <2>4. Listed' = Listed  BY <2>2 DEF Listed
    <2>5. Pending(v)'  BY <2>1, <2>2, <2>3, <2>4, <1>b DEF Pending, Adding, Matches
    <2> QED  BY <2>1, <2>2, <2>5, <1>g DEF Adding
  <1>3. CASE RegisterFails(v)
    <2>1. /\ pc[v] = "found" /\ UNCHANGED <<table, entry, name, order>>
          /\ pc'[v] = "create"
      BY <1>3, <1>a DEF RegisterFails, Return, links, creation
    <2>2. Pending(v)  BY <2>1, <1>b DEF Adding
    <2>3. ASSUME NEW i \in 1 .. Len(table[v]), i = entry[v] - 1  PROVE Provided(v, i)'
      <3>1. CASE Taken(v)
        <4>1. found[v] \in Listed /\ Matches(found[v], table[v][i].name)
          BY <2>1, <2>2, <2>3, <3>1 DEF Taken, Pending
        <4>2. Provided(v, i)  BY <4>1 DEF Provided
        <4> QED  BY <2>1, <4>2, <1>d
      <3>2. CASE ~Taken(v)
        <4>1. ClassOf[dev[v]] = table[v][i].class  BY <2>2, <2>3 DEF Pending
        <4>2. /\ classes' = ClassesBehind(ClassOf[dev[v]])
              /\ ClassOf[dev[v]] \notin classes'
          BY <1>3, <3>2 DEF RegisterFails, ldal_device_class_get
        <4>3. ClassOf[dev[v]] \notin Selectable
          BY <4>2 DEF ClassesBehind, ldal_device_class_get, ldal_device_class_set
        <4> QED  BY <2>1, <4>1, <4>2, <4>3 DEF Provided
      <3> QED  BY <3>1, <3>2
    <2> QED  BY <2>1, <2>3, <1>f DEF Creating, Adding
  <1>4. CASE RegisterFill(v)
    <2>1. /\ pc[v] = "found" /\ UNCHANGED <<table, entry, dev, want, found>>
          /\ pc'[v] = "add_lock" /\ name'[dev[v]] = Copied(name[dev[v]], want[v])
      BY <1>4, <1>a, <1>b DEF RegisterFill, local, creation, Adding
    <2>2. Pending(v) /\ name[dev[v]] = NoName  BY <2>1, <1>b DEF Adding, Pending
    <2>3. Copied(name[dev[v]], want[v]) = want[v]
      BY <2>2, RegistryAssumption DEF Copied
    <2>4. Pending(v)'  BY <2>1, <2>2, <2>3 DEF Pending
    <2> QED  BY <2>1, <2>4, <1>g DEF Adding
  <1>5. CASE AddLink(v)
    <2>1. /\ pc[v] = "add_link" /\ order' = Append(order, dev[v])
          /\ UNCHANGED <<table, entry, name>> /\ pc'[v] = "add_count"
      BY <1>5, <1>a DEF AddLink, objects, local, creation
    <2>2. Pending(v) /\ dev[v] \in Devices /\ name[dev[v]] = want[v]
      BY <2>1, <1>b DEF Adding, Pending
    <2>3. dev[v] \in Listed'  BY <2>1, <2>2, LinkedListed DEF IInv
    <2>4. ASSUME NEW i \in 1 .. Len(table[v]), i = entry[v] - 1  PROVE Provided(v, i)'
      <3>1. table[v][i].name \in Names
        <4>1. table[v] \in program.tables /\ program \in Programs
          BY <1>a DEF IInv, TypeOK
        <4>2. i \in Nat \ {0} /\ i <= Len(table[v])
          BY <2>4, <1>a
        <4> QED  BY <4>1, <4>2, EntryTypes
      <3>2. name'[dev[v]] = table[v][i].name  BY <2>1, <2>2, <2>4 DEF Pending
      <3>3. <<table[v][i].name, name'[dev[v]]>> \in PrefixOf
        BY <3>1, <3>2, RegistryAssumption
      <3> QED  BY <2>1, <2>3, <3>3 DEF Provided, Matches
    <2> QED  BY <2>1, <2>4, <1>f DEF Creating, Adding
  <1>6. CASE AddCount(v) \/ InitDevice(v) \/ RegisterDone(v)
    <2>1. /\ UNCHANGED <<table, entry>> /\ pc[v] \notin Adding
          /\ pc'[v] \in {"init", "done", "create"}
      BY <1>6, <1>a DEF AddCount, InitDevice, RegisterDone, Return, local, creation, Adding
    <2> QED  BY <2>1, <1>f DEF Creating, Adding
  <1>7. CASE CreateEntry(v)
    <2>1. /\ pc[v] = "create" /\ pc'[v] = "find_lock" /\ table' = table
          /\ entry'[v] = entry[v] + 1 /\ want'[v] = table[v][entry[v]].name
      BY <1>7, <1>a DEF CreateEntry
    <2>2. ClassOf[dev'[v]] = table[v][entry[v]].class /\ name'[dev'[v]] = NoName
      BY <1>7, <1>a DEF CreateEntry
    <2>3. entry[v] \in Nat /\ entry'[v] - 1 = entry[v]  BY <2>1, <1>a
    <2>4. Pending(v)'  BY <2>1, <2>2, <2>3 DEF Pending
    <2>5. ASSUME NEW i \in 1 .. Len(table[v]), i < entry[v]  PROVE Provided(v, i)'
      <3>1. i < entry[v] - 1 \/ i = entry[v] - 1  BY <2>3, <2>5
      <3> QED  BY <2>1, <3>1, <1>c, <1>d DEF Adding
    <2> QED  BY <2>1, <2>3, <2>4, <2>5 DEF Created, Creating, Adding
  <1>8. CASE CreateFails(v) \/ CreateReturns(v)
    <2>1. table'[v] = NoTable
      BY <1>8, <1>a DEF CreateFails, CreateReturns, CreateOver
    <2> QED  BY <2>1 DEF Created
  \* No other step begins in the middle of a table.
  <1>9. /\ ~GetByName(v) /\ ~ShowDeviceList(v) /\ ~GetByType(v) /\ ~ListDevice(v)
        /\ ~RegisterCall(v) /\ ~CreateCall(v) /\ ~UnregisterCall(v)
        /\ ~UnregisterRefused(v) /\ ~UnregisterGoesOn(v) /\ ~DelClear(v)
    BY <1>b DEF GetByName, ShowDeviceList, GetByType, ListDevice, RegisterCall, CreateCall,
                UnregisterCall, UnregisterRefused, UnregisterGoesOn, DelClear, Creating, Adding
  <1> QED
    BY <1>1, <1>2, <1>3, <1>4, <1>5, <1>6, <1>7, <1>8, <1>9 DEF Bystander

\* A thread outside ldal_device_create enters it at the first entry of a table.
LEMMA BeginsCreated ==
  ASSUME IInv, NEW v \in Threads, table[v] = NoTable, Bystander(v) \/ AddLink(v)
  PROVE  Created(v)'
  <1>a. /\ pc \in [Threads -> Labels] /\ entry \in [Threads -> Nat]
        /\ table \in [Threads -> program.tables \cup {NoTable}]
    BY DEF IInv, TypeOK
  <1>1. CASE CreateCall(v)
    <2>1. pc'[v] = "create" /\ entry'[v] = 1  BY <1>1, <1>a DEF CreateCall, Goto
    <2>2. \A i \in 1 .. Len(table'[v]) : ~(i < 1 - 1) /\ i # 1 - 1  OBVIOUS
    <2> QED  BY <2>1, <2>2 DEF Created, Creating, Adding
  <1>2. CASE CreateFails(v) \/ CreateReturns(v)
    <2>1. table'[v] = NoTable
      BY <1>2, <1>a DEF CreateFails, CreateReturns, CreateOver
    <2> QED  BY <2>1 DEF Created
  <1>3. CASE ~CreateCall(v) /\ ~CreateFails(v) /\ ~CreateReturns(v)
    <2>1. table' = table
      BY <1>3
      DEF Bystander, local, creation, GetByName, ShowDeviceList, GetByType, ListDevice,
          BeginLocked, Advance, Finish, RegisterCall, RegisterFails, RegisterFill, WriteLock,
          AddPrepare, AddLink, AddCount, InitDevice, RegisterDone, UnregisterCall,
          UnregisterRefused, UnregisterGoesOn, DelClear, CreateEntry
    <2> QED  BY <2>1 DEF Created
  <1> QED  BY <1>1, <1>2, <1>3

AllCreated == ~program.unregister => \A t \in Threads : Created(t)

LEMMA StepCreated == IInv /\ AllCreated /\ [Next]_vars => AllCreated'
  <1> SUFFICES ASSUME IInv, AllCreated, [Next]_vars, ~program'.unregister, NEW v \in Threads
               PROVE  Created(v)'
    BY DEF AllCreated
  <1>1. CASE UNCHANGED vars
    <2>1. Created(v)  BY <1>1 DEF AllCreated, vars
    <2> QED
      BY <1>1, <2>1 DEF vars, links, objects, local, creation, Created, Pending, Provided,
                        Listed, Matches
  <1>2. ASSUME NEW t \in Threads, Bystander(t) \/ AddLink(t) \/ DelUnlink(t)
        PROVE  Created(v)'
    <2>1. program' = program  BY <1>2, BystanderKeepsOrder DEF AddLink, DelUnlink
    <2>2. ~program.unregister /\ Created(v)  BY <2>1 DEF AllCreated
    <2>3. ~DelUnlink(t)  BY <2>2 DEF DelUnlink, IInv, LockHeld, Removing
    <2>4. CASE t # v  BY <1>2, <2>2, <2>3, <2>4, OtherCreated
    <2>5. CASE t = v
      <3>1. CASE table[v] # NoTable  BY <1>2, <2>2, <2>3, <2>5, <3>1, OwnCreated
      <3>2. CASE table[v] = NoTable  BY <1>2, <2>3, <2>5, <3>2, BeginsCreated
      <3> QED  BY <3>1, <3>2
    <2> QED  BY <2>4, <2>5
  <1> QED  BY <1>1, <1>2 DEF Next, Bystander

\* CreatedCanBeFound: in a program that unregisters no device, whatever its other threads
\* register meanwhile, a table that has been created leaves none of its names without a
\* device, unless for want of the class.
THEOREM TablesCreated == Spec => CreatedCanBeFound
  <1> DEFINE Answered ==
        \A t \in Threads :
          CreateReturns(t) /\ ~program.unregister =>
            \A i \in 1 .. Len(table[t]) :
              table[t][i].class \in classes =>
                \E d \in Listed : Matches(d, table[t][i].name)
  <1>1. Init => AllCreated  BY DEF Init, AllCreated, Created
  <1>2. IInv /\ AllCreated => Answered
    <2> SUFFICES ASSUME IInv, AllCreated, NEW t \in Threads, CreateReturns(t),
                        ~program.unregister, NEW i \in 1 .. Len(table[t]),
                        table[t][i].class \in classes
                 PROVE  \E d \in Listed : Matches(d, table[t][i].name)
      OBVIOUS
    <2>1. table[t] # NoTable /\ pc[t] = "create" /\ ~(entry[t] <= Len(table[t]))
      BY DEF CreateReturns, EntryLeft, IInv, Hands
    <2>2. entry[t] \in Nat /\ Len(table[t]) \in Nat
      <3>1. table[t] \in program.tables /\ program \in Programs /\ entry[t] \in Nat
        BY <2>1 DEF IInv, TypeOK
      <3>2. table[t] \in Seq([name : Names, class : Classes])
        BY <3>1, RegistryAssumption
      <3> QED  BY <3>1, <3>2, LenProperties
    <2>3. i < entry[t] - 1 \/ i = entry[t] - 1  BY <2>1, <2>2
    <2>4. Provided(t, i)  BY <2>1, <2>3 DEF AllCreated, Created, Adding
    <2> QED  BY <2>4 DEF Provided
  <1>3. IInv /\ AllCreated /\ [Next]_vars => [Answered]_vars  BY <1>2
  <1> HIDE DEF Answered
  <1>4. Spec => [][Answered]_vars
    BY <1>1, <1>3, StepCreated, RegistryInvariant, PTL DEF Spec
  <1> QED  BY <1>4 DEF Answered, CreatedCanBeFound
=============================================================================
