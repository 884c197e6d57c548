------------------------------ MODULE Registry ------------------------------
(***************************************************************************)
(* The device list of src/src/ldal.c: ldal_device_register,                *)
(* ldal_device_unregister and the lookups, over the doubly linked list of  *)
(* src/inc/list.h, pointer by pointer, under the read-write lock           *)
(* rwlock_dev.  ldal_device_get_by_type and list_device of src/src/        *)
(* server.c walk the same list with no lock (Unlocked).                    *)
(*                                                                         *)
(* An object is registered by one thread at a time, and not again until it *)
(* has been unregistered; so is it unregistered.  Nothing in the code      *)
(* checks this; the tests and ldal_device_create keep to it.  What else a  *)
(* program does with the list is in program.                               *)
(*                                                                         *)
(* The classes are a set: a class registered twice, by its constructor and *)
(* by ldal_device_class_set, is found like one registered once.            *)
(***************************************************************************)
EXTENDS Integers, Sequences

CONSTANTS
  Threads,
  Devices,        \* the objects that calloc'ed device structures are
  Names,          \* device names
  PrefixOf,       \* the pairs <<p, n>> of names such that p is a prefix of n
  Classes, ClassOf,  \* the class each object belongs to
  Selectable,     \* the classes ldal_device_class_set has a case for
  Programs,       \* what programs there are: records, see program
  ListHead, Null, NoThread, NoName, NoTable

ASSUME RegistryAssumption ==
  /\ PrefixOf \subseteq Names \X Names
  /\ \A n \in Names : <<n, n>> \in PrefixOf
  /\ \A l, m, n \in Names :
       <<l, m>> \in PrefixOf /\ <<m, n>> \in PrefixOf => <<l, n>> \in PrefixOf
  /\ ClassOf \in [Devices -> Classes]
  /\ Selectable \subseteq Classes
  /\ \A p \in Programs :
       /\ p.unregister \in BOOLEAN /\ p.unlocked \in BOOLEAN /\ p.together \in BOOLEAN
       /\ p.tables \subseteq Seq([name : Names, class : Classes])
       /\ NoTable \notin p.tables
  /\ ListHead \notin Devices /\ Null \notin Devices /\ ListHead # Null
  /\ NoThread \notin Threads /\ NoName \notin Names

VARIABLES
  program,           \* which of these calls the program makes: devices are
                     \* unregistered; get_by_type and list_device are called;
                     \* several threads register at once; the tables it creates
  next, prev,        \* the list_head of each device and of the list
  g_device_num,
  classes,           \* the classes in ldal_device_class_list
  readers, writer,   \* rwlock_dev
  name, is_init,     \* device->name, device->is_init
  ready,             \* the devices whose class init callback has run
  pc,                \* where each thread is
  dev,               \* the object a thread registers or unregisters
  want,              \* the name, or the class, a thread looks for
  cur,               \* the node its traversal has reached
  found,             \* what the duplicate check returned
  table, entry,      \* the table it creates devices of, and how far it has got
  order              \* ghost: the list as a sequence of devices

links == <<next, prev, g_device_num, order>>
locks == <<readers, writer>>
objects == <<classes, name, is_init, ready>>
creation == <<table, entry>>
local == <<dev, want, cur, found, creation>>
vars == <<program, links, locks, objects, pc, local>>

Nodes == Devices \cup {ListHead}
Listed == {order[i] : i \in 1 .. Len(order)}

\* strncmp(device->name, asked, strlen(asked)) == 0
Matches(d, asked) == <<asked, name[d]>> \in PrefixOf

Goto(t, l) == pc' = [pc EXCEPT ![t] = l]

\* A call is over; one made by ldal_device_create returns to it.
Return(t) ==
  /\ Goto(t, IF table[t] = NoTable THEN "idle" ELSE "create")
  /\ dev' = [dev EXCEPT ![t] = Null]
  /\ want' = [want EXCEPT ![t] = NoName]
  /\ found' = [found EXCEPT ![t] = Null]

\* Objects are handed out by calloc; constructors have registered some classes.
Init ==
  /\ program \in Programs
  /\ next = [n \in Nodes |-> IF n = ListHead THEN ListHead ELSE Null]
  /\ prev = next
  /\ g_device_num = 0 /\ order = << >>
  /\ classes \in SUBSET Classes
  /\ readers = {} /\ writer = NoThread
  /\ name = [d \in Devices |-> NoName]
  /\ is_init = [d \in Devices |-> FALSE]
  /\ ready = {}
  /\ pc = [t \in Threads |-> "idle"]
  /\ dev = [t \in Threads |-> Null]
  /\ want = [t \in Threads |-> NoName]
  /\ cur = [t \in Threads |-> ListHead]
  /\ found = [t \in Threads |-> Null]
  /\ table = [t \in Threads |-> NoTable]
  /\ entry = [t \in Threads |-> 0]

-----------------------------------------------------------------------------
(* pthread_rwlock_t                                                         *)

\* Seeded fault: a reader does not wait for the writer.
ReadersEnter == TRUE
\* Seeded fault: the writer waits for nobody.
WritersEnter == TRUE

ReadersMayEnter == writer = NoThread
WriterMayEnter == writer = NoThread /\ readers = {}

-----------------------------------------------------------------------------
(* Traversals: list_for_each_entry, one node per step.  The label says who  *)
(* walks: "find" for ldal_device_register's duplicate check, "get" for      *)
(* ldal_device_get_by_name, "show" for ldal_show_device_list, all under the *)
(* read lock; "type" for ldal_device_get_by_type, "list" for list_device,   *)
(* under none.                                                              *)

Lookups == {"find", "get"}
Locked == Lookups \cup {"show"}
Walks == Locked \cup {"type", "list"}

Behind == [find_lock |-> "find", get_lock |-> "get", show_lock |-> "show"]

BeginLocked(t) ==
  /\ pc[t] \in DOMAIN Behind /\ ReadersMayEnter
  /\ readers' = readers \cup {t}
  /\ cur' = [cur EXCEPT ![t] = next[ListHead]]
  /\ Goto(t, Behind[pc[t]])
  /\ UNCHANGED <<program, links, writer, objects, dev, want, found, creation>>

\* The body of the loop: does the traversal of thread t stop at device d?
StopsAt(t, d) ==
  CASE pc[t] \in Lookups -> Matches(d, want[t])
    [] pc[t] = "type" -> ClassOf[d] = want[t]
    [] OTHER -> FALSE

\* Seeded fault: the loop ends at NULL, which a ring has not.
AtNull(t) == cur[t] = Null

AtEnd(t) == cur[t] = ListHead

\* A pointer that is NULL is followed no further: the program has crashed.
Advance(t) ==
  /\ pc[t] \in Walks /\ cur[t] # Null /\ ~AtEnd(t)
  /\ cur[t] \in Devices => ~StopsAt(t, cur[t])
  /\ cur' = [cur EXCEPT ![t] = next[cur[t]]]
  /\ UNCHANGED <<program, links, locks, objects, pc, dev, want, found, creation>>

Result(t) == IF AtEnd(t) THEN Null ELSE cur[t]

\* The return inside the loop and the one behind it, both unlock first.
Finish(t) ==
  /\ pc[t] \in Walks
  /\ \/ AtEnd(t)
     \/ cur[t] \in Devices /\ StopsAt(t, cur[t])
  /\ readers' = readers \ {t}
  /\ cur' = [cur EXCEPT ![t] = ListHead]
  /\ IF pc[t] = "find" THEN /\ found' = [found EXCEPT ![t] = Result(t)]
                           /\ Goto(t, "found")
                           /\ UNCHANGED <<dev, want>>
                      ELSE Return(t)
  /\ UNCHANGED <<program, links, writer, objects, creation>>

GetByName(t) ==
  /\ pc[t] = "idle"
  /\ \E n \in Names : want' = [want EXCEPT ![t] = n]
  /\ Goto(t, "get_lock")
  /\ UNCHANGED <<program, links, locks, objects, dev, cur, found, creation>>

ShowDeviceList(t) ==
  /\ pc[t] = "idle"
  /\ Goto(t, "show_lock")
  /\ UNCHANGED <<program, links, locks, objects, local>>

\* The name is compared, and any device of the class returned.
GetByType(t) ==
  /\ program.unlocked /\ pc[t] = "idle"
  /\ \E c \in Classes : want' = [want EXCEPT ![t] = c]
  /\ cur' = [cur EXCEPT ![t] = next[ListHead]]
  /\ Goto(t, "type")
  /\ UNCHANGED <<program, links, locks, objects, dev, found, creation>>

ListDevice(t) ==
  /\ program.unlocked /\ pc[t] = "idle"
  /\ cur' = [cur EXCEPT ![t] = next[ListHead]]
  /\ Goto(t, "list")
  /\ UNCHANGED <<program, links, locks, objects, dev, want, found, creation>>

-----------------------------------------------------------------------------
(* The classes                                                              *)

ldal_device_class_get(c, cs) == c \in cs

\* The switch knows every class but the backlight's.
ldal_device_class_set(c) == classes \cup ({c} \cap Selectable)

ClassesBehind(c) ==
  IF ldal_device_class_get(c, classes) THEN classes ELSE ldal_device_class_set(c)

-----------------------------------------------------------------------------
(* ldal_device_register                                                     *)

Attended(d) == \E t \in Threads : dev[t] = d

\* One thread at a time registers devices, unless the program says otherwise.
MayRegister(t) ==
  program.together \/ \A u \in Threads \ {t} : dev[u] = Null /\ table[u] = NoTable

RegisterCall(t) ==
  /\ pc[t] = "idle" /\ MayRegister(t)
  /\ \E d \in Devices \ Listed :
       ~Attended(d) /\ dev' = [dev EXCEPT ![t] = d]
  /\ \E n \in Names : want' = [want EXCEPT ![t] = n]
  /\ Goto(t, "find_lock")
  /\ UNCHANGED <<program, links, locks, objects, cur, found, creation>>

\* Seeded fault: the duplicate check is made and not looked at.
NeverTaken(t) == FALSE

Taken(t) == found[t] # Null

\* A name already taken, or a class nobody can provide: is_init is cleared and
\* the call returns LDAL_EOK (line 379) all the same.
RegisterFails(t) ==
  /\ pc[t] = "found"
  /\ \/ Taken(t) /\ UNCHANGED classes
     \/ ~Taken(t) /\ classes' = ClassesBehind(ClassOf[dev[t]])
        /\ ~ldal_device_class_get(ClassOf[dev[t]], classes')
  /\ is_init' = [is_init EXCEPT ![dev[t]] = FALSE]
  /\ Return(t)
  /\ UNCHANGED <<program, links, locks, name, ready, cur, creation>>

\* memcpy of strlen(new) characters: an object registered before keeps the end
\* of a longer name.  (Names of which neither is a prefix of the other are of
\* one length here.)
Copied(old, new) == IF <<new, old>> \in PrefixOf THEN old ELSE new

\* The fields of the object are set and its list node points to itself.
RegisterFill(t) ==
  /\ pc[t] = "found" /\ ~Taken(t)
  /\ classes' = ClassesBehind(ClassOf[dev[t]])
  /\ ldal_device_class_get(ClassOf[dev[t]], classes')
  /\ name' = [name EXCEPT ![dev[t]] = Copied(@, want[t])]
  /\ next' = [next EXCEPT ![dev[t]] = dev[t]]
  /\ prev' = [prev EXCEPT ![dev[t]] = dev[t]]
  /\ Goto(t, "add_lock")
  /\ UNCHANGED <<program, g_device_num, order, locks, is_init, ready, local>>

WriteLock(t) ==
  /\ pc[t] \in {"add_lock", "del_lock"} /\ WriterMayEnter
  /\ writer' = t
  /\ Goto(t, IF pc[t] = "add_lock" THEN "add" ELSE "del")
  /\ UNCHANGED <<program, links, readers, objects, local>>

\* Seeded fault: the predecessor is linked to the node before the node to its
\* successor.
LinksFirst(t) ==
  /\ pc[t] = "add"
  /\ prev' = [prev EXCEPT ![ListHead] = dev[t], ![dev[t]] = prev[ListHead]]
  /\ next' = [next EXCEPT ![prev[ListHead]] = dev[t]]
  /\ Goto(t, "add_link") /\ UNCHANGED <<program, g_device_num, order, locks, objects, local>>
\* The first three assignments of __list_add: the node points at its
\* neighbours, which a forward traversal cannot see yet.
AddPrepare(t) ==
  /\ pc[t] = "add"
  /\ prev' = [prev EXCEPT ![ListHead] = dev[t], ![dev[t]] = prev[ListHead]]
  /\ next' = [next EXCEPT ![dev[t]] = ListHead]
  /\ Goto(t, "add_link")
  /\ UNCHANGED <<program, g_device_num, order, locks, objects, local>>

\* prev->next = new: from here on the device is in the list.
AddLink(t) ==
  /\ pc[t] = "add_link"
  /\ next' = [next EXCEPT ![prev[dev[t]]] = dev[t]]
  /\ order' = Append(order, dev[t])
  /\ Goto(t, "add_count")
  /\ UNCHANGED <<program, prev, g_device_num, locks, objects, local>>

AddCount(t) ==
  /\ pc[t] = "add_count"
  /\ g_device_num' = g_device_num + 1
  /\ writer' = NoThread
  /\ Goto(t, "init")
  /\ UNCHANGED <<program, next, prev, order, readers, objects, local>>

\* Seeded fault: the callback is not called.
SkipsInit(t) ==
  /\ pc[t] = "init" /\ Goto(t, "done")
  /\ UNCHANGED <<program, links, locks, objects, local>>

\* device_ops->init runs after the device can be found; its result is dropped.
InitDevice(t) ==
  /\ pc[t] = "init"
  /\ ready' = ready \cup {dev[t]}
  /\ Goto(t, "done")
  /\ UNCHANGED <<program, links, locks, classes, name, is_init, local>>

RegisterDone(t) ==
  /\ pc[t] = "done"
  /\ is_init' = [is_init EXCEPT ![dev[t]] = TRUE]
  /\ Return(t)
  /\ UNCHANGED <<program, links, locks, classes, name, ready, cur, creation>>

-----------------------------------------------------------------------------
(* ldal_device_unregister.  ref > 0 is tested before the lock; whether it   *)
(* is positive is for DeviceLifecycle to say, here it may or may not be.    *)

UnregisterCall(t) ==
  /\ program.unregister /\ pc[t] = "idle"
  /\ \E d \in Listed : ~Attended(d) /\ dev' = [dev EXCEPT ![t] = d]
  /\ Goto(t, "unreg")
  /\ UNCHANGED <<program, links, locks, objects, want, cur, found, creation>>

UnregisterRefused(t) ==
  /\ pc[t] = "unreg"
  /\ Return(t)
  /\ UNCHANGED <<program, links, locks, objects, cur, creation>>

UnregisterGoesOn(t) ==
  /\ pc[t] = "unreg"
  /\ Goto(t, "del_lock")
  /\ UNCHANGED <<program, links, locks, objects, local>>

\* s without its i-th element.
Without(s, i) == SubSeq(s, 1, i - 1) \o SubSeq(s, i + 1, Len(s))

\* __list_del
DelUnlink(t) ==
  /\ pc[t] = "del"
  /\ prev' = [prev EXCEPT ![next[dev[t]]] = prev[dev[t]]]
  /\ next' = [next EXCEPT ![prev[dev[t]]] = next[dev[t]]]
  /\ \E i \in 1 .. Len(order) : order[i] = dev[t] /\ order' = Without(order, i)
  /\ Goto(t, "del_clear")
  /\ UNCHANGED <<program, g_device_num, locks, objects, local>>

\* The rest of list_del; the count; the unlock.  is_init and name stay.
DelClear(t) ==
  /\ pc[t] = "del_clear"
  /\ next' = [next EXCEPT ![dev[t]] = Null]
  /\ prev' = [prev EXCEPT ![dev[t]] = Null]
  /\ g_device_num' = g_device_num - 1
  /\ writer' = NoThread
  /\ Return(t)
  /\ UNCHANGED <<program, order, readers, classes, name, is_init, ready, cur, creation>>

-----------------------------------------------------------------------------
(* ldal_device_create.  What ldal_device_register made of an entry is       *)
(* dropped: only a failing calloc ends the loop early.                      *)

CreateCall(t) ==
  /\ pc[t] = "idle" /\ MayRegister(t)
  /\ \E tbl \in program.tables : table' = [table EXCEPT ![t] = tbl]
  /\ entry' = [entry EXCEPT ![t] = 1]
  /\ Goto(t, "create")
  /\ UNCHANGED <<program, links, locks, objects, dev, want, cur, found>>

\* Seeded fault: the last entry is left out.
LastLeftOut(t) == entry[t] < Len(table[t])

EntryLeft(t) == entry[t] <= Len(table[t])

\* A new object, zeroed, of the class that the entry names.
CreateEntry(t) ==
  /\ pc[t] = "create" /\ EntryLeft(t)
  /\ \E d \in Devices \ Listed :
       /\ ~Attended(d) /\ ClassOf[d] = table[t][entry[t]].class
       /\ dev' = [dev EXCEPT ![t] = d]
       /\ name' = [name EXCEPT ![d] = NoName]
       /\ is_init' = [is_init EXCEPT ![d] = FALSE]
       /\ ready' = ready \ {d}
  /\ want' = [want EXCEPT ![t] = table[t][entry[t]].name]
  /\ entry' = [entry EXCEPT ![t] = @ + 1]
  /\ Goto(t, "find_lock")
  /\ UNCHANGED <<program, links, locks, classes, cur, found, table>>

CreateOver(t) ==
  /\ table' = [table EXCEPT ![t] = NoTable]
  /\ entry' = [entry EXCEPT ![t] = 0]
  /\ Goto(t, "idle")
  /\ UNCHANGED <<program, links, locks, objects, dev, want, cur, found>>

\* -LDAL_ENOMEM: the devices created so far stay.
CreateFails(t) == pc[t] = "create" /\ EntryLeft(t) /\ CreateOver(t)
CreateReturns(t) == pc[t] = "create" /\ ~EntryLeft(t) /\ CreateOver(t)

Next ==
  \E t \in Threads :
    \/ GetByName(t) \/ ShowDeviceList(t) \/ GetByType(t) \/ ListDevice(t)
    \/ BeginLocked(t) \/ Advance(t) \/ Finish(t)
    \/ RegisterCall(t) \/ RegisterFails(t) \/ RegisterFill(t) \/ WriteLock(t)
    \/ AddPrepare(t) \/ AddLink(t) \/ AddCount(t)
    \/ InitDevice(t) \/ RegisterDone(t)
    \/ UnregisterCall(t) \/ UnregisterRefused(t) \/ UnregisterGoesOn(t)
    \/ DelUnlink(t) \/ DelClear(t)
    \/ CreateCall(t) \/ CreateEntry(t) \/ CreateFails(t) \/ CreateReturns(t)

Spec == Init /\ [][Next]_vars

\* A thread that walks the list runs on; nothing is asked of the lock.
FairSpec == Spec /\ \A t \in Threads : WF_vars(Advance(t) \/ Finish(t))

-----------------------------------------------------------------------------
(* Properties                                                               *)

Labels == Walks \cup
  {"idle", "create", "get_lock", "find_lock", "show_lock", "found", "add_lock", "add", "add_link",
   "add_count", "init", "done", "unreg", "del_lock", "del", "del_clear"}

\* Every variable has its type.
TypeOK ==
  /\ program \in Programs
  /\ next \in [Nodes -> Nodes \cup {Null}] /\ prev \in [Nodes -> Nodes \cup {Null}]
  /\ g_device_num \in Int
  /\ order \in Seq(Devices)
  /\ classes \subseteq Classes
  /\ readers \subseteq Threads /\ writer \in Threads \cup {NoThread}
  /\ name \in [Devices -> Names \cup {NoName}]
  /\ is_init \in [Devices -> BOOLEAN]
  /\ ready \subseteq Devices
  /\ pc \in [Threads -> Labels]
  /\ dev \in [Threads -> Devices \cup {Null}]
  /\ want \in [Threads -> Names \cup Classes \cup {NoName}]
  /\ cur \in [Threads -> Nodes \cup {Null}]
  /\ found \in [Threads -> Devices \cup {Null}]
  /\ table \in [Threads -> program.tables \cup {NoTable}]
  /\ entry \in [Threads -> Nat]

\* The node in place i of the ring that begins and ends at the head.
Node(i) == IF i \in 1 .. Len(order) THEN order[i] ELSE ListHead

\* While nobody holds the write lock the pointers of the list are a ring
\* through exactly the listed devices, backwards too, and the count agrees.
ListWellFormed ==
  writer = NoThread =>
    /\ \A i \in 0 .. Len(order) : /\ next[Node(i)] = Node(i + 1)
                                  /\ prev[Node(i + 1)] = Node(i)
    /\ \A i, j \in 1 .. Len(order) : order[i] = order[j] => i = j
    /\ g_device_num = Len(order)

\* No traversal is led to a node outside the list, such as one that list_del
\* has cut off (list.h:83-88, list.h:104-107).
TraversalOnList ==
  \A t \in Threads : pc[t] \in Walks => cur[t] \in Listed \cup {ListHead}

\* A locked lookup that returns NULL is right about the whole list at that
\* moment: nothing in it matches.  One that returns a device returns a listed
\* one (ldal.c:150-167, 331).
LookupExact ==
  [][\A t \in Threads :
       pc[t] \in Lookups /\ Finish(t) =>
         IF Result(t) = Null THEN \A d \in Listed : ~Matches(d, want[t])
                             ELSE Result(t) \in Listed]_vars

\* As long as one thread registers at a time, a device is what a lookup of its
\* own name finds, although names are compared up to the length of the shorter:
\* a longer name in front of it would have blocked its registration, a shorter
\* one does not match (ldal.c:160, 331).
OwnNameFound ==
  ~program.together =>
    \A i \in 1 .. Len(order) : \A j \in 1 .. i - 1 : ~Matches(order[j], name[order[i]])

\* A table that has been created can be used by its names: unless a device is
\* unregistered again, each entry whose class there is finds some device,
\* although nobody looked at what became of its registration (ldal.c:416-576).
CreatedCanBeFound ==
  [][\A t \in Threads :
       CreateReturns(t) /\ ~program.unregister =>
         \A i \in 1 .. Len(table[t]) :
           table[t][i].class \in classes =>
             \E d \in Listed : Matches(d, table[t][i].name)]_vars

\* A device that startup_device accepts has been through its class's init
\* callback: is_init is published last.
InitBeforeUse == \A d \in Devices : is_init[d] => d \in ready

\* Every traversal comes to an end.
TraversalsEnd == \A t \in Threads : pc[t] \in Walks ~> pc[t] \notin Walks

\* README.md gives the list a read-write lock, so that a node taken out by one
\* thread is not walked by another: no traversal reaches the NULL of list_del.
NeverFollowsNull == \A t \in Threads : pc[t] \in Walks => cur[t] # Null
=============================================================================
