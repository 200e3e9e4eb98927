------------------------------- MODULE Devices -------------------------------
(***************************************************************************)
(* The device manager: the one DevMgr that every call of the C frontend    *)
(* asks for first, its map of devices, and what the functions of           *)
(* tdi_init_c.cpp hand out from it.                                        *)
(*                                                                         *)
(* getInstance tests a plain pointer before it takes its mutex and again   *)
(* under it.  The map has no lock: one thread, the driver, adds and        *)
(* removes devices, and other threads look them up meanwhile.  What a       *)
(* lookup gives is the address of a device the map owns.                   *)
(***************************************************************************)
EXTENDS Naturals, FiniteSets

CONSTANTS
  Thread,           \* threads of the application and of the driver
  DevId,            \* device ids
  Program,          \* names of P4 programs
  Addr,             \* where the allocator may put a device
  Calls,            \* thread -> the functions it calls
  Null,
  Stale             \* a handle to a device that has been removed

\* One thread, the driver, adds and removes devices.
ASSUME CallsAssumption ==
  \A t, u \in Thread :
    Calls[t] \intersect {"add", "remove"} # {} /\
    Calls[u] \intersect {"add", "remove"} # {} => t = u

\* Counts of a map's elements are compared, so the maps are finite.
ASSUME FiniteAssumption == IsFiniteSet(DevId) /\ IsFiniteSet(Program)

VARIABLES
  instance,         \* dev_mgr_instance: the thread that made it, or Null
  built,            \* the constructor's writes have been made
  mutex,            \* dev_mgr_instance_mutex: the thread that holds it
  got,              \* the manager a thread has a reference to
  pc,               \* where a thread is in its call
  call,             \* the call a thread makes: function and device id
  devMap,           \* dev_map_
  heap,             \* what is at an address: a device or Null
  ptr,              \* the device a running call works on
  hdl,              \* the device or TdiInfo handle the application holds
  room              \* the array the application made for a list

mgrVars == <<instance, built, mutex>>
vars == <<mgrVars, got, pc, call, devMap, heap, ptr, hdl, room>>

-----------------------------------------------------------------------------

Function == {"add", "remove", "device", "info", "num", "list", "numNames", "names"}

Call == [fn : Function, id : DevId]

\* A program of a device has no TdiInfo, or one that could not be made
\* (makeTdiInfo answers a null pointer), or a good one.
Device == [id : DevId, infos : [Program -> {"absent", "null", "info"}]]

\* An address and the device that was found there.  "lost" is history: that
\* device has been removed since.
Pointer == [addr : Addr, id : DevId, lost : BOOLEAN]
Handle == [addr : Addr, id : DevId]

\* An array for the names of device "of", or for the ids if that is Null, of
\* n elements, of which "filled" have been written.  "changed" is history:
\* what is listed has changed since it was counted.
Room == [of : DevId \union {Null}, n : Nat, filled : Nat \union {Null},
         changed : BOOLEAN]

ASSUME NullAssumption ==
  /\ Null \notin Thread /\ Null \notin DevId /\ Null \notin Addr
  /\ Null \notin Device /\ Null \notin Pointer /\ Null \notin Room
  /\ Null \notin Nat /\ Null \notin Call /\ Null \notin Handle
  /\ Stale # Null /\ Stale \notin Handle

\* In "undefined" a thread has used a manager that is not constructed yet,
\* a map that another thread changes, or a device that is gone: anything may
\* happen to it.
PC == {"idle", "test", "lock", "locked", "new", "unlock", "body", "insert",
       "erase", "inDevice", "undefined"}

\* The programs p4NamesGet lists.
Names(device) == {p \in Program : device.infos[p] # "absent"}

Ids == {d \in DevId : devMap[d] # Null}

Init ==
  /\ instance = Null
  /\ built = FALSE
  /\ mutex = Null
  /\ got = [t \in Thread |-> Null]
  /\ pc = [t \in Thread |-> "idle"]
  /\ call = [t \in Thread |-> Null]
  /\ devMap = [d \in DevId |-> Null]
  /\ heap = [a \in Addr |-> Null]
  /\ ptr = [t \in Thread |-> Null]
  /\ hdl = [t \in Thread |-> Null]
  /\ room = [t \in Thread |-> Null]

Goto(t, label) ==
  /\ pc' = [pc EXCEPT ![t] = label]
  /\ UNCHANGED <<got, call>>

\* getInstance returns a reference to the manager.
Proceed(t) ==
  /\ pc' = [pc EXCEPT ![t] = "body"]
  /\ got' = [got EXCEPT ![t] = instance]
  /\ UNCHANGED call

\* The call returns, and its locals are gone.
Leave(t) ==
  /\ pc' = [pc EXCEPT ![t] = "idle"]
  /\ got' = [got EXCEPT ![t] = Null]
  /\ call' = [call EXCEPT ![t] = Null]

Return(t) == Leave(t) /\ ptr' = [ptr EXCEPT ![t] = Null]

-----------------------------------------------------------------------------

(***************************************************************************)
(* getInstance.                                                            *)
(***************************************************************************)

\* A call begins.  The application fills the array it made last, or drops it.
Begin(t, fn, d) ==
  LET fills == \/ fn = "list" /\ room[t] # Null /\ room[t].of = Null
               \/ fn = "names" /\ room[t] # Null /\ room[t].of = d
  IN  /\ pc[t] = "idle"
      /\ fn \in Calls[t]
      /\ fn \in {"list", "names"} => fills
      /\ room' = IF fills THEN room ELSE [room EXCEPT ![t] = Null]
      /\ call' = [call EXCEPT ![t] = [fn |-> fn, id |-> d]]
      /\ pc' = [pc EXCEPT ![t] = "test"]
      /\ UNCHANGED <<mgrVars, got, devMap, heap, ptr, hdl>>

\* What getInstance leaves alone.
deviceVars == <<devMap, heap, ptr, hdl, room>>

\* The test without the mutex.  The pointer is not atomic: it may be seen,
\* and returned, before what the constructor writes.
TestInstance(t) ==
  /\ pc[t] = "test"
  /\ \/ instance = Null /\ Goto(t, "lock")
     \/ instance # Null /\ Proceed(t)
  /\ UNCHANGED <<mgrVars, deviceVars>>

LockInstance(t) ==
  /\ pc[t] = "lock"
  /\ mutex = Null
  /\ mutex' = t
  /\ Goto(t, "locked")
  /\ UNCHANGED <<instance, built, deviceVars>>

\* Mutation: the pointer is not tested again under the mutex.
TestAgain_Skipped(t) ==
  /\ pc[t] = "locked"
  /\ Goto(t, "new")
  /\ UNCHANGED <<mgrVars, deviceVars>>

TestAgain(t) ==
  /\ pc[t] = "locked"
  /\ Goto(t, IF instance = Null THEN "new" ELSE "unlock")
  /\ UNCHANGED <<mgrVars, deviceVars>>

\* new DevMgr() and the assignment: nothing orders the constructor's writes
\* before that of the pointer.
Construct(t) ==
  /\ pc[t] = "new"
  /\ ~built
  /\ built' = TRUE
  /\ UNCHANGED <<instance, mutex, got, pc, call, deviceVars>>

Publish(t) ==
  /\ pc[t] = "new"
  /\ instance # t
  /\ instance' = t
  /\ UNCHANGED <<built, mutex, got, pc, call, deviceVars>>

MayUnlock(t) == pc[t] = "unlock" \/ (pc[t] = "new" /\ built /\ instance = t)

\* Mutation: the thread that makes the manager keeps the mutex.
Unlock_OnlyFinder(t) ==
  /\ MayUnlock(t)
  /\ mutex' = IF pc[t] = "unlock" THEN Null ELSE mutex
  /\ Proceed(t)
  /\ UNCHANGED <<instance, built, deviceVars>>

Unlock(t) ==
  /\ MayUnlock(t)
  /\ mutex' = Null
  /\ Proceed(t)
  /\ UNCHANGED <<instance, built, deviceVars>>

-----------------------------------------------------------------------------

(***************************************************************************)
(* The map of devices.                                                     *)
(***************************************************************************)

At(t, fn) == pc[t] = "body" /\ built /\ call[t].fn = fn
Id(t) == call[t].id

\* The thread in hand goes on in a state nobody can tell.
Undefined(t) ==
  /\ Goto(t, "undefined")
  /\ ptr' = [ptr EXCEPT ![t] = Null]
  /\ UNCHANGED <<mgrVars, devMap, heap, hdl, room>>

\* The call goes on with a manager that is not constructed yet.
Unready(t) == pc[t] = "body" /\ ~built /\ Undefined(t)

\* A lookup in the map while the driver writes to it.
Torn(t) ==
  /\ pc[t] = "body"
  /\ \E u \in Thread \ {t} : pc[u] \in {"insert", "erase"}
  /\ Undefined(t)

\* Pointers and handles to device d, and arrays for lists it is in, are
\* marked.
LosePointers(d) ==
  [t \in Thread |-> IF ptr[t] # Null /\ ptr[t].id = d
                      THEN [ptr[t] EXCEPT !.lost = TRUE] ELSE ptr[t]]
LoseHandles(d) ==
  [t \in Thread |-> IF hdl[t] \in Handle /\ hdl[t].id = d THEN Stale ELSE hdl[t]]
Change(d) ==
  [t \in Thread |-> IF room[t] # Null /\ room[t].of \in {Null, d}
                      THEN [room[t] EXCEPT !.changed = TRUE] ELSE room[t]]

\* Mutation: a device that exists is added again.
AddTest_Skipped(t) ==
  /\ At(t, "add")
  /\ Goto(t, "insert")
  /\ UNCHANGED <<mgrVars, deviceVars>>

\* deviceAdd answers TDI_ALREADY_EXISTS for a device the map has.
AddTest(t) ==
  /\ At(t, "add")
  /\ \/ devMap[Id(t)] = Null /\ Goto(t, "insert") /\ UNCHANGED ptr
     \/ devMap[Id(t)] # Null /\ Return(t)
  /\ UNCHANGED <<mgrVars, devMap, heap, hdl, room>>

\* The device is constructed, with the TdiInfos of its programs, and goes
\* into the map; what the entry held before is destroyed.
Insert(t) ==
  /\ pc[t] = "insert"
  /\ \E a \in Addr : \E device \in Device :
       /\ heap[a] = Null
       /\ device.id = Id(t)
       /\ heap' = [x \in Addr |-> IF x = a THEN device
                                  ELSE IF x = devMap[Id(t)] THEN Null ELSE heap[x]]
       /\ devMap' = [devMap EXCEPT ![Id(t)] = a]
  /\ room' = Change(Id(t))
  /\ Return(t)
  /\ UNCHANGED <<mgrVars, hdl>>

\* deviceRemove answers TDI_SUCCESS whether there is a device or not.
RemoveTest(t) ==
  /\ At(t, "remove")
  /\ \/ devMap[Id(t)] = Null /\ Return(t)
     \/ devMap[Id(t)] # Null /\ Goto(t, "erase") /\ UNCHANGED ptr
  /\ UNCHANGED <<mgrVars, devMap, heap, hdl, room>>

\* The entry goes, and the device with it.
Erase(t) ==
  /\ pc[t] = "erase"
  /\ heap' = [heap EXCEPT ![devMap[Id(t)]] = Null]
  /\ devMap' = [devMap EXCEPT ![Id(t)] = Null]
  /\ ptr' = LosePointers(Id(t))
  /\ hdl' = LoseHandles(Id(t))
  /\ room' = Change(Id(t))
  /\ Leave(t)
  /\ UNCHANGED mgrVars

\* tdi_device_get: the handle is null if there is no device.
DeviceGet(t) ==
  LET a == devMap[Id(t)]
      handle == IF a = Null THEN Null ELSE [addr |-> a, id |-> Id(t)]
  IN  /\ At(t, "device")
      /\ hdl' = [hdl EXCEPT ![t] = handle]
      /\ Return(t)
      /\ UNCHANGED <<mgrVars, devMap, heap, room>>

\* Mutation: the status of deviceGet is not looked at.
FindDevice_Unchecked(t) ==
  /\ pc[t] = "body" /\ built
  /\ call[t].fn \in {"info", "numNames", "names"}
  /\ Goto(t, "inDevice")
  /\ ptr' = [ptr EXCEPT ![t] = [addr |-> devMap[Id(t)], id |-> Id(t), lost |-> FALSE]]
  /\ UNCHANGED <<mgrVars, devMap, heap, hdl, room>>

\* tdi_info_get and the functions about program names get the device first
\* and return if there is none.
FindDevice(t) ==
  LET found == [addr |-> devMap[Id(t)], id |-> Id(t), lost |-> FALSE]
  IN  /\ pc[t] = "body" /\ built
      /\ call[t].fn \in {"info", "numNames", "names"}
      /\ \/ devMap[Id(t)] = Null /\ Return(t)
         \/ /\ devMap[Id(t)] # Null
            /\ Goto(t, "inDevice")
            /\ ptr' = [ptr EXCEPT ![t] = found]
      /\ UNCHANGED <<mgrVars, devMap, heap, hdl, room>>

\* The call goes on in the device, whatever has become of it.
In(t, fn) ==
  /\ pc[t] = "inDevice"
  /\ call[t].fn = fn
  /\ heap[ptr[t].addr] # Null

Dangle(t) ==
  /\ pc[t] = "inDevice"
  /\ ptr[t].lost
  /\ Undefined(t)

\* Device::tdiInfoGet: the handle stays as it was if the device does not
\* have the program.  It is null if the TdiInfo could not be made.
InfoGet(t, p) ==
  LET info == heap[ptr[t].addr].infos[p]
      handle == IF info = "null" THEN Null
                ELSE IF ptr[t].lost THEN Stale
                ELSE [addr |-> ptr[t].addr, id |-> Id(t)]
  IN  /\ In(t, "info")
      /\ hdl' = IF info = "absent" THEN hdl ELSE [hdl EXCEPT ![t] = handle]
      /\ Return(t)
      /\ UNCHANGED <<mgrVars, devMap, heap, room>>

-----------------------------------------------------------------------------

(***************************************************************************)
(* Lists take two calls: one for the number of elements, for which the     *)
(* application makes an array, and one that fills the array.               *)
(***************************************************************************)

MakeRoom(t, of, n, changed) ==
  /\ room' = [room EXCEPT ![t] =
       [of |-> of, n |-> n, filled |-> Null, changed |-> changed]]
  /\ Return(t)
  /\ UNCHANGED <<mgrVars, devMap, heap, hdl>>

Fill(t, n) ==
  /\ room' = [room EXCEPT ![t].filled = n]
  /\ Return(t)
  /\ UNCHANGED <<mgrVars, devMap, heap, hdl>>

NumDeviceIds(t) ==
  /\ At(t, "num")
  /\ MakeRoom(t, Null, Cardinality(Ids), FALSE)

DeviceIds(t) ==
  /\ At(t, "list")
  /\ Fill(t, Cardinality(Ids))

\* If the device has been removed since it was found, the names are no
\* longer those of a device of the map.
NumP4Names(t) ==
  /\ In(t, "numNames")
  /\ MakeRoom(t, Id(t), Cardinality(Names(heap[ptr[t].addr])), ptr[t].lost)

\* Mutation: of the programs only those with a TdiInfo are listed.
P4Names_GoodOnly(t) ==
  /\ In(t, "names")
  /\ Fill(t, Cardinality({p \in Program : heap[ptr[t].addr].infos[p] = "info"}))

P4Names(t) ==
  /\ In(t, "names")
  /\ Fill(t, Cardinality(Names(heap[ptr[t].addr])))

-----------------------------------------------------------------------------

\* The steps of getInstance, which every call takes.
GetInstance(t) ==
  \/ TestInstance(t) \/ LockInstance(t) \/ TestAgain(t)
  \/ Construct(t) \/ Publish(t) \/ Unlock(t)

Body(t) ==
  \/ AddTest(t) \/ Insert(t) \/ RemoveTest(t) \/ Erase(t)
  \/ Unready(t) \/ Torn(t) \/ Dangle(t)
  \/ DeviceGet(t) \/ FindDevice(t)
  \/ \E p \in Program : InfoGet(t, p)
  \/ NumDeviceIds(t) \/ DeviceIds(t) \/ NumP4Names(t) \/ P4Names(t)

Next ==
  \E t \in Thread :
    \/ \E fn \in Function : \E d \in DevId : Begin(t, fn, d)
    \/ GetInstance(t)
    \/ Body(t)

\* A thread that is in getInstance goes on; a mutex that stays free is got.
Fairness == \A t \in Thread : WF_vars(GetInstance(t))

Spec == Init /\ [][Next]_vars /\ Fairness

-----------------------------------------------------------------------------

(***************************************************************************)
(* Properties.                                                             *)
(***************************************************************************)

\* The variables have their types, and a call has a device in hand exactly
\* while it works on one.
TypeOK ==
  /\ instance \in Thread \union {Null}
  /\ built \in BOOLEAN
  /\ mutex \in Thread \union {Null}
  /\ got \in [Thread -> Thread \union {Null}]
  /\ pc \in [Thread -> PC]
  /\ call \in [Thread -> Call \union {Null}]
  /\ devMap \in [DevId -> Addr \union {Null}]
  /\ heap \in [Addr -> Device \union {Null}]
  /\ ptr \in [Thread -> Pointer \union {Null}]
  /\ hdl \in [Thread -> Handle \union {Null, Stale}]
  /\ room \in [Thread -> Room \union {Null}]
  /\ \A t \in Thread : pc[t] # "idle" => call[t] # Null
  /\ \A t \in Thread : ptr[t] # Null <=> pc[t] = "inDevice"

\* However many threads are the first to ask for the manager, they all get
\* the same one; and a thread that has found it under the mutex (the second
\* test of getInstance) has found it constructed.
OneManager ==
  \A t \in Thread :
    /\ got[t] # Null => got[t] = instance
    /\ pc[t] = "unlock" => built

\* getInstance returns a reference to a manager, that is, to one which is
\* constructed ("Ref to Singleton DevMgr object").  A thread whose first test
\* sees the pointer before the constructor's writes gets one that is not.
ManagerConstructed == \A t \in Thread : got[t] # Null => built

\* A handle, or the pointer a running call works with, leads to the device
\* it was asked for until that device is removed: nothing else destroys or
\* replaces a device, and no address of a device that lives is used twice.
PointersStand ==
  \A t \in Thread :
    /\ hdl[t] \in Handle =>
         heap[hdl[t].addr] # Null /\ heap[hdl[t].addr].id = hdl[t].id
    /\ ptr[t] # Null /\ ~ptr[t].lost =>
         heap[ptr[t].addr] # Null /\ heap[ptr[t].addr].id = ptr[t].id

\* If what is listed has not changed in between, the second call writes as
\* many elements as the first one announced: no more than the array holds,
\* and no element is left unset.
ListFits ==
  \A t \in Thread :
    room[t] # Null /\ ~room[t].changed => room[t].filled \in {Null, room[t].n}

\* Every call of getInstance returns: the mutex is given back, and nobody
\* waits for it forever.
GetInstanceReturns == \A t \in Thread : pc[t] = "test" ~> pc[t] = "body"
=============================================================================
