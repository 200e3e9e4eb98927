--------------------------- MODULE Devices_proofs ----------------------------
(***************************************************************************)
(* Proofs about Devices, for any threads, devices, programs and addresses. *)
(*                                                                         *)
(* The invariant comes in three layers, each proved from the ones before:  *)
(* the types, getInstance, and the map of devices with what was handed out *)
(* from it.                                                                *)
(***************************************************************************)
EXTENDS Devices, FiniteSetTheorems, TLAPS

-----------------------------------------------------------------------------

(***************************************************************************)
(* Types.                                                                  *)
(***************************************************************************)

\* A call that fills an array has the right one.
Filling ==
  \A t \in Thread :
    /\ pc[t] # "idle" /\ call[t].fn = "list" => room[t] # Null /\ room[t].of = Null
    /\ pc[t] # "idle" /\ call[t].fn = "names" => room[t] # Null /\ room[t].of = Id(t)

\* What is counted are subsets of the device ids and of the programs.
LEMMA CountType ==
  /\ Cardinality(Ids) \in Nat
  /\ \A device : Cardinality(Names(device)) \in Nat
<1>1. Ids \subseteq DevId
  BY DEF Ids
<1>2. \A device : Names(device) \subseteq Program
  BY DEF Names
<1>3. QED
  BY <1>1, <1>2, FiniteAssumption, FS_Subset, FS_CardinalityType

LEMMA TypeInit == Init => TypeOK
BY NullAssumption DEF Init, TypeOK, PC

LEMMA TypeGetInstance ==
  ASSUME TypeOK, NEW t \in Thread, GetInstance(t)
  PROVE  TypeOK'
<1>1. UNCHANGED deviceVars
  BY DEF GetInstance, TestInstance, LockInstance, TestAgain, Construct, Publish, Unlock, mgrVars
<1>2. /\ instance' \in Thread \union {Null}
      /\ built' \in BOOLEAN
      /\ mutex' \in Thread \union {Null}
      /\ got' \in [Thread -> Thread \union {Null}]
      /\ pc' \in [Thread -> PC]
      /\ call' = call
  <2>1. CASE TestInstance(t)
    BY <2>1 DEF TypeOK, TestInstance, Goto, Proceed, mgrVars, PC
  <2>2. CASE LockInstance(t)
    BY <2>2 DEF TypeOK, LockInstance, Goto, PC
  <2>3. CASE TestAgain(t)
    BY <2>3 DEF TypeOK, TestAgain, Goto, mgrVars, PC
  <2>4. CASE Construct(t)
    BY <2>4 DEF TypeOK, Construct
  <2>5. CASE Publish(t)
    BY <2>5 DEF TypeOK, Publish
  <2>6. CASE Unlock(t)
    BY <2>6 DEF TypeOK, Unlock, Proceed, PC
  <2>7. QED
    BY <2>1, <2>2, <2>3, <2>4, <2>5, <2>6 DEF GetInstance
<1>3. /\ pc[t] \notin {"idle", "inDevice"}
      /\ \A u \in Thread : pc'[u] = pc[u] \/ (u = t /\ pc'[u] # "inDevice")
  BY DEF TypeOK, GetInstance, TestInstance, LockInstance, TestAgain, Construct, Publish,
         Unlock, MayUnlock, Goto, Proceed, mgrVars
<1>4. QED
  BY <1>1, <1>2, <1>3 DEF TypeOK, deviceVars

LEMMA TypeBegin ==
  ASSUME TypeOK, NEW t \in Thread, NEW fn \in Function, NEW d \in DevId, Begin(t, fn, d)
  PROVE  TypeOK'
<1>1. [fn |-> fn, id |-> d] \in Call
  BY DEF Call
<1>2. QED
  BY <1>1, NullAssumption DEF TypeOK, Begin, mgrVars, PC

LEMMA TypeReturn ==
  ASSUME TypeOK, NEW t \in Thread, Return(t)
  PROVE  /\ got' \in [Thread -> Thread \union {Null}]
         /\ pc' \in [Thread -> PC]
         /\ call' \in [Thread -> Call \union {Null}]
         /\ ptr' \in [Thread -> Pointer \union {Null}]
         /\ \A u \in Thread : pc'[u] # "idle" => call'[u] # Null
         /\ \A u \in Thread : ptr'[u] # Null <=> pc'[u] = "inDevice"
BY DEF TypeOK, Return, Leave, PC

LEMMA TypeUndefined ==
  ASSUME TypeOK, NEW t \in Thread, pc[t] # "idle", Undefined(t)
  PROVE  TypeOK'
BY DEF TypeOK, Undefined, Goto, mgrVars, PC

\* What marking pointers, handles and arrays yields.
LEMMA LoseType ==
  ASSUME TypeOK, NEW d \in DevId
  PROVE  /\ LosePointers(d) \in [Thread -> Pointer \union {Null}]
         /\ LoseHandles(d) \in [Thread -> Handle \union {Null, Stale}]
         /\ Change(d) \in [Thread -> Room \union {Null}]
         /\ \A t \in Thread : LosePointers(d)[t] = Null <=> ptr[t] = Null
<1>1. \A p \in Pointer : [p EXCEPT !.lost = TRUE] \in Pointer
  BY DEF Pointer
<1>2. \A r \in Room : [r EXCEPT !.changed = TRUE] \in Room
  BY DEF Room
<1>3. QED
  BY <1>1, <1>2, NullAssumption DEF TypeOK, LosePointers, LoseHandles, Change

LEMMA TypeMap ==
  ASSUME TypeOK, NEW t \in Thread, AddTest(t) \/ Insert(t) \/ RemoveTest(t) \/ Erase(t)
  PROVE  TypeOK'
<1>1. pc[t] # "idle" /\ pc[t] # "inDevice" => call[t] \in Call /\ Id(t) \in DevId
  BY DEF TypeOK, Call, Id
<1>2. CASE AddTest(t)
  <2>1. CASE Goto(t, "insert") /\ UNCHANGED ptr
    BY <1>2, <2>1 DEF TypeOK, AddTest, At, Goto, mgrVars, PC
  <2>2. CASE Return(t)
    BY <1>2, <2>2, TypeReturn DEF TypeOK, AddTest, mgrVars
  <2>3. QED
    BY <1>2, <2>1, <2>2 DEF AddTest
<1>3. CASE Insert(t)
  <2>1. Id(t) \in DevId
    BY <1>1, <1>3 DEF Insert
  <2>2. heap' \in [Addr -> Device \union {Null}] /\ devMap' \in [DevId -> Addr \union {Null}]
    BY <1>3, <2>1 DEF TypeOK, Insert
  <2>3. room' \in [Thread -> Room \union {Null}]
    BY <1>3, <2>1, LoseType DEF Insert
  <2>4. QED
    BY <1>3, <2>2, <2>3, TypeReturn DEF TypeOK, Insert, mgrVars
<1>4. CASE RemoveTest(t)
  <2>1. CASE Goto(t, "erase") /\ UNCHANGED ptr
    BY <1>4, <2>1 DEF TypeOK, RemoveTest, At, Goto, mgrVars, PC
  <2>2. CASE Return(t)
    BY <1>4, <2>2, TypeReturn DEF TypeOK, RemoveTest, mgrVars
  <2>3. QED
    BY <1>4, <2>1, <2>2 DEF RemoveTest
<1>5. CASE Erase(t)
  <2>1. Id(t) \in DevId
    BY <1>1, <1>5 DEF Erase
  <2>2. heap' \in [Addr -> Device \union {Null}] /\ devMap' \in [DevId -> Addr \union {Null}]
    BY <1>5, <2>1 DEF TypeOK, Erase
  <2>3. /\ ptr' \in [Thread -> Pointer \union {Null}]
        /\ hdl' \in [Thread -> Handle \union {Null, Stale}]
        /\ room' \in [Thread -> Room \union {Null}]
        /\ \A u \in Thread : ptr'[u] = Null <=> ptr[u] = Null
    BY <1>5, <2>1, LoseType DEF Erase
  <2>4. /\ got' \in [Thread -> Thread \union {Null}]
        /\ pc' \in [Thread -> PC]
        /\ call' \in [Thread -> Call \union {Null}]
        /\ \A u \in Thread : pc'[u] # "idle" => call'[u] # Null
        /\ \A u \in Thread : pc'[u] = "inDevice" <=> pc[u] = "inDevice"
    BY <1>5 DEF TypeOK, Erase, Leave, PC
  <2>5. QED
    BY <1>5, <2>2, <2>3, <2>4 DEF TypeOK, Erase, mgrVars
<1>6. QED
  BY <1>2, <1>3, <1>4, <1>5

LEMMA TypeLookup ==
  ASSUME TypeOK, NEW t \in Thread,
         DeviceGet(t) \/ FindDevice(t) \/ \E p \in Program : InfoGet(t, p)
  PROVE  TypeOK'
<1>1. pc[t] # "idle" => Id(t) \in DevId
  BY DEF TypeOK, Call, Id
<1>2. CASE DeviceGet(t)
  <2>1. hdl' \in [Thread -> Handle \union {Null, Stale}]
    BY <1>1, <1>2 DEF TypeOK, DeviceGet, At, Handle
  <2>2. QED
    BY <1>2, <2>1, TypeReturn DEF TypeOK, DeviceGet, mgrVars
<1>3. CASE FindDevice(t)
  <2>1. CASE Return(t)
    BY <1>3, <2>1, TypeReturn DEF TypeOK, FindDevice, mgrVars
  <2>2. CASE ~Return(t)
    <3>1. /\ pc[t] = "body"
          /\ Goto(t, "inDevice")
          /\ UNCHANGED <<mgrVars, devMap, heap, hdl, room>>
      BY <1>3, <2>2 DEF FindDevice
    <3>2. PICK found \in Pointer : ptr' = [ptr EXCEPT ![t] = found]
      BY <1>1, <1>3, <2>2 DEF TypeOK, FindDevice, Pointer
    <3>3. QED
      BY <3>1, <3>2, NullAssumption DEF TypeOK, Goto, mgrVars, PC
  <2>3. QED
    BY <2>1, <2>2
<1>4. ASSUME NEW p \in Program, InfoGet(t, p)
      PROVE  TypeOK'
  <2>1. Id(t) \in DevId /\ ptr[t] \in Pointer /\ ptr[t].addr \in Addr
    BY <1>1, <1>4 DEF TypeOK, InfoGet, In, Pointer
  <2>2. hdl' \in [Thread -> Handle \union {Null, Stale}]
    BY <1>4, <2>1 DEF TypeOK, InfoGet, Handle
  <2>3. QED
    BY <1>4, <2>2, TypeReturn DEF TypeOK, InfoGet, mgrVars
<1>5. QED
  BY <1>2, <1>3, <1>4

LEMMA TypeLists ==
  ASSUME TypeOK, Filling, NEW t \in Thread,
         NumDeviceIds(t) \/ DeviceIds(t) \/ NumP4Names(t) \/ P4Names(t)
  PROVE  TypeOK'
<1>1. Return(t) /\ UNCHANGED <<mgrVars, devMap, heap, hdl>>
  BY DEF NumDeviceIds, DeviceIds, NumP4Names, P4Names, MakeRoom, Fill
<1>2. /\ pc[t] # "idle" /\ Id(t) \in DevId
      /\ NumP4Names(t) => ptr[t].lost \in BOOLEAN
      /\ DeviceIds(t) \/ P4Names(t) => room[t] # Null
  BY DEF TypeOK, Filling, Call, Id, NumDeviceIds, DeviceIds, NumP4Names, P4Names, At, In, Pointer
<1>3. room' \in [Thread -> Room \union {Null}]
  <2>1. ASSUME NEW of \in DevId \union {Null}, NEW n \in Nat, NEW c \in BOOLEAN,
               MakeRoom(t, of, n, c)
        PROVE  room' \in [Thread -> Room \union {Null}]
    BY <2>1 DEF TypeOK, MakeRoom, Room
  <2>2. ASSUME NEW n \in Nat, Fill(t, n), room[t] # Null
        PROVE  room' \in [Thread -> Room \union {Null}]
    <3>1. \A r \in Room : [r EXCEPT !.filled = n] \in Room
      BY DEF Room
    <3>2. QED
      BY <2>2, <3>1 DEF TypeOK, Fill
  <2>3. CASE NumDeviceIds(t)
    BY <2>1, <2>3, CountType DEF NumDeviceIds
  <2>4. CASE DeviceIds(t)
    BY <1>2, <2>2, <2>4, CountType DEF DeviceIds
  <2>5. CASE NumP4Names(t)
    BY <1>2, <2>1, <2>5, CountType DEF NumP4Names
  <2>6. CASE P4Names(t)
    BY <1>2, <2>2, <2>6, CountType DEF P4Names
  <2>7. QED
    BY <2>3, <2>4, <2>5, <2>6
<1>4. QED
  BY <1>1, <1>3, TypeReturn DEF TypeOK, mgrVars

LEMMA TypeNext ==
  ASSUME TypeOK, Filling, [Next]_vars
  PROVE  TypeOK'
<1>1. CASE UNCHANGED vars
  BY <1>1 DEF TypeOK, vars, mgrVars
<1>2. CASE Next
  <2>1. PICK t \in Thread : (\E fn \in Function : \E d \in DevId : Begin(t, fn, d))
                             \/ GetInstance(t) \/ Body(t)
    BY <1>2 DEF Next
  <2>2. CASE Unready(t) \/ Torn(t) \/ Dangle(t)
    BY <2>2, TypeUndefined DEF Unready, Torn, Dangle
  <2>3. QED
    BY <2>1, <2>2, TypeBegin, TypeGetInstance, TypeMap, TypeLookup, TypeLists DEF Body
<1>3. QED
  BY <1>1, <1>2

-----------------------------------------------------------------------------

\* A step of one thread leaves the others where they are.
LEMMA OthersStay ==
  ASSUME TypeOK, NEW t \in Thread, NEW u \in Thread, u # t,
         (\E fn \in Function : \E d \in DevId : Begin(t, fn, d)) \/ GetInstance(t) \/ Body(t)
  PROVE  got'[u] = got[u] /\ pc'[u] = pc[u] /\ call'[u] = call[u]
<1>1. CASE \E fn \in Function : \E d \in DevId : Begin(t, fn, d)
  BY <1>1 DEF TypeOK, Begin
<1>2. CASE GetInstance(t)
  BY <1>2 DEF TypeOK, GetInstance, TestInstance, LockInstance, TestAgain, Construct, Publish,
              Unlock, Goto, Proceed
<1>3. ASSUME NEW label, Goto(t, label)
      PROVE  got'[u] = got[u] /\ pc'[u] = pc[u] /\ call'[u] = call[u]
  BY <1>3 DEF TypeOK, Goto
<1>4. CASE Leave(t)
  BY <1>4 DEF TypeOK, Leave
<1>5. Body(t) => Leave(t) \/ \E label : Goto(t, label)
  BY DEF Body, AddTest, Insert, RemoveTest, Erase, Unready, Torn, Dangle, DeviceGet, FindDevice,
         InfoGet, NumDeviceIds, DeviceIds, NumP4Names, P4Names, Undefined, MakeRoom, Fill, Return
<1>6. QED
  BY <1>1, <1>2, <1>3, <1>4, <1>5

LEMMA FillingInit == Init => Filling
BY DEF Init, Filling

LEMMA FillingNext ==
  ASSUME TypeOK, Filling, [Next]_vars
  PROVE  Filling'
<1>1. CASE UNCHANGED vars
  BY <1>1 DEF Filling, Id, vars
<1>2. ASSUME NEW t \in Thread, NEW fn \in Function, NEW d \in DevId, Begin(t, fn, d)
      PROVE  Filling'
  <2>1. \A u \in Thread : u # t => pc'[u] = pc[u] /\ call'[u] = call[u] /\ room'[u] = room[u]
    BY <1>2 DEF TypeOK, Begin
  <2>2. /\ call'[t].fn = fn /\ call'[t].id = d
        /\ fn = "list" => room'[t] # Null /\ room'[t].of = Null
        /\ fn = "names" => room'[t] # Null /\ room'[t].of = d
    BY <1>2 DEF TypeOK, Begin
  <2>3. QED
    BY <2>1, <2>2 DEF Filling, Id
<1>3. ASSUME NEW t \in Thread, GetInstance(t)
      PROVE  Filling'
  <2>1. UNCHANGED <<call, room>>
    BY <1>3 DEF GetInstance, TestInstance, LockInstance, TestAgain, Construct, Publish, Unlock,
                Goto, Proceed, deviceVars
  <2>2. pc[t] # "idle" /\ \A u \in Thread \ {t} : pc'[u] = pc[u]
    BY <1>3, OthersStay DEF GetInstance, TestInstance, LockInstance, TestAgain, Construct,
                            Publish, Unlock, MayUnlock
  <2>3. QED
    BY <2>1, <2>2 DEF Filling, Id
<1>4. ASSUME NEW t \in Thread, Body(t)
      PROVE  Filling'
  <2>1. pc[t] # "idle" /\ Id(t) \in DevId
    BY <1>4 DEF TypeOK, Call, Id, Body, AddTest, Insert, RemoveTest, Erase, Unready, Torn, Dangle,
                DeviceGet, FindDevice, InfoGet, NumDeviceIds, DeviceIds, NumP4Names, P4Names, At, In
  <2>2. \A u \in Thread \ {t} : pc'[u] = pc[u] /\ call'[u] = call[u]
    BY <1>4, OthersStay
  <2>3. CASE Insert(t) \/ Erase(t)
    <3>1. pc'[t] = "idle" /\ room' = Change(Id(t))
      BY <2>3 DEF TypeOK, Insert, Erase, Return, Leave
    <3>2. \A u \in Thread : room[u] # Null =>
            Change(Id(t))[u] # Null /\ Change(Id(t))[u].of = room[u].of
      <4>1. \A r \in Room : [r EXCEPT !.changed = TRUE] \in Room
                            /\ [r EXCEPT !.changed = TRUE].of = r.of
        BY DEF Room
      <4>2. QED
        BY <4>1, NullAssumption DEF TypeOK, Change
    <3>3. QED
      BY <2>2, <3>1, <3>2 DEF Filling, Id
  <2>4. CASE NumDeviceIds(t) \/ DeviceIds(t) \/ NumP4Names(t) \/ P4Names(t)
    <3>1. pc'[t] = "idle" /\ \A u \in Thread \ {t} : room'[u] = room[u]
      BY <2>4 DEF TypeOK, NumDeviceIds, DeviceIds, NumP4Names, P4Names, MakeRoom, Fill, Return,
                  Leave
    <3>2. QED
      BY <2>2, <3>1 DEF Filling, Id
  <2>5. CASE UNCHANGED room /\ (pc'[t] = "idle" \/ call'[t] = call[t])
    BY <2>1, <2>2, <2>5 DEF Filling, Id
  <2>6. CASE AddTest(t) \/ RemoveTest(t) \/ Unready(t) \/ Torn(t) \/ Dangle(t)
             \/ DeviceGet(t) \/ FindDevice(t) \/ \E p \in Program : InfoGet(t, p)
    BY <2>5, <2>6 DEF TypeOK, AddTest, RemoveTest, Unready, Torn, Dangle, DeviceGet, FindDevice,
                      InfoGet, Undefined, Goto, Return, Leave
  <2>7. QED
    BY <1>4, <2>3, <2>4, <2>6 DEF Body
<1>5. QED
  BY <1>1, <1>2, <1>3, <1>4 DEF Next

\* The variables of the device manager have their types, for any number of
\* threads, devices and programs (Devices!TypeOK): no call is left with a
\* device in hand, and no list is written to an array that is not there.
THEOREM TypeCorrect == Spec => []TypeOK
<1>1. TypeOK /\ Filling /\ [Next]_vars => (TypeOK /\ Filling)'
  BY TypeNext, FillingNext
<1>2. QED
  BY <1>1, TypeInit, FillingInit, PTL DEF Spec

-----------------------------------------------------------------------------

(***************************************************************************)
(* getInstance: one manager, made by the thread that holds the mutex.      *)
(***************************************************************************)

\* Past the mutex there is the thread that holds it.
Exclusive == \A t \in Thread : pc[t] \in {"locked", "new", "unlock"} => mutex = t

\* A manager that can be seen but is not constructed is being made.
Unfinished == instance # Null /\ ~built => pc[instance] = "new"

\* Whoever makes the manager has found that there was none.
Making == \A t \in Thread : pc[t] = "new" => instance \in {Null, t}

\* Whoever goes past the second test without making one has found one.
Found == \A t \in Thread : pc[t] = "unlock" => instance # Null /\ built

ManagerInv == Exclusive /\ Unfinished /\ Making /\ Found /\ OneManager

LEMMA ManagerInit == Init => ManagerInv
BY NullAssumption DEF Init, ManagerInv, Exclusive, Unfinished, Making, Found, OneManager

LEMMA ManagerGetInstance ==
  ASSUME TypeOK, ManagerInv, NEW t \in Thread, GetInstance(t)
  PROVE  ManagerInv'
<1>1. \A u \in Thread \ {t} : pc'[u] = pc[u] /\ got'[u] = got[u]
  BY OthersStay
<1>2. CASE TestInstance(t)
  BY <1>1, <1>2, NullAssumption
  DEF TypeOK, TestInstance, Goto, Proceed, mgrVars, ManagerInv, Exclusive, Unfinished, Making,
      Found, OneManager
<1>3. CASE LockInstance(t)
  BY <1>1, <1>3, NullAssumption
  DEF TypeOK, LockInstance, Goto, ManagerInv, Exclusive, Unfinished, Making, Found, OneManager
<1>4. CASE TestAgain(t)
  BY <1>1, <1>4, NullAssumption
  DEF TypeOK, TestAgain, Goto, mgrVars, ManagerInv, Exclusive, Unfinished, Making, Found,
      OneManager
<1>5. CASE Construct(t)
  BY <1>1, <1>5
  DEF TypeOK, Construct, ManagerInv, Exclusive, Unfinished, Making, Found, OneManager
<1>6. CASE Publish(t)
  BY <1>1, <1>6, NullAssumption
  DEF TypeOK, Publish, ManagerInv, Exclusive, Unfinished, Making, Found, OneManager
<1>7. CASE Unlock(t)
  BY <1>1, <1>7, NullAssumption
  DEF TypeOK, Unlock, MayUnlock, Proceed, ManagerInv, Exclusive, Unfinished, Making, Found,
      OneManager
<1>8. QED
  BY <1>2, <1>3, <1>4, <1>5, <1>6, <1>7 DEF GetInstance

LEMMA ManagerNext ==
  ASSUME TypeOK, ManagerInv, [Next]_vars
  PROVE  ManagerInv'
<1>1. CASE UNCHANGED vars
  BY <1>1 DEF vars, mgrVars, ManagerInv, Exclusive, Unfinished, Making, Found, OneManager
<1>2. ASSUME NEW t \in Thread, NEW fn \in Function, NEW d \in DevId, Begin(t, fn, d)
      PROVE  ManagerInv'
  BY <1>2, NullAssumption
  DEF TypeOK, Begin, mgrVars, ManagerInv, Exclusive, Unfinished, Making, Found, OneManager
<1>3. ASSUME NEW t \in Thread, Body(t)
      PROVE  ManagerInv'
  <2>1. \A u \in Thread \ {t} : pc'[u] = pc[u] /\ got'[u] = got[u]
    BY <1>3, OthersStay
  <2>2. UNCHANGED mgrVars
    BY <1>3 DEF Body, AddTest, Insert, RemoveTest, Erase, Unready, Torn, Dangle, DeviceGet,
                FindDevice, InfoGet, NumDeviceIds, DeviceIds, NumP4Names, P4Names, Undefined,
                MakeRoom, Fill
  <2>3. /\ pc[t] \in {"body", "insert", "erase", "inDevice"}
        /\ pc'[t] \in {"idle", "insert", "erase", "inDevice", "undefined"}
        /\ got'[t] \in {Null, got[t]}
    <3>1. CASE AddTest(t) \/ Insert(t) \/ RemoveTest(t) \/ Erase(t)
               \/ Unready(t) \/ Torn(t) \/ Dangle(t)
      BY <3>1 DEF TypeOK, AddTest, Insert, RemoveTest, Erase, Unready, Torn, Dangle, At,
                  Undefined, Goto, Return, Leave
    <3>2. CASE DeviceGet(t) \/ FindDevice(t) \/ \E p \in Program : InfoGet(t, p)
      BY <3>2 DEF TypeOK, DeviceGet, FindDevice, InfoGet, At, In, Goto, Return, Leave
    <3>3. CASE NumDeviceIds(t) \/ DeviceIds(t) \/ NumP4Names(t) \/ P4Names(t)
      BY <3>3 DEF TypeOK, NumDeviceIds, DeviceIds, NumP4Names, P4Names, At, In, MakeRoom, Fill,
                  Return, Leave
    <3>4. QED
      BY <1>3, <3>1, <3>2, <3>3 DEF Body
  <2>4. Exclusive' /\ Making' /\ Found' /\ OneManager'
    BY <2>1, <2>2, <2>3 DEF mgrVars, ManagerInv, Exclusive, Making, Found, OneManager
  <2>5. Unfinished'
    BY <2>1, <2>2, <2>3, NullAssumption DEF TypeOK, mgrVars, ManagerInv, Unfinished
  <2>6. QED
    BY <2>4, <2>5 DEF ManagerInv
<1>4. QED
  BY <1>1, <1>2, <1>3, ManagerGetInstance DEF Next

\* There is one device manager, and whoever has to wait for the mutex finds
\* it constructed (Devices!OneManager), for any number of threads that call
\* getInstance for the first time together.
THEOREM SingleManager == Spec => []OneManager
<1>1. TypeOK /\ ManagerInv /\ [Next]_vars => ManagerInv'
  BY ManagerNext
<1>2. ManagerInv => OneManager
  BY DEF ManagerInv
<1>3. QED
  BY <1>1, <1>2, ManagerInit, TypeCorrect, PTL DEF Spec

-----------------------------------------------------------------------------

(***************************************************************************)
(* The map of devices, and what leads to them.                             *)
(***************************************************************************)

\* A thread does what it may do; the driver adds a device the map does not
\* have, and removes one it has.
Driving ==
  \A t \in Thread : pc[t] # "idle" =>
    /\ call[t].fn \in Calls[t]
    /\ pc[t] = "insert" => call[t].fn = "add" /\ devMap[Id(t)] = Null
    /\ pc[t] = "erase" => call[t].fn = "remove" /\ devMap[Id(t)] # Null

\* An entry of the map leads to the device it is filed for.
Filed ==
  \A d \in DevId : devMap[d] # Null => heap[devMap[d]] # Null /\ heap[devMap[d]].id = d

\* What was handed out leads where the map leads.
Reaching ==
  \A t \in Thread :
    /\ hdl[t] \in Handle => devMap[hdl[t].id] = hdl[t].addr
    /\ ptr[t] # Null => ptr[t].id = Id(t)
    /\ ptr[t] # Null /\ ~ptr[t].lost => devMap[ptr[t].id] = ptr[t].addr

MapInv == Driving /\ Filed /\ Reaching

LEMMA MapInit == Init => MapInv
BY NullAssumption DEF Init, MapInv, Driving, Filed, Reaching

\* Only one thread is between a test of the map and the change of it.
LEMMA OneDriver ==
  ASSUME MapInv, NEW t \in Thread, NEW u \in Thread,
         pc[t] \in {"insert", "erase"}, pc[u] \in {"insert", "erase"}
  PROVE  t = u
BY CallsAssumption DEF MapInv, Driving

\* Steps that leave the map and what was handed out alone.
LEMMA MapKept ==
  ASSUME TypeOK, MapInv, NEW t \in Thread, UNCHANGED <<devMap, heap, ptr, hdl>>,
         \A u \in Thread \ {t} : pc'[u] = pc[u] /\ call'[u] = call[u],
         pc'[t] \notin {"idle", "insert", "erase"} => call'[t].fn \in Calls[t],
         pc'[t] \notin {"insert", "erase"},
         ptr[t] = Null \/ call'[t] = call[t]
  PROVE  MapInv'
<1>1. Filed'
  BY DEF MapInv, Filed
<1>2. Driving'
  BY DEF MapInv, Driving, Id
<1>3. Reaching'
  BY DEF MapInv, Reaching, Id
<1>4. QED
  BY <1>1, <1>2, <1>3 DEF MapInv

\* A thread goes back, or to nowhere, without having changed the map.
LEMMA MapLeft ==
  ASSUME TypeOK, MapInv, NEW t \in Thread, UNCHANGED <<devMap, heap>>,
         \A u \in Thread \ {t} : /\ pc'[u] = pc[u] /\ call'[u] = call[u]
                                 /\ ptr'[u] = ptr[u] /\ hdl'[u] = hdl[u],
         pc'[t] = "idle" \/ (pc'[t] = "undefined" /\ pc[t] # "idle" /\ call'[t] = call[t]),
         ptr'[t] = Null,
         hdl'[t] \in Handle => devMap[hdl'[t].id] = hdl'[t].addr
  PROVE  MapInv'
<1>1. Filed'
  BY DEF MapInv, Filed
<1>2. Driving'
  BY DEF MapInv, Driving, Id
<1>3. Reaching'
  BY DEF MapInv, Reaching, Id
<1>4. QED
  BY <1>1, <1>2, <1>3 DEF MapInv

LEMMA MapInsert ==
  ASSUME TypeOK, MapInv, NEW t \in Thread, Insert(t)
  PROVE  MapInv'
<1>1. /\ Id(t) \in DevId /\ devMap[Id(t)] = Null
      /\ pc'[t] = "idle" /\ ptr'[t] = Null
      /\ hdl' = hdl
      /\ \A u \in Thread \ {t} : /\ pc'[u] = pc[u] /\ call'[u] = call[u] /\ ptr'[u] = ptr[u]
                                 /\ pc[u] \notin {"insert", "erase"}
  <2>1. \A u \in Thread \ {t} : pc[u] \notin {"insert", "erase"}
    BY OneDriver DEF Insert
  <2>2. QED
    BY <2>1 DEF TypeOK, MapInv, Driving, Insert, Return, Leave, Call, Id
<1>2. PICK a \in Addr : \E device \in Device :
        /\ heap[a] = Null
        /\ device.id = Id(t)
        /\ heap' = [x \in Addr |-> IF x = a THEN device
                                   ELSE IF x = devMap[Id(t)] THEN Null ELSE heap[x]]
        /\ devMap' = [devMap EXCEPT ![Id(t)] = a]
  BY DEF Insert
<1>3. /\ \A d \in DevId \ {Id(t)} : devMap'[d] = devMap[d]
      /\ \A x \in Addr \ {a} : heap'[x] = heap[x]
      /\ devMap'[Id(t)] = a /\ heap'[a] # Null /\ heap'[a].id = Id(t) /\ heap[a] = Null
  BY <1>1, <1>2, NullAssumption DEF TypeOK
<1>4. Filed'
  BY <1>1, <1>3, NullAssumption DEF TypeOK, MapInv, Filed
<1>5. Driving'
  BY <1>1 DEF MapInv, Driving, Id
<1>6. Reaching'
  <2>1. \A h \in Handle : devMap[h.id] = h.addr => devMap'[h.id] = h.addr
    BY <1>1, <1>3, NullAssumption DEF Handle
  <2>2. \A p \in Pointer : devMap[p.id] = p.addr => devMap'[p.id] = p.addr
    BY <1>1, <1>3, NullAssumption DEF Pointer
  <2>3. QED
    BY <1>1, <2>1, <2>2 DEF TypeOK, MapInv, Reaching, Id
<1>7. QED
  BY <1>4, <1>5, <1>6 DEF MapInv

LEMMA MapErase ==
  ASSUME TypeOK, MapInv, NEW t \in Thread, Erase(t)
  PROVE  MapInv'
<1> DEFINE d == Id(t)
<1>1. /\ d \in DevId /\ devMap[d] \in Addr
      /\ pc[t] = "erase" /\ pc'[t] = "idle"
      /\ \A u \in Thread \ {t} : /\ pc'[u] = pc[u] /\ call'[u] = call[u]
                                 /\ pc[u] \notin {"insert", "erase"}
  <2>1. \A u \in Thread \ {t} : pc[u] \notin {"insert", "erase"}
    BY OneDriver DEF Erase
  <2>2. QED
    BY <2>1 DEF TypeOK, MapInv, Driving, Erase, Leave, Call, Id
<1>2. /\ \A e \in DevId \ {d} : devMap'[e] = devMap[e]
      /\ \A x \in Addr \ {devMap[d]} : heap'[x] = heap[x]
      /\ devMap'[d] = Null
  BY <1>1 DEF TypeOK, Erase
<1>3. Filed'
  BY <1>1, <1>2 DEF TypeOK, MapInv, Filed
<1>4. Driving'
  BY <1>1 DEF MapInv, Driving, Id
<1>5. Reaching'
  <2>1. ASSUME NEW u \in Thread, hdl'[u] \in Handle
        PROVE  devMap'[hdl'[u].id] = hdl'[u].addr
    <3>1. hdl'[u] = hdl[u] /\ hdl[u].id # d
      BY <2>1, NullAssumption DEF Erase, LoseHandles
    <3>2. hdl[u].id \in DevId
      BY <2>1, <3>1 DEF Handle
    <3>3. QED
      BY <1>2, <2>1, <3>1, <3>2 DEF MapInv, Reaching
  <2>2. ASSUME NEW u \in Thread, ptr'[u] # Null
        PROVE  /\ ptr'[u].id = Id(u)'
               /\ ~ptr'[u].lost => devMap'[ptr'[u].id] = ptr'[u].addr
    <3>1. ptr[u] \in Pointer /\ u # t
      BY <1>1, <2>1, <2>2 DEF TypeOK, Erase, LosePointers
    <3>2. CASE ptr[u].id = d
      <4>1. ptr'[u] = [ptr[u] EXCEPT !.lost = TRUE]
        BY <2>2, <3>1, <3>2, NullAssumption DEF Erase, LosePointers
      <4>2. ptr'[u].lost /\ ptr'[u].id = ptr[u].id
        BY <3>1, <4>1 DEF Pointer
      <4>3. QED
        BY <1>1, <3>1, <4>2, NullAssumption DEF MapInv, Reaching, Id
    <3>3. CASE ptr[u].id # d
      <4>1. ptr'[u] = ptr[u]
        BY <3>3 DEF Erase, LosePointers
      <4>2. ptr[u].id \in DevId
        BY <3>1 DEF Pointer
      <4>3. QED
        BY <1>1, <1>2, <3>1, <3>3, <4>1, <4>2, NullAssumption DEF MapInv, Reaching, Id
    <3>4. QED
      BY <3>2, <3>3
  <2>3. QED
    BY <2>1, <2>2 DEF Reaching
<1>6. QED
  BY <1>3, <1>4, <1>5 DEF MapInv

LEMMA MapLookup ==
  ASSUME TypeOK, MapInv, NEW t \in Thread,
         DeviceGet(t) \/ FindDevice(t) \/ \E p \in Program : InfoGet(t, p)
  PROVE  MapInv'
<1>1. /\ pc[t] \in {"body", "inDevice"} /\ Id(t) \in DevId
      /\ \A u \in Thread \ {t} : pc'[u] = pc[u] /\ call'[u] = call[u]
  <2>1. pc[t] \in {"body", "inDevice"}
    BY DEF Body, DeviceGet, FindDevice, InfoGet, At, In
  <2>2. call[t] \in Call
    BY <2>1 DEF TypeOK, DeviceGet, FindDevice, InfoGet, At, In, Call
  <2>3. Body(t)
    BY DEF Body
  <2>4. QED
    BY <2>1, <2>2, <2>3, OthersStay DEF Call, Id
<1>2. ASSUME Return(t), UNCHANGED <<devMap, heap>>,
             \A u \in Thread \ {t} : hdl'[u] = hdl[u],
             hdl'[t] \in Handle => devMap[hdl'[t].id] = hdl'[t].addr
      PROVE  MapInv'
  BY <1>1, <1>2, MapLeft DEF TypeOK, Return, Leave
<1>3. CASE DeviceGet(t)
  <2>1. hdl'[t] \in {Null, [addr |-> devMap[Id(t)], id |-> Id(t)]}
    BY <1>3 DEF TypeOK, DeviceGet
  <2>2. QED
    BY <1>2, <1>3, <2>1, NullAssumption DEF TypeOK, DeviceGet
<1>4. CASE FindDevice(t) /\ Return(t)
  BY <1>2, <1>4 DEF TypeOK, FindDevice, MapInv, Reaching
<1>5. CASE FindDevice(t) /\ ~Return(t)
  <2>1. /\ pc[t] = "body" /\ pc'[t] = "inDevice" /\ call' = call
        /\ devMap' = devMap /\ heap' = heap /\ hdl' = hdl
        /\ \A u \in Thread \ {t} : ptr'[u] = ptr[u]
        /\ ptr'[t] = [addr |-> devMap[Id(t)], id |-> Id(t), lost |-> FALSE]
    BY <1>5 DEF TypeOK, FindDevice, Goto
  <2>2. Filed' /\ Driving'
    BY <1>1, <2>1 DEF MapInv, Filed, Driving, Id
  <2>3. Reaching'
    BY <1>1, <2>1 DEF MapInv, Reaching, Id
  <2>4. QED
    BY <2>2, <2>3 DEF MapInv
<1>6. ASSUME NEW p \in Program, InfoGet(t, p)
      PROVE  MapInv'
  <2>1. ptr[t] # Null
    BY <1>6 DEF TypeOK, InfoGet, In
  <2>2. \/ hdl'[t] \in {hdl[t], Null, Stale}
        \/ ~ptr[t].lost /\ hdl'[t] = [addr |-> ptr[t].addr, id |-> Id(t)]
    BY <1>6 DEF TypeOK, InfoGet
  <2>3. hdl'[t] \in Handle => devMap[hdl'[t].id] = hdl'[t].addr
    BY <2>1, <2>2, NullAssumption DEF MapInv, Reaching
  <2>4. \A u \in Thread \ {t} : hdl'[u] = hdl[u]
    BY <1>6 DEF TypeOK, InfoGet
  <2>5. QED
    BY <1>2, <1>6, <2>3, <2>4 DEF InfoGet
<1>7. QED
  BY <1>3, <1>4, <1>5, <1>6

LEMMA MapNext ==
  ASSUME TypeOK, MapInv, [Next]_vars
  PROVE  MapInv'
<1>1. CASE UNCHANGED vars
  BY <1>1 DEF vars, MapInv, Driving, Filed, Reaching, Id
<1>2. ASSUME NEW t \in Thread, NEW fn \in Function, NEW d \in DevId, Begin(t, fn, d)
      PROVE  MapInv'
  BY <1>2, MapKept DEF TypeOK, Begin
<1>3. ASSUME NEW t \in Thread, GetInstance(t)
      PROVE  MapInv'
  <2>1. UNCHANGED <<devMap, heap, ptr, hdl, call>>
    BY <1>3 DEF GetInstance, TestInstance, LockInstance, TestAgain, Construct, Publish, Unlock,
                Goto, Proceed, deviceVars
  <2>2. pc[t] # "idle" /\ pc'[t] \notin {"insert", "erase"}
    BY <1>3 DEF TypeOK, GetInstance, TestInstance, LockInstance, TestAgain, Construct, Publish,
                Unlock, MayUnlock, Goto, Proceed
  <2>3. \A u \in Thread \ {t} : pc'[u] = pc[u]
    BY <1>3, OthersStay
  <2>4. call[t].fn \in Calls[t]
    BY <2>2 DEF MapInv, Driving
  <2>5. QED
    BY <2>1, <2>2, <2>3, <2>4, MapKept
<1>4. ASSUME NEW t \in Thread, Body(t)
      PROVE  MapInv'
  <2>1. \A u \in Thread \ {t} : pc'[u] = pc[u] /\ call'[u] = call[u]
    BY <1>4, OthersStay
  <2>2. CASE Return(t) /\ UNCHANGED <<devMap, heap, hdl>>
    BY <2>1, <2>2, MapLeft DEF TypeOK, MapInv, Reaching, Return, Leave
  <2>3. CASE Unready(t) \/ Torn(t) \/ Dangle(t)
    BY <2>1, <2>3, MapLeft DEF TypeOK, Unready, Torn, Dangle, Undefined, Goto, MapInv, Reaching
  <2>4. CASE (AddTest(t) \/ RemoveTest(t)) /\ ~Return(t)
    <3>1. /\ pc[t] = "body" /\ call' = call /\ UNCHANGED <<devMap, heap, ptr, hdl>>
          /\ pc'[t] = "insert" => call[t].fn = "add" /\ devMap[Id(t)] = Null
          /\ pc'[t] = "erase" => call[t].fn = "remove" /\ devMap[Id(t)] # Null
      BY <2>4 DEF TypeOK, AddTest, RemoveTest, At, Goto
    <3>2. Driving'
      BY <2>1, <3>1 DEF MapInv, Driving, Id
    <3>3. Filed' /\ Reaching'
      BY <3>1 DEF MapInv, Filed, Reaching, Id
    <3>4. QED
      BY <3>2, <3>3 DEF MapInv
  <2>5. CASE AddTest(t) \/ RemoveTest(t)
    BY <2>2, <2>4, <2>5 DEF AddTest, RemoveTest
  <2>6. CASE NumDeviceIds(t) \/ DeviceIds(t) \/ NumP4Names(t) \/ P4Names(t)
    BY <2>2, <2>6 DEF NumDeviceIds, DeviceIds, NumP4Names, P4Names, MakeRoom, Fill
  <2>7. QED
    BY <1>4, <2>3, <2>5, <2>6, MapInsert, MapErase, MapLookup DEF Body
<1>5. QED
  BY <1>1, <1>2, <1>3, <1>4 DEF Next

\* A handle leads to its device until that is removed, and so does the
\* pointer a call works with (Devices!PointersStand), for any threads that
\* look devices up while one adds and removes them.
THEOREM HandlesStand == Spec => []PointersStand
<1>1. TypeOK /\ MapInv /\ [Next]_vars => MapInv'
  BY MapNext
<1>2. TypeOK /\ MapInv => PointersStand
  BY NullAssumption DEF TypeOK, MapInv, Filed, Reaching, PointersStand, Handle, Pointer
<1>3. QED
  BY <1>1, <1>2, MapInit, TypeCorrect, PTL DEF Spec

-----------------------------------------------------------------------------

(***************************************************************************)
(* Lists.                                                                  *)
(***************************************************************************)

\* An array has room for what there is to list, as long as that has not
\* changed since it was counted.
Counted ==
  \A t \in Thread : room[t] # Null /\ ~room[t].changed =>
    /\ room[t].of = Null => room[t].n = Cardinality(Ids)
    /\ room[t].of # Null =>
         /\ devMap[room[t].of] # Null
         /\ room[t].n = Cardinality(Names(heap[devMap[room[t].of]]))

\* The array for the names of a device that is gone is known to be stale.
LostChanged ==
  \A t \in Thread :
    pc[t] = "inDevice" /\ call[t].fn = "names" /\ ptr[t].lost => room[t].changed

ListInv == Counted /\ LostChanged /\ ListFits

LEMMA ListInit == Init => ListInv
BY DEF Init, ListInv, Counted, LostChanged, ListFits

\* Steps that leave the map and the arrays alone.
LEMMA ListKept ==
  ASSUME ListInv, NEW t \in Thread, UNCHANGED <<devMap, heap>>,
         \A u \in Thread : room'[u] = room[u] \/ (u = t /\ room'[u] = Null),
         \A u \in Thread \ {t} : pc'[u] = pc[u] /\ call'[u] = call[u] /\ ptr'[u] = ptr[u],
         pc'[t] # "inDevice" \/ ~ptr'[t].lost
  PROVE  ListInv'
<1>1. Ids' = Ids
  BY DEF Ids
<1>2. Counted' /\ ListFits'
  BY <1>1 DEF ListInv, Counted, ListFits
<1>3. LostChanged'
  BY DEF ListInv, LostChanged
<1>4. QED
  BY <1>2, <1>3 DEF ListInv

\* Steps after which the arrays that list device d, or all of them, are
\* stale, and no other device has changed.
LEMMA ListChange ==
  ASSUME TypeOK, Filling, MapInv, ListInv, NEW t \in Thread, NEW d \in DevId,
         room' = Change(d),
         \A e \in DevId \ {d} : devMap[e] # Null =>
           devMap'[e] = devMap[e] /\ heap'[devMap[e]] = heap[devMap[e]],
         pc'[t] # "inDevice",
         \A u \in Thread \ {t} : pc'[u] = pc[u] /\ call'[u] = call[u],
         \A u \in Thread \ {t} : ptr'[u] = ptr[u] \/ (ptr[u] # Null /\ ptr[u].id = d)
  PROVE  ListInv'
<1>1. \A r \in Room : [r EXCEPT !.changed = TRUE] \in Room
                      /\ [r EXCEPT !.changed = TRUE].changed
  BY DEF Room
<1>2. ASSUME NEW u \in Thread, room'[u] # Null, ~room'[u].changed
      PROVE  room'[u] = room[u] /\ room[u].of \in DevId \ {d}
  <2>1. room[u] \in Room /\ room'[u] = room[u] /\ room[u].of \notin {Null, d}
    BY <1>1, <1>2 DEF TypeOK, Change
  <2>2. QED
    BY <2>1 DEF Room
<1>3. Counted'
  <2>1. SUFFICES ASSUME NEW u \in Thread, room'[u] # Null, ~room'[u].changed
                 PROVE  /\ room'[u].of # Null
                        /\ devMap'[room'[u].of] # Null
                        /\ room'[u].n = Cardinality(Names(heap'[devMap'[room'[u].of]]))
    BY DEF Counted
  <2>2. /\ devMap[room[u].of] # Null
        /\ room[u].n = Cardinality(Names(heap[devMap[room[u].of]]))
    BY <1>2, <2>1, NullAssumption DEF ListInv, Counted
  <2>3. QED
    BY <1>2, <2>1, <2>2, NullAssumption
<1>4. ListFits'
  BY <1>2 DEF ListInv, ListFits
<1>5. LostChanged'
  <2>1. SUFFICES ASSUME NEW u \in Thread \ {t}, pc[u] = "inDevice", call[u].fn = "names",
                        ptr'[u].lost
                 PROVE  room'[u].changed
    BY DEF LostChanged
  <2>2. room[u] \in Room /\ room[u].of = Id(u)
    BY <2>1 DEF TypeOK, Filling
  <2>3. room[u].changed \/ Id(u) = d
    BY <2>1 DEF ListInv, LostChanged, MapInv, Reaching
  <2>4. QED
    BY <1>1, <2>2, <2>3, NullAssumption DEF Change
<1>6. QED
  BY <1>3, <1>4, <1>5 DEF ListInv

LEMMA ListMap ==
  ASSUME TypeOK, Filling, MapInv, ListInv, NEW t \in Thread, Insert(t) \/ Erase(t)
  PROVE  ListInv'
<1> DEFINE d == Id(t)
<1>1. d \in DevId /\ pc'[t] = "idle" /\ room' = Change(d)
  BY DEF TypeOK, Insert, Erase, Return, Leave, Call, Id
<1>2. \A u \in Thread \ {t} : pc'[u] = pc[u] /\ call'[u] = call[u]
  BY OthersStay DEF Body
<1>3. \A u \in Thread \ {t} : ptr'[u] = ptr[u] \/ (ptr[u] # Null /\ ptr[u].id = d)
  BY DEF TypeOK, Insert, Erase, Return, LosePointers
<1>4. ASSUME NEW e \in DevId \ {d}, devMap[e] # Null
      PROVE  devMap'[e] = devMap[e] /\ heap'[devMap[e]] = heap[devMap[e]]
  <2>1. /\ devMap[e] \in Addr /\ heap[devMap[e]] # Null /\ heap[devMap[e]].id = e
    BY <1>4 DEF TypeOK, MapInv, Filed
  <2>2. CASE Insert(t)
    <3>1. devMap[d] = Null
      BY <2>2 DEF Insert, MapInv, Driving
    <3>2. QED
      BY <1>1, <1>4, <2>1, <2>2, <3>1 DEF TypeOK, Insert
  <2>3. CASE Erase(t)
    <3>1. devMap[d] # Null /\ heap[devMap[d]].id = d
      BY <1>1, <2>3 DEF Erase, MapInv, Driving, Filed
    <3>2. QED
      BY <1>1, <1>4, <2>1, <2>3, <3>1 DEF TypeOK, Erase
  <2>4. QED
    BY <2>2, <2>3
<1>5. QED
  BY <1>1, <1>2, <1>3, <1>4, ListChange

LEMMA ListCalls ==
  ASSUME TypeOK, Filling, MapInv, ListInv, NEW t \in Thread,
         NumDeviceIds(t) \/ DeviceIds(t) \/ NumP4Names(t) \/ P4Names(t)
  PROVE  ListInv'
<1>1. /\ UNCHANGED <<devMap, heap>> /\ Ids' = Ids
      /\ pc'[t] = "idle"
      /\ \A u \in Thread \ {t} : /\ pc'[u] = pc[u] /\ call'[u] = call[u]
                                 /\ ptr'[u] = ptr[u] /\ room'[u] = room[u]
  BY DEF TypeOK, NumDeviceIds, DeviceIds, NumP4Names, P4Names, MakeRoom, Fill, Return, Leave, Ids
<1>2. LostChanged'
  BY <1>1 DEF ListInv, LostChanged
<1>3. /\ pc[t] # "idle" /\ Id(t) \in DevId
      /\ pc[t] = "inDevice" => /\ ptr[t] \in Pointer /\ ptr[t].id = Id(t)
                               /\ ~ptr[t].lost => devMap[Id(t)] = ptr[t].addr
  BY DEF TypeOK, MapInv, Reaching, NumDeviceIds, DeviceIds, NumP4Names, P4Names, At, In, Call, Id
<1>4. SUFFICES ASSUME room'[t] # Null, ~room'[t].changed
               PROVE  /\ room[t]'.of = Null => room'[t].n = Cardinality(Ids)
                      /\ room[t]'.of # Null =>
                           /\ devMap[room'[t].of] # Null
                           /\ room'[t].n = Cardinality(Names(heap[devMap[room'[t].of]]))
                      /\ room'[t].filled \in {Null, room'[t].n}
  BY <1>1, <1>2 DEF ListInv, Counted, ListFits
<1>5. CASE NumDeviceIds(t)
  BY <1>5, NullAssumption DEF TypeOK, NumDeviceIds, MakeRoom
<1>6. CASE NumP4Names(t)
  <2>1. room'[t] = [of |-> Id(t), n |-> Cardinality(Names(heap[ptr[t].addr])), filled |-> Null,
                    changed |-> ptr[t].lost]
    BY <1>6 DEF TypeOK, NumP4Names, MakeRoom
  <2>2. devMap[Id(t)] = ptr[t].addr /\ ptr[t].addr \in Addr
    BY <1>3, <1>4, <1>6, <2>1 DEF NumP4Names, In, Pointer
  <2>3. QED
    BY <1>3, <2>1, <2>2, NullAssumption
<1>7. ASSUME NEW n, Fill(t, n), room[t] # Null
      PROVE  /\ room[t] \in Room /\ room'[t] = [room[t] EXCEPT !.filled = n]
             /\ room'[t].of = room[t].of /\ room'[t].n = room[t].n
             /\ room'[t].changed = room[t].changed /\ room'[t].filled = n
  BY <1>7 DEF TypeOK, Fill, Room
<1>8. CASE DeviceIds(t)
  <2>1. room[t] # Null /\ room[t].of = Null
    BY <1>3, <1>8 DEF Filling, DeviceIds, At
  <2>2. QED
    BY <1>4, <1>7, <1>8, <2>1 DEF DeviceIds, ListInv, Counted
<1>9. CASE P4Names(t)
  <2>1. room[t] # Null /\ room[t].of = Id(t) /\ pc[t] = "inDevice" /\ call[t].fn = "names"
    BY <1>3, <1>9 DEF Filling, P4Names, In
  <2>2. /\ room'[t].of = Id(t) /\ room'[t].n = room[t].n /\ ~room[t].changed
        /\ room'[t].filled = Cardinality(Names(heap[ptr[t].addr]))
    BY <1>4, <1>7, <1>9, <2>1 DEF P4Names
  <2>3. devMap[Id(t)] = ptr[t].addr
    BY <1>3, <2>1, <2>2 DEF ListInv, LostChanged
  <2>4. QED
    BY <1>3, <2>1, <2>2, <2>3, NullAssumption DEF ListInv, Counted
<1>10. QED
  BY <1>5, <1>6, <1>8, <1>9

LEMMA ListNext ==
  ASSUME TypeOK, TypeOK', Filling, MapInv, ListInv, [Next]_vars
  PROVE  ListInv'
<1>1. CASE UNCHANGED vars
  BY <1>1 DEF vars, ListInv, Counted, LostChanged, ListFits, Ids
<1>2. ASSUME NEW t \in Thread, NEW fn \in Function, NEW d \in DevId, Begin(t, fn, d)
      PROVE  ListInv'
  BY <1>2, ListKept DEF TypeOK, Begin
<1>3. ASSUME NEW t \in Thread, GetInstance(t)
      PROVE  ListInv'
  <2>1. UNCHANGED <<devMap, heap, ptr, room>> /\ pc'[t] # "inDevice"
    BY <1>3 DEF TypeOK, GetInstance, TestInstance, LockInstance, TestAgain, Construct, Publish,
                Unlock, MayUnlock, Goto, Proceed, deviceVars
  <2>2. QED
    BY <1>3, <2>1, OthersStay, ListKept
<1>4. ASSUME NEW t \in Thread, Body(t)
      PROVE  ListInv'
  <2>1. \A u \in Thread \ {t} : pc'[u] = pc[u] /\ call'[u] = call[u]
    BY <1>4, OthersStay
  <2>2. CASE AddTest(t) \/ RemoveTest(t) \/ Unready(t) \/ Torn(t) \/ Dangle(t)
             \/ DeviceGet(t) \/ FindDevice(t) \/ \E p \in Program : InfoGet(t, p)
    <3>1. UNCHANGED <<devMap, heap, room>>
      BY <2>2 DEF AddTest, RemoveTest, Unready, Torn, Dangle, DeviceGet, FindDevice, InfoGet,
                  Undefined
    <3>2. \A u \in Thread \ {t} : ptr'[u] = ptr[u]
      BY <2>2 DEF TypeOK, AddTest, RemoveTest, Unready, Torn, Dangle, DeviceGet, FindDevice,
                  InfoGet, Undefined, Return
    <3>3. pc'[t] # "inDevice" \/ ~ptr'[t].lost
      BY <2>2 DEF TypeOK, AddTest, RemoveTest, Unready, Torn, Dangle, DeviceGet, FindDevice,
                  InfoGet, At, Undefined, Goto, Return, Leave
    <3>4. QED
      BY <2>1, <3>1, <3>2, <3>3, ListKept
  <2>3. QED
    BY <1>4, <2>2, ListMap, ListCalls DEF Body
<1>5. QED
  BY <1>1, <1>2, <1>3, <1>4 DEF Next

\* The two calls of a list agree unless what is listed has changed in
\* between (Devices!ListFits), for any number of devices and programs.
THEOREM ListsFit == Spec => []ListFits
<1>1. TypeOK /\ Filling /\ [Next]_vars => Filling'
  BY FillingNext
<1>2. TypeOK /\ MapInv /\ [Next]_vars => MapInv'
  BY MapNext
<1>3. TypeOK /\ TypeOK' /\ Filling /\ MapInv /\ ListInv /\ [Next]_vars => ListInv'
  BY ListNext
<1>4. ListInv => ListFits
  BY DEF ListInv
<1>5. QED
  BY <1>1, <1>2, <1>3, <1>4, FillingInit, MapInit, ListInit, TypeCorrect, PTL DEF Spec
=============================================================================
