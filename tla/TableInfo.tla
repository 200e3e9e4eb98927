------------------------------ MODULE TableInfo ------------------------------
(***************************************************************************)
(* What TableInfo and LearnInfo answer about a parsed table: its fields,   *)
(* actions and notification parameters by id and by name.                  *)
(*                                                                         *)
(* A data field belongs to the table (a common field) or to one action.    *)
(* A lookup names an action, or 0 for none; it asks the action first and   *)
(* falls back to the common fields, also when there is no such action.     *)
(***************************************************************************)
EXTENDS Naturals, Bags

CONSTANTS
  Id,               \* the ids a schema gives to fields, actions, notifications
  Name,             \* the names it gives
  NoName,           \* "": the name of what a schema does not have
  Null              \* nullptr

\* The json wrapper reads a missing id as 0.
AnyId == Id \union {0}
AnyName == Name \union {NoName}

\* tdi_id_t has 32 bits: any set of ids has a largest one.
ASSUME IdAssumption ==
  /\ Id \subseteq Nat \ {0}
  /\ \A S \in SUBSET AnyId : S # {} => \E i \in S : \A j \in S : j <= i

-----------------------------------------------------------------------------

\* A std::map from ids: Null where it has no element.
Maps(S) == [AnyId -> S \union {Null}]

\* Key fields and notification parameters.
Param == [id : AnyId, name : AnyName]
DataField == [id : AnyId, name : AnyName, siblings : SUBSET AnyId]
Action == [id : AnyId, name : AnyName, fields : Maps(DataField)]
Notification == [id : AnyId, name : AnyName,
                 registration : Maps(Param), callback : Maps(Param)]

\* "skipped" is history: the parser has left a field of the table out, and
\* logged an error.
Table == [name : AnyName, keys : Maps(Param), data : Maps(DataField),
          actions : Maps(Action), notifications : Maps(Notification),
          skipped : BOOLEAN]

Learn == [name : AnyName, fields : Maps(DataField)]

ASSUME NullAssumption ==
  /\ Null \notin Param /\ Null \notin DataField /\ Null \notin Action
  /\ Null \notin Notification /\ Null \notin Table /\ Null \notin Learn

-----------------------------------------------------------------------------

NoFields == [i \in AnyId |-> Null]

\* The ids a map has elements for, and those with a name.
IdsIn(m) == {i \in AnyId : m[i] # Null}
IdsOf(m, n) == {i \in IdsIn(m) : m[i].name = n}

\* Every map is by the ids its elements have, and a common field has an id the
\* schema gave it, never the 0 of a missing one.
WellKeyed(m) == \A i \in IdsIn(m) : m[i].id = i

WellFormed(t) ==
  /\ WellKeyed(t.keys) /\ WellKeyed(t.data)
  /\ WellKeyed(t.actions) /\ WellKeyed(t.notifications)
  /\ \A a \in IdsIn(t.actions) : WellKeyed(t.actions[a].fields)
  /\ \A n \in IdsIn(t.notifications) :
       WellKeyed(t.notifications[n].registration) /\ WellKeyed(t.notifications[n].callback)
  /\ IdsIn(t.data) \subseteq Id

Highest(S) == CHOOSE i \in S : \A j \in S : j <= i
Lowest(S) == CHOOSE i \in S : \A j \in S : i <= j

\* The constructors enter the elements of a map by name in the order of their
\* ids, so that the last of those that share a name is found by it.
ByName(m, n) == IF IdsOf(m, n) = {} THEN Null ELSE m[Highest(IdsOf(m, n))]

KeyFieldById(ti, f) == ti.keys[f]
KeyFieldByName(ti, n) == ByName(ti.keys, n)

ActionById(ti, a) == ti.actions[a]
ActionByName(ti, n) == ByName(ti.actions, n)

\* The fields of an action; none if there is no such action.
OwnFields(ti, a) ==
  IF a # 0 /\ ti.actions[a] # Null THEN ti.actions[a].fields ELSE NoFields

\* What the action has, or else what the table has.
OrElse(own, common) == IF own # Null THEN own ELSE common

\* Mutation: the common fields are looked at first.
DataFieldById_CommonFirst(ti, f, a) == OrElse(ti.data[f], OwnFields(ti, a)[f])

DataFieldById(ti, f, a) == OrElse(OwnFields(ti, a)[f], ti.data[f])

DataFieldByName(ti, n, a) ==
  OrElse(ByName(OwnFields(ti, a), n), ByName(ti.data, n))

\* Mutation: for an action that is not there the function returns early.
DataFieldIdList_ReturnsEarly(ti, a) ==
  IF a # 0 /\ ti.actions[a] = Null
    THEN EmptyBag
    ELSE SetToBag(IdsIn(OwnFields(ti, a))) (+) SetToBag(IdsIn(ti.data))

\* The list is sorted, so it is determined by how often it has each id.
DataFieldIdList(ti, a) ==
  SetToBag(IdsIn(OwnFields(ti, a))) (+) SetToBag(IdsIn(ti.data))

RegistrationParam(ti, f, n) ==
  IF n # 0 /\ ti.notifications[n] # Null
    THEN ti.notifications[n].registration[f] ELSE Null

CallbackParam(ti, f, n) ==
  IF n # 0 /\ ti.notifications[n] # Null
    THEN ti.notifications[n].callback[f] ELSE Null

\* A learn keeps no map of names: the first field in the order of ids is
\* found.  The answer is 0 if there is none.
LearnFieldIdGet(learn, n) ==
  IF IdsOf(learn.fields, n) = {} THEN 0
  ELSE learn.fields[Lowest(IdsOf(learn.fields, n))].id

LearnFieldById(learn, f) == learn.fields[f]
=============================================================================
