--------------------------- MODULE TableWalk_proofs ---------------------------
(***************************************************************************)
(* Proofs about TableWalk, for every schema: the walk of the Python layer  *)
(* through the functions of the C frontend never breaks, and ends with     *)
(* dictionaries that agree with what the C frontend answers by name.       *)
(***************************************************************************)
EXTENDS TableWalk, FiniteSetTheorems, WellFoundedInduction, TLAPS

-----------------------------------------------------------------------------

(***************************************************************************)
(* Ids and lists.                                                          *)
(***************************************************************************)

LEMMA IdsAreNat == AnyId \subseteq Nat
BY IdAssumption DEF AnyId

\* A nonempty set of ids has a lowest and a highest one.
LEMMA LowestFact ==
  ASSUME NEW S \in SUBSET AnyId, S # {}
  PROVE  Lowest(S) \in S /\ \A j \in S : Lowest(S) <= j
<1> DEFINE R == OpToRel(<, Nat)
<1>1. S \in SUBSET Nat
  BY IdsAreNat
<1>2. IsWellFoundedOn(R, Nat)
  BY NatLessThanWellFounded
<1>3. \A x, y \in Nat : x < y => <<x, y>> \in R
  BY DEF OpToRel
<1> HIDE DEF R
<1>4. PICK n \in S : \A j \in S : ~(<<j, n>> \in R)
  BY <1>1, <1>2, WFMin
<1>5. ASSUME NEW j \in S
      PROVE  n <= j
  <2>1. n \in Nat /\ j \in Nat
    BY <1>1
  <2>2. ~(j < n)
    BY <1>3, <1>4, <2>1
  <2>3. QED
    BY <2>1, <2>2
<1>6. QED
  BY <1>1, <1>5 DEF Lowest

LEMMA HighestFact ==
  ASSUME NEW S \in SUBSET AnyId, S # {}
  PROVE  Highest(S) \in S /\ \A j \in S : j <= Highest(S)
BY IdAssumption DEF Highest

\* The highest of some ids, when a higher one joins them.
LEMMA HighestGrows ==
  ASSUME NEW S \in SUBSET AnyId, NEW i \in AnyId, \A j \in S : j < i
  PROVE  Highest(S \union {i}) = i
<1> DEFINE T == S \union {i}
<1>1. T \in SUBSET AnyId /\ T # {}
  OBVIOUS
<1>2. Highest(T) \in T /\ \A j \in T : j <= Highest(T)
  <2> HIDE DEF T
  <2>1. QED
    BY <1>1, HighestFact
<1>3. Highest(T) \in Nat /\ i \in Nat /\ i <= Highest(T)
  BY <1>1, <1>2, IdsAreNat
<1>4. Highest(T) \in S => Highest(T) < i
  OBVIOUS
<1>5. QED
  BY <1>2, <1>3, <1>4

LEMMA IdsFinite == IsFiniteSet(AnyId)
<1>1. PICK k \in AnyId : \A j \in AnyId : j <= k
  BY IdAssumption DEF AnyId
<1>2. AnyId \in SUBSET Nat /\ k \in Nat
  BY IdsAreNat
<1>3. QED
  BY <1>1, <1>2, FS_BoundedSetOfNaturals

\* A list has each of finitely many elements once or twice.
List(S) == UNION {[D -> 1..2] : D \in SUBSET S}

\* An array with room for what a list announces holds the list, and nothing
\* else; only an empty list announces nothing.
LEMMA ListFact ==
  ASSUME NEW S, IsFiniteSet(S), NEW list \in List(S)
  PROVE  /\ Written(Size(list), list) = DOMAIN list
         /\ Size(list) = 0 <=> DOMAIN list = {}
<1> DEFINE copies == UNION {{e} \X (1..list[e]) : e \in DOMAIN list}
<1>1. DOMAIN list \subseteq S /\ \A e \in DOMAIN list : list[e] \in 1..2
  BY DEF List
<1>2. copies \subseteq S \X (1..2)
  BY <1>1
<1>3. IsFiniteSet(copies)
  <2>1. IsFiniteSet(1..2)
    <3>1. 1..2 \in SUBSET Nat /\ 2 \in Nat /\ \A n \in 1..2 : n <= 2
      OBVIOUS
    <3>2. QED
      BY <3>1, FS_BoundedSetOfNaturals
  <2>2. IsFiniteSet(S \X (1..2))
    BY <2>1, FS_Product
  <2>3. copies \in SUBSET (S \X (1..2))
    BY <1>2
  <2> HIDE DEF copies
  <2>4. QED
    BY <2>2, <2>3, FS_Subset
<1>4. Cardinality(copies) \in Nat /\ (Cardinality(copies) = 0 <=> copies = {})
  BY <1>3, FS_CardinalityType, FS_EmptySet
<1>5. Size(list) = Cardinality(copies)
  BY DEF Size, BagToSet
<1>6. copies = {} <=> DOMAIN list = {}
  <2>1. ASSUME NEW e \in DOMAIN list
        PROVE  <<e, 1>> \in copies
    BY <1>1
  <2>2. QED
    BY <2>1
<1>7. QED
  BY <1>4, <1>5, <1>6 DEF Written, BagToSet

LEMMA SetListFact ==
  ASSUME NEW S, IsFiniteSet(S)
  PROVE  /\ Written(Size(SetToBag(S)), SetToBag(S)) = S
         /\ Size(SetToBag(S)) = 0 <=> S = {}
<1>1. SetToBag(S) \in [S -> 1..2]
  BY DEF SetToBag
<1>2. SetToBag(S) \in List(S) /\ DOMAIN SetToBag(S) = S
  BY <1>1 DEF List
<1>3. QED
  BY <1>2, ListFact

-----------------------------------------------------------------------------

(***************************************************************************)
(* What a table has, and what its lists say of it.                         *)
(***************************************************************************)

\* The data fields a lookup by id finds under an action, or under none.
Reached(t, a) == [i \in AnyId |-> DataFieldById(t, i, a)]

LEMMA TableFact ==
  ASSUME NEW t \in Schema
  PROVE  /\ t \in Table
         /\ t.keys \in Maps(Param) /\ WellKeyed(t.keys)
         /\ t.data \in Maps(DataField) /\ WellKeyed(t.data)
         /\ t.actions \in Maps(Action) /\ WellKeyed(t.actions)
         /\ t.notifications \in Maps(Notification)
         /\ \A a \in IdsIn(t.actions) : WellKeyed(t.actions[a].fields)
BY SchemaAssumption DEF Table, WellFormed

LEMMA OwnFact ==
  ASSUME NEW t \in Schema, NEW a \in AnyId
  PROVE  OwnFields(t, a) \in Maps(DataField) /\ WellKeyed(OwnFields(t, a))
<1>1. CASE a # 0 /\ t.actions[a] # Null
  <2>1. t.actions[a] \in Action /\ a \in IdsIn(t.actions)
    BY <1>1, TableFact DEF Maps, IdsIn
  <2>2. OwnFields(t, a) = t.actions[a].fields
    BY <1>1 DEF OwnFields
  <2>3. QED
    BY <2>1, <2>2, TableFact DEF Action
<1>2. CASE ~(a # 0 /\ t.actions[a] # Null)
  BY <1>2 DEF OwnFields, NoFields, Maps, WellKeyed, IdsIn
<1>3. QED
  BY <1>1, <1>2

LEMMA ReachedFact ==
  ASSUME NEW t \in Schema, NEW a \in AnyId
  PROVE  /\ Reached(t, a) \in Maps(DataField)
         /\ WellKeyed(Reached(t, a))
         /\ IdsIn(Reached(t, a)) = IdsIn(OwnFields(t, a)) \union IdsIn(t.data)
<1>1. \A i \in AnyId : Reached(t, a)[i] = OrElse(OwnFields(t, a)[i], t.data[i])
  BY DEF Reached, DataFieldById
<1>2. Reached(t, a) = [i \in AnyId |-> Reached(t, a)[i]]
  BY DEF Reached
<1>3. Reached(t, a) \in Maps(DataField)
  BY <1>1, <1>2, OwnFact, TableFact DEF Maps, OrElse
<1>4. WellKeyed(Reached(t, a))
  BY <1>1, OwnFact, TableFact DEF WellKeyed, IdsIn, OrElse
<1>5. IdsIn(Reached(t, a)) = IdsIn(OwnFields(t, a)) \union IdsIn(t.data)
  BY <1>1 DEF IdsIn, OrElse
<1>6. QED
  BY <1>3, <1>4, <1>5

\* The list of data fields under an action names what can be found there.
LEMMA DataListFact ==
  ASSUME NEW t \in Schema, NEW a \in AnyId
  PROVE  /\ DataFieldIdList(t, a) \in List(AnyId)
         /\ DOMAIN DataFieldIdList(t, a) = IdsIn(Reached(t, a))
<1> DEFINE own == IdsIn(OwnFields(t, a))
           common == IdsIn(t.data)
<1>1. DataFieldIdList(t, a) =
        [i \in own \union common |-> (IF i \in own THEN 1 ELSE 0) + (IF i \in common THEN 1 ELSE 0)]
  BY DEF DataFieldIdList, SetToBag, (+)
<1>2. own \subseteq AnyId /\ common \subseteq AnyId
  BY DEF IdsIn
<1> HIDE DEF own, common
<1>3. DataFieldIdList(t, a) \in [own \union common -> 1..2]
  BY <1>1
<1>4. own \union common \in SUBSET AnyId
  BY <1>2
<1>5. QED
  BY <1>1, <1>3, <1>4, ReachedFact DEF List, own, common

LEMMA IdsInFact ==
  ASSUME NEW m
  PROVE  /\ IdsIn(m) \in SUBSET AnyId
         /\ IsFiniteSet(IdsIn(m))
         /\ \A n : IdsOf(m, n) \in SUBSET AnyId
<1>1. IdsIn(m) \in SUBSET AnyId
  BY DEF IdsIn
<1>2. QED
  BY <1>1, IdsFinite, FS_Subset DEF IdsOf

\* Each list, in an array of the announced size.
LEMMA KeyList ==
  ASSUME NEW t \in Schema
  PROVE  /\ KeyFieldIds(t, NumKeyFieldIds(t)) = IdsIn(t.keys)
         /\ NumKeyFieldIds(t) = 0 <=> IdsIn(t.keys) = {}
BY IdsInFact, SetListFact DEF KeyFieldIds, NumKeyFieldIds

LEMMA ActionList ==
  ASSUME NEW t \in Schema
  PROVE  /\ ActionIds(t, NumActionIds(t)) = IdsIn(t.actions)
         /\ NumActionIds(t) = 0 <=> IdsIn(t.actions) = {}
BY IdsInFact, SetListFact DEF ActionIds, NumActionIds

LEMMA DataList ==
  ASSUME NEW t \in Schema, NEW a \in AnyId
  PROVE  /\ DataFieldIdsWithAction(t, a, NumDataFieldIdsWithAction(t, a)) = IdsIn(Reached(t, a))
         /\ NumDataFieldIdsWithAction(t, a) = 0 <=> IdsIn(Reached(t, a)) = {}
BY IdsFinite, DataListFact, ListFact DEF DataFieldIdsWithAction, NumDataFieldIdsWithAction

LEMMA CommonList ==
  ASSUME NEW t \in Schema
  PROVE  /\ DataFieldIds(t, NumDataFieldIds(t)) = IdsIn(Reached(t, 0))
         /\ NumDataFieldIds(t) = 0 <=> IdsIn(Reached(t, 0)) = {}
<1>1. 0 \in AnyId
  BY DEF AnyId
<1>2. QED
  BY <1>1, IdsFinite, DataListFact, ListFact DEF DataFieldIds, NumDataFieldIds

\* The lists of what a table supports are no longer than announced.
LEMMA SupportedLists ==
  ASSUME NEW t \in Schema, NEW S \in SUBSET Feature
  PROVE  /\ Attributes(S, NumAttributes(S)) # Null
         /\ Operations(S, NumOperations(S)) # Null
         /\ Apis(S, NumApis(S)) # Null
         /\ Notifications(t, NumNotifications(t)) # Null
<1>1. IsFiniteSet(S) /\ S # Null
  BY FeatureAssumption, FS_Subset
<1>2. Written(Size(SetToBag(S)), SetToBag(S)) # Null
  BY <1>1, SetListFact
<1> DEFINE ids == IdsIn(t.notifications)
           f == [i \in ids |-> t.notifications[i].name]
           names == NotificationNames(t)
<1>3. names \in SUBSET AnyName
  BY TableFact DEF NotificationNames, IdsIn, Maps, Notification
<1>4. IsFiniteSet(names)
  <2>1. f \in Surjection(ids, names)
    BY DEF NotificationNames, Surjection
  <2>2. IsFiniteSet(ids)
    BY IdsInFact
  <2> HIDE DEF f, ids, names
  <2>3. QED
    BY <2>1, <2>2, FS_Surjection
<1>5. Notifications(t, NumNotifications(t)) # Null
  BY <1>3, <1>4, SetListFact, ArrayAssumption DEF Notifications, NumNotifications
<1>6. QED
  BY <1>2, <1>5 DEF Attributes, NumAttributes, Operations, NumOperations, Apis, NumApis

-----------------------------------------------------------------------------

(***************************************************************************)
(* The walk: what is asked for is there.                                   *)
(***************************************************************************)

\* What is left in the array in hand has been listed, under the action that
\* it will be asked for by.
Walked ==
  /\ ti \in Schema
  /\ at = "keyFields" => todo \subseteq IdsIn(ti.keys)
  /\ at = "action" => todo \subseteq IdsIn(ti.actions)
  /\ at = "dataFields" => todo \subseteq IdsIn(Reached(ti, CurrentAction))
  /\ current # Null => actions[current] # Null

WalkInv == TypeOK /\ Walked /\ WalkIsSafe

LEMMA WalkInit == Init => WalkInv
<1>1. NoEntries \in Dict(FieldOf(Param)) /\ NoEntries \in Dict(FieldOf(DataField))
      /\ NoEntries \in Dict(MirroredAction)
  BY DEF NoEntries, Dict
<1>2. QED
  BY <1>1, TableFact DEF Init, WalkInv, TypeOK, Walked, WalkIsSafe, Ended

\* The next id of an array that is not empty is one of it.
LEMMA NextIdFact ==
  ASSUME TypeOK, todo # {}
  PROVE  NextId \in todo /\ NextId \in AnyId /\ \A j \in todo : NextId <= j
BY LowestFact DEF TypeOK, NextId

\* CurrentAction is an id.
LEMMA CurrentFact ==
  ASSUME TypeOK, Walked
  PROVE  CurrentAction \in AnyId
<1>1. CASE current = Null
  BY <1>1 DEF CurrentAction, AnyId
<1>2. CASE current # Null
  <2>1. actions[current] \in MirroredAction
    BY <1>2 DEF TypeOK, Walked, Dict
  <2>2. QED
    BY <1>2, <2>1 DEF CurrentAction, MirroredAction
<1>3. QED
  BY <1>1, <1>2

\* An array with room for a list is gone through, if there is anything in it.
LEMMA TakeFact ==
  ASSUME NEW n, NEW S \in SUBSET AnyId, n = 0 <=> S = {}, NEW loop, NEW next,
         Take(n, S, loop, next)
  PROVE  todo' = S /\ at' = IF S = {} THEN next ELSE loop
<1>1. S # Null
  BY ArrayAssumption
<1>2. QED
  BY <1>1 DEF Take

\* The steps of the constructor, with the tests of the code decided: whatever
\* is asked for is found.
LEMMA ListKeyFieldsFact ==
  ASSUME WalkInv, ListKeyFields
  PROVE  /\ ti \in Schema /\ at = "keys"
         /\ at' = IF IdsIn(ti.keys) = {} THEN "actions" ELSE "keyFields"
         /\ todo' = IdsIn(ti.keys)
         /\ UNCHANGED <<ti, current, waiting, mirror>>
<1>1. ti \in Schema
  BY DEF WalkInv, Walked
<1>2. Take(NumKeyFieldIds(ti), IdsIn(ti.keys), "keyFields", "actions")
  BY <1>1, KeyList DEF ListKeyFields
<1>3. todo' = IdsIn(ti.keys) /\ at' = IF IdsIn(ti.keys) = {} THEN "actions" ELSE "keyFields"
  BY <1>1, <1>2, KeyList, IdsInFact, TakeFact
<1>4. QED
  BY <1>1, <1>3 DEF ListKeyFields

LEMMA InitKeyFieldFact ==
  ASSUME WalkInv, InitKeyField
  PROVE  LET k == ti.keys[NextId]
             entry == [id |-> NextId, info |-> k]
         IN  /\ ti \in Schema /\ at = "keyFields" /\ todo \subseteq IdsIn(ti.keys)
             /\ NextId \in todo /\ \A j \in todo : NextId <= j
             /\ k.name \in AnyName /\ entry \in FieldOf(Param)
             /\ keyFields' = [keyFields EXCEPT ![k.name] = entry]
             /\ Advance("keyFields", "actions")
             /\ UNCHANGED <<ti, current, waiting, actions, actionIdNameMap, dataFields>>
<1> DEFINE k == ti.keys[NextId]
<1>1. ti \in Schema /\ todo # {} /\ at = "keyFields" /\ todo \subseteq IdsIn(ti.keys)
  BY DEF WalkInv, TypeOK, Walked, InitKeyField
<1>2. NextId \in todo /\ NextId \in AnyId /\ \A j \in todo : NextId <= j
  BY <1>1, NextIdFact DEF WalkInv
<1>3. k \in Param /\ k # Null /\ k.name \in AnyName
  BY <1>1, <1>2, TableFact DEF IdsIn, Maps, Param
<1>4. /\ keyFields' = [keyFields EXCEPT ![k.name] = [id |-> NextId, info |-> k]]
      /\ Advance("keyFields", "actions")
      /\ UNCHANGED <<ti, current, waiting, actions, actionIdNameMap, dataFields>>
  BY <1>3 DEF InitKeyField, KeyFieldAttributes, KeyFieldChoices, KeyFieldById
<1>5. [id |-> NextId, info |-> k] \in FieldOf(Param)
  BY <1>2, <1>3 DEF FieldOf
<1>6. QED
  BY <1>1, <1>2, <1>3, <1>4, <1>5

LEMMA ListActionsFact ==
  ASSUME WalkInv, ListActions
  PROVE  /\ ti \in Schema /\ at = "actions"
         /\ at' = IF IdsIn(ti.actions) = {} THEN "data" ELSE "action"
         /\ todo' = IdsIn(ti.actions)
         /\ UNCHANGED <<ti, current, waiting, mirror>>
<1>1. ti \in Schema
  BY DEF WalkInv, Walked
<1>2. Take(NumActionIds(ti), IdsIn(ti.actions), "action", "data")
  BY <1>1, ActionList DEF ListActions
<1>3. todo' = IdsIn(ti.actions) /\ at' = IF IdsIn(ti.actions) = {} THEN "data" ELSE "action"
  BY <1>1, <1>2, ActionList, IdsInFact, TakeFact
<1>4. QED
  BY <1>1, <1>3 DEF ListActions

LEMMA InitActionFact ==
  ASSUME WalkInv, InitAction
  PROVE  LET n == ti.actions[NextId].name
             entry == [id |-> NextId, fields |-> NoEntries]
         IN  /\ ti \in Schema /\ at = "action" /\ todo \subseteq IdsIn(ti.actions)
             /\ NextId \in todo /\ \A j \in todo : NextId <= j
             /\ n \in AnyName /\ entry \in MirroredAction /\ entry # Null
             /\ actions' = [actions EXCEPT ![n] = entry]
             /\ actionIdNameMap' = [actionIdNameMap EXCEPT ![NextId] = n]
             /\ waiting' = waiting \union {n}
             /\ Advance("action", "data")
             /\ UNCHANGED <<ti, current, keyFields, dataFields>>
<1> DEFINE a == ti.actions[NextId]
           n == a.name
           entry == [id |-> NextId, fields |-> NoEntries]
<1>1. ti \in Schema /\ todo # {} /\ at = "action" /\ todo \subseteq IdsIn(ti.actions)
  BY DEF WalkInv, TypeOK, Walked, InitAction
<1>2. NextId \in todo /\ NextId \in AnyId /\ \A j \in todo : NextId <= j
  BY <1>1, NextIdFact DEF WalkInv
<1>3. a \in Action /\ a # Null /\ n \in AnyName /\ n # Null
  BY <1>1, <1>2, TableFact, EntryAssumption DEF IdsIn, Maps, Action
<1>4. ActionName(ti, NextId) = n /\ ActionAnnotations(ti, NextId) # Null
  BY <1>3 DEF ActionName, ActionAnnotations, ActionById, NameOf
<1>5. /\ actions' = [actions EXCEPT ![n] = entry]
      /\ actionIdNameMap' = [actionIdNameMap EXCEPT ![NextId] = n]
      /\ waiting' = waiting \union {n}
      /\ Advance("action", "data")
      /\ UNCHANGED <<ti, current, keyFields, dataFields>>
  BY <1>3, <1>4 DEF InitAction
<1>6. entry \in MirroredAction /\ entry # Null
  BY <1>2, EntryAssumption DEF MirroredAction, NoEntries, Dict
<1>7. QED
  BY <1>1, <1>2, <1>3, <1>5, <1>6

LEMMA ListDataFieldsFact ==
  ASSUME WalkInv, ListDataFields
  PROVE  /\ ti \in Schema /\ at = "data"
         /\ current = Null /\ actions = NoEntries
         /\ at' = IF IdsIn(Reached(ti, 0)) = {} THEN "done" ELSE "dataFields"
         /\ todo' = IdsIn(Reached(ti, 0))
         /\ UNCHANGED <<ti, current, waiting, mirror>>
<1>1. ti \in Schema
  BY DEF WalkInv, Walked
<1>2. current = Null
  <2>1. current \in AnyName => actions[current] = Null
    BY DEF ListDataFields, NoEntries
  <2>2. QED
    BY <2>1 DEF WalkInv, TypeOK, Walked
<1>3. Take(NumDataFieldIds(ti), IdsIn(Reached(ti, 0)), "dataFields", "done")
  BY <1>1, CommonList DEF ListDataFields
<1>4. /\ todo' = IdsIn(Reached(ti, 0))
      /\ at' = IF IdsIn(Reached(ti, 0)) = {} THEN "done" ELSE "dataFields"
  BY <1>1, <1>3, CommonList, IdsInFact, TakeFact
<1>5. QED
  BY <1>1, <1>2, <1>4 DEF ListDataFields

LEMMA ListActionFieldsFact ==
  ASSUME WalkInv, NEW n \in AnyName, ListActionFields(n)
  PROVE  LET ids == IdsIn(Reached(ti, actions[n].id))
         IN  /\ ti \in Schema /\ at = "data" /\ n \in waiting /\ n # Null
             /\ actions[n] \in MirroredAction /\ actions[n] # Null /\ actions[n].id \in AnyId
             /\ at' = IF ids = {} THEN "data" ELSE "dataFields"
             /\ todo' = ids
             /\ current' = n
             /\ waiting' = waiting \ {n}
             /\ UNCHANGED <<ti, mirror>>
<1> DEFINE a == actions[n].id
<1>1. ti \in Schema /\ n # Null
  BY EntryAssumption DEF WalkInv, Walked
<1>2. actions[n] \in MirroredAction /\ actions[n] # Null /\ a \in AnyId
  BY DEF WalkInv, TypeOK, ListActionFields, Dict, MirroredAction
<1>3. Take(NumDataFieldIdsWithAction(ti, a), IdsIn(Reached(ti, a)), "dataFields", "data")
  BY <1>1, <1>2, DataList DEF ListActionFields
<1>4. /\ todo' = IdsIn(Reached(ti, a))
      /\ at' = IF IdsIn(Reached(ti, a)) = {} THEN "data" ELSE "dataFields"
  BY <1>1, <1>2, <1>3, DataList, IdsInFact, TakeFact
<1>5. QED
  BY <1>1, <1>2, <1>4 DEF ListActionFields

LEMMA WalkKeys ==
  ASSUME WalkInv, ListKeyFields \/ InitKeyField
  PROVE  WalkInv'
<1>1. CASE ListKeyFields
  <2>1. IdsIn(ti.keys) \in SUBSET AnyId
    BY IdsInFact
  <2>2. QED
    BY <1>1, <2>1, ListKeyFieldsFact DEF WalkInv, TypeOK, Walked, WalkIsSafe, mirror, Ended
<1>2. CASE InitKeyField
  <2>1. keyFields' \in Dict(FieldOf(Param))
    BY <1>2, InitKeyFieldFact DEF WalkInv, TypeOK, Dict
  <2>2. /\ todo' = todo \ {NextId} /\ at' \in {"keyFields", "actions"}
        /\ at' = "keyFields" => todo' # {}
    BY <1>2, InitKeyFieldFact DEF Advance
  <2>3. QED
    BY <1>2, <2>1, <2>2, InitKeyFieldFact DEF WalkInv, TypeOK, Walked, WalkIsSafe, Ended
<1>3. QED
  BY <1>1, <1>2

LEMMA WalkActions ==
  ASSUME WalkInv, ListActions \/ InitAction
  PROVE  WalkInv'
<1>1. CASE ListActions
  <2>1. IdsIn(ti.actions) \in SUBSET AnyId
    BY IdsInFact
  <2>2. QED
    BY <1>1, <2>1, ListActionsFact DEF WalkInv, TypeOK, Walked, WalkIsSafe, mirror, Ended
<1>2. CASE InitAction
  <2> DEFINE n == ti.actions[NextId].name
             entry == [id |-> NextId, fields |-> NoEntries]
  <2>1. /\ ti \in Schema /\ at = "action" /\ NextId \in todo
        /\ n \in AnyName /\ entry \in MirroredAction /\ entry # Null
        /\ actions' = [actions EXCEPT ![n] = entry]
        /\ actionIdNameMap' = [actionIdNameMap EXCEPT ![NextId] = n]
        /\ waiting' = waiting \union {n}
        /\ Advance("action", "data")
        /\ UNCHANGED <<ti, current, keyFields, dataFields>>
    BY <1>2, InitActionFact
  <2> HIDE DEF entry, n
  <2>2. /\ actions' \in Dict(MirroredAction)
        /\ \A m \in AnyName : actions[m] # Null => actions'[m] # Null
        /\ actions'[n] # Null
    BY <2>1 DEF WalkInv, TypeOK, Dict
  <2>3. actionIdNameMap' \in [AnyId -> AnyName \union {Null}]
    BY <2>1 DEF WalkInv, TypeOK
  <2>4. /\ todo' = todo \ {NextId} /\ at' \in {"action", "data"}
        /\ at' = "action" => todo' # {}
    BY <2>1 DEF Advance
  <2>5. TypeOK'
    BY <2>1, <2>2, <2>3, <2>4 DEF WalkInv, TypeOK
  <2>6. Walked' /\ WalkIsSafe'
    BY <2>1, <2>2, <2>4 DEF WalkInv, TypeOK, Walked, WalkIsSafe
  <2>7. QED
    BY <2>5, <2>6 DEF WalkInv
<1>3. QED
  BY <1>1, <1>2

LEMMA WalkDataLists ==
  ASSUME WalkInv, ListDataFields \/ \E n \in AnyName : ListActionFields(n)
  PROVE  WalkInv'
<1>1. CASE ListDataFields
  <2>1. IdsIn(Reached(ti, 0)) \in SUBSET AnyId
    BY IdsInFact
  <2>2. Reached(ti, CurrentAction)' = Reached(ti, 0)
    BY <1>1, ListDataFieldsFact DEF CurrentAction, mirror, Reached
  <2>3. QED
    BY <1>1, <2>1, <2>2, ListDataFieldsFact DEF WalkInv, TypeOK, Walked, WalkIsSafe, mirror, Ended
<1>2. ASSUME NEW n \in AnyName, ListActionFields(n)
      PROVE  WalkInv'
  <2>1. IdsIn(Reached(ti, actions[n].id)) \in SUBSET AnyId
    BY IdsInFact
  <2>2. Reached(ti, CurrentAction)' = Reached(ti, actions[n].id)
    BY <1>2, ListActionFieldsFact DEF CurrentAction, mirror, Reached
  <2>3. QED
    BY <1>2, <2>1, <2>2, ListActionFieldsFact
       DEF WalkInv, TypeOK, Walked, WalkIsSafe, mirror, Ended
<1>3. QED
  BY <1>1, <1>2

LEMMA InitDataFieldFact ==
  ASSUME WalkInv, InitDataField
  PROVE  LET d == Reached(ti, CurrentAction)[NextId]
             field == [id |-> NextId, info |-> d]
         IN  /\ ti \in Schema /\ CurrentAction \in AnyId /\ at = "dataFields"
             /\ NextId \in todo /\ NextId \in IdsIn(Reached(ti, CurrentAction))
             /\ \A j \in todo : NextId <= j
             /\ d \in DataField /\ d.name \in AnyName
             /\ field \in FieldOf(DataField)
             /\ IF current = Null
                  THEN /\ dataFields' = [dataFields EXCEPT ![d.name] = field]
                       /\ UNCHANGED actions
                  ELSE /\ actions' = [actions EXCEPT ![current].fields[d.name] = field]
                       /\ UNCHANGED dataFields
             /\ \/ Advance("dataFields", IF current = Null THEN "done" ELSE "data")
                \/ at' = "raised" /\ UNCHANGED todo
             /\ UNCHANGED <<ti, current, waiting, keyFields, actionIdNameMap>>
<1> DEFINE a == CurrentAction
           d == Reached(ti, a)[NextId]
<1>1. ti \in Schema /\ a \in AnyId /\ todo # {} /\ at = "dataFields"
  BY CurrentFact DEF WalkInv, TypeOK, Walked, InitDataField
<1>2. NextId \in todo /\ NextId \in AnyId /\ \A j \in todo : NextId <= j
  BY <1>1, NextIdFact DEF WalkInv
<1>3. NextId \in IdsIn(Reached(ti, a))
  BY <1>1, <1>2 DEF WalkInv, Walked
<1>4. d \in DataField /\ d # Null /\ d.name \in AnyName
  BY <1>1, <1>2, <1>3, ReachedFact DEF IdsIn, Maps, DataField
<1>5. d = DataFieldById(ti, NextId, a)
  BY <1>2 DEF Reached
<1>6. [id |-> NextId, info |-> d] \in FieldOf(DataField)
  BY <1>2, <1>4 DEF FieldOf
<1> HIDE DEF d
<1>7. Null \notin {DataFieldAttributes(ti, NextId, a), DataFieldType(ti, NextId, a),
                   DataFieldChoices(ti, NextId, a), DataFieldAnnotations(ti, NextId, a)}
      /\ DataFieldAttributes(ti, NextId, a) = d
  BY <1>4, <1>5 DEF DataFieldAttributes, DataFieldType, DataFieldChoices, DataFieldAnnotations
<1>8. /\ IF current = Null
           THEN /\ dataFields' = [dataFields EXCEPT ![d.name] = [id |-> NextId, info |-> d]]
                /\ UNCHANGED actions
           ELSE /\ actions' = [actions EXCEPT ![current].fields[d.name] = [id |-> NextId, info |-> d]]
                /\ UNCHANGED dataFields
      /\ \/ Advance("dataFields", IF current = Null THEN "done" ELSE "data")
         \/ at' = "raised" /\ UNCHANGED todo
      /\ UNCHANGED <<ti, current, waiting, keyFields, actionIdNameMap>>
  BY <1>7 DEF InitDataField
<1>9. QED
  BY <1>1, <1>2, <1>3, <1>4, <1>6, <1>8 DEF d

LEMMA WalkData ==
  ASSUME WalkInv, InitDataField
  PROVE  WalkInv'
<1> DEFINE d == Reached(ti, CurrentAction)[NextId]
           field == [id |-> NextId, info |-> d]
<1>1. d.name \in AnyName /\ field \in FieldOf(DataField) /\ NextId \in todo /\ ti \in Schema
      /\ todo \subseteq IdsIn(Reached(ti, CurrentAction)) /\ at = "dataFields"
  BY InitDataFieldFact DEF WalkInv, Walked
<1>2. /\ IF current = Null
           THEN dataFields' = [dataFields EXCEPT ![d.name] = field] /\ UNCHANGED actions
           ELSE /\ actions' = [actions EXCEPT ![current].fields[d.name] = field]
                /\ UNCHANGED dataFields
      /\ UNCHANGED <<ti, current, waiting, keyFields, actionIdNameMap>>
  BY InitDataFieldFact
<1>3. /\ at' \in {"dataFields", "done", "data", "raised"} /\ todo' \subseteq todo
      /\ at' = "dataFields" => todo' # {}
  BY InitDataFieldFact DEF Advance
<1> HIDE DEF d, field
<1>4. CASE current = Null
  <2>1. dataFields' \in Dict(FieldOf(DataField)) /\ actions' = actions
    BY <1>1, <1>2, <1>4 DEF WalkInv, TypeOK, Dict
  <2>2. CurrentAction' = CurrentAction /\ Reached(ti, CurrentAction)' = Reached(ti, CurrentAction)
    BY <1>2, <1>4 DEF CurrentAction, Reached
  <2>3. TypeOK'
    BY <1>1, <1>2, <1>3, <1>4, <2>1 DEF WalkInv, TypeOK, Ended
  <2>4. Walked' /\ WalkIsSafe'
    BY <1>1, <1>2, <1>3, <1>4, <2>1, <2>2 DEF WalkInv, Walked, WalkIsSafe
  <2>5. QED
    BY <2>3, <2>4 DEF WalkInv
<1>5. CASE current # Null
  <2>1. current \in AnyName /\ actions[current] \in MirroredAction
    BY <1>5 DEF WalkInv, TypeOK, Walked, Dict
  <2>2. PICK entry \in MirroredAction :
          /\ actions' = [actions EXCEPT ![current] = entry]
          /\ entry.id = actions[current].id
    <3>1. [actions[current] EXCEPT !.fields[d.name] = field] \in MirroredAction
      BY <1>1, <2>1 DEF MirroredAction, Dict
    <3>2. QED
      BY <1>2, <1>5, <2>1, <3>1 DEF MirroredAction
  <2>3. actions' \in Dict(MirroredAction) /\ \A n \in AnyName : actions[n] # Null => actions'[n] # Null
    BY <2>1, <2>2, EntryAssumption DEF WalkInv, TypeOK, Dict
  <2>4. CurrentAction' = CurrentAction /\ Reached(ti, CurrentAction)' = Reached(ti, CurrentAction)
    <3>1. actions'[current] = entry
      BY <2>1, <2>2 DEF WalkInv, TypeOK, Dict
    <3>2. QED
      BY <1>2, <2>2, <3>1 DEF CurrentAction, Reached
  <2>5. TypeOK'
    BY <1>1, <1>2, <1>3, <1>5, <2>3 DEF WalkInv, TypeOK, Ended
  <2>6. Walked' /\ WalkIsSafe'
    BY <1>1, <1>2, <1>3, <1>5, <2>1, <2>3, <2>4 DEF WalkInv, Walked, WalkIsSafe
  <2>7. QED
    BY <2>5, <2>6 DEF WalkInv
<1>6. QED
  BY <1>4, <1>5

LEMMA WalkNext ==
  ASSUME WalkInv, [Next]_vars
  PROVE  WalkInv'
<1>1. CASE UNCHANGED vars
  BY <1>1 DEF vars, WalkInv, TypeOK, Walked, WalkIsSafe, Reached, CurrentAction
<1>2. CASE InvalidType \/ AllActionsDone
  BY <1>2 DEF InvalidType, AllActionsDone, Goto, mirror, WalkInv, TypeOK, Walked, WalkIsSafe, Ended
<1>3. CASE SupportedCommands
  <2>1. ti \in Schema
    BY DEF WalkInv, Walked
  <2>2. \E label \in {"raised", "keys", "notReady"} : Goto(label) /\ UNCHANGED <<ti, mirror>>
    BY <1>3, <2>1, SupportedLists DEF SupportedCommands
  <2>3. QED
    BY <2>2 DEF Goto, mirror, WalkInv, TypeOK, Walked, WalkIsSafe, Ended
<1>4. QED
  BY <1>1, <1>2, <1>3, WalkKeys, WalkActions, WalkDataLists, WalkData DEF Next

\* The dictionaries and the arrays in hand have their types, for every
\* schema (TableWalk!TypeOK).
THEOREM TypeCorrect == Spec => []TypeOK
<1>1. WalkInv => TypeOK
  BY DEF WalkInv
<1>2. QED
  BY <1>1, WalkInit, WalkNext, PTL DEF Spec

\* The C frontend's functions do not test what they have looked up; the
\* walk never asks for what is not there, nor gives a list too little room
\* (TableWalk!WalkIsSafe), for every schema the parser can make.
THEOREM SafeWalk == Spec => []WalkIsSafe
<1>1. WalkInv => WalkIsSafe
  BY DEF WalkInv
<1>2. QED
  BY <1>1, WalkInit, WalkNext, PTL DEF Spec

-----------------------------------------------------------------------------

(***************************************************************************)
(* The dictionaries.  Elements are entered in the order of their ids, so   *)
(* what is known by a name is the last of those that share it, as in the   *)
(* maps by name of the C frontend.                                         *)
(***************************************************************************)

\* Of the elements of m with ids in S, a dictionary knows the last of each
\* name, and no other names.
Latest(dict, m, S) ==
  \A n \in AnyName :
    LET same == S \intersect IdsOf(m, n)
    IN  IF same = {} THEN dict[n] = Null
        ELSE dict[n] # Null /\ dict[n].id = Highest(same)

Complete(dict, m) == Latest(dict, m, IdsIn(m))

\* All have been entered but those in "rest", which come last.
Growing(dict, m, rest) ==
  /\ Latest(dict, m, IdsIn(m) \ rest)
  /\ \A i \in IdsIn(m) \ rest, j \in rest : i < j

KeyMirror ==
  /\ at \in {"start", "keys"} => keyFields = NoEntries
  /\ at = "keyFields" => Growing(keyFields, ti.keys, todo)
  /\ at \in {"actions", "action", "data", "dataFields", "done"} => Complete(keyFields, ti.keys)

ActionMirror ==
  /\ at \in {"start", "keys", "keyFields", "actions"} => actions = NoEntries
  /\ at = "action" => Growing(actions, ti.actions, todo)
  /\ at \in {"data", "dataFields", "done"} => Complete(actions, ti.actions)

\* The common fields, of a table without actions.
DataMirror ==
  /\ at \in {"start", "keys", "keyFields", "actions", "action", "data"} => dataFields = NoEntries
  /\ at = "dataFields" /\ current = Null => Growing(dataFields, Reached(ti, 0), todo)
  /\ at = "dataFields" /\ current # Null => dataFields = NoEntries
  /\ at = "done" /\ actions = NoEntries => Complete(dataFields, Reached(ti, 0))

\* The fields of the actions.
FieldMirror ==
  /\ at \in {"start", "keys", "keyFields", "actions", "action"} =>
       \A n \in AnyName : actions[n] # Null => n \in waiting
  /\ \A n \in waiting : actions[n].fields = NoEntries
  /\ at = "dataFields" => current \notin waiting
  /\ at \in {"data", "dataFields", "done"} =>
       \A n \in AnyName : actions[n] # Null /\ n \notin waiting =>
         LET m == Reached(ti, actions[n].id)
         IN  IF at = "dataFields" /\ n = current
               THEN Growing(actions[n].fields, m, todo)
               ELSE Complete(actions[n].fields, m)
  /\ at = "done" /\ actions # NoEntries => waiting = {}

MirrorInv == KeyMirror /\ ActionMirror /\ DataMirror /\ FieldMirror

LEMMA LatestGrows ==
  ASSUME NEW E, NEW dict \in Dict(E), NEW m, NEW rest \in SUBSET IdsIn(m),
         Growing(dict, m, rest),
         NEW i \in rest, \A j \in rest : i <= j, m[i].name \in AnyName,
         NEW entry, entry # Null, entry.id = i
  PROVE  Growing([dict EXCEPT ![m[i].name] = entry], m, rest \ {i})
<1> DEFINE new == [dict EXCEPT ![m[i].name] = entry]
           entered == IdsIn(m) \ rest
           entered2 == IdsIn(m) \ (rest \ {i})
<1>1. entered2 = entered \union {i} /\ i \in IdsIn(m) /\ i \in AnyId
  BY IdsInFact
<1>2. /\ \A j \in entered : j < i
      /\ \A j \in entered2, k \in rest \ {i} : j < k
  <2>1. IdsIn(m) \subseteq Nat
    BY IdsInFact, IdsAreNat
  <2>2. \A j \in entered : j < i
    BY DEF Growing
  <2>3. \A k \in rest \ {i} : i < k
    BY <2>1
  <2>4. QED
    BY <1>1, <2>2, <2>3 DEF Growing
<1>3. ASSUME NEW n \in AnyName
      PROVE  LET same == entered2 \intersect IdsOf(m, n)
             IN  IF same = {} THEN new[n] = Null
                 ELSE new[n] # Null /\ new[n].id = Highest(same)
  <2> DEFINE old == entered \intersect IdsOf(m, n)
             same == entered2 \intersect IdsOf(m, n)
  <2>1. CASE n = m[i].name
    <3>1. i \in IdsOf(m, n) /\ same = old \union {i}
      BY <1>1, <2>1 DEF IdsOf
    <3>2. new[n] = entry
      BY <2>1 DEF Dict
    <3>3. Highest(old \union {i}) = i
      <4>1. old \in SUBSET AnyId /\ \A j \in old : j < i
        BY <1>2, IdsInFact
      <4> HIDE DEF old
      <4>2. QED
        BY <1>1, <4>1, HighestGrows
    <3> HIDE DEF old, same, new
    <3>4. QED
      BY <3>1, <3>2, <3>3 DEF same
  <2>2. CASE n # m[i].name
    <3>1. same = old
      BY <1>1, <2>2 DEF IdsOf
    <3>2. new[n] = dict[n]
      BY <2>2 DEF Dict
    <3>3. IF old = {} THEN dict[n] = Null ELSE dict[n] # Null /\ dict[n].id = Highest(old)
      BY DEF Growing, Latest
    <3> HIDE DEF old, same, new
    <3>4. QED
      BY <3>1, <3>2, <3>3 DEF same
  <2>3. QED
    BY <2>1, <2>2
<1> HIDE DEF new
<1>4. QED
  BY <1>2, <1>3 DEF Growing, Latest, new

\* Before the first element, and after the last.
LEMMA NothingYet ==
  ASSUME NEW m
  PROVE  /\ Growing(NoEntries, m, IdsIn(m))
         /\ IdsIn(m) = {} => Complete(NoEntries, m)
BY DEF Growing, Complete, Latest, NoEntries

LEMMA NothingLeft ==
  ASSUME NEW m, NEW dict, Growing(dict, m, {})
  PROVE  Complete(dict, m)
<1>1. IdsIn(m) \ {} = IdsIn(m)
  OBVIOUS
<1>2. QED
  BY <1>1 DEF Growing, Complete

LEMMA MirrorInit == Init => MirrorInv
BY DEF Init, MirrorInv, KeyMirror, ActionMirror, DataMirror, FieldMirror, NoEntries

LEMMA MirrorKeys ==
  ASSUME WalkInv, MirrorInv, ListKeyFields \/ InitKeyField
  PROVE  MirrorInv'
<1>1. CASE ListKeyFields
  <2>1. /\ at = "keys" /\ todo' = IdsIn(ti.keys)
        /\ at' = IF IdsIn(ti.keys) = {} THEN "actions" ELSE "keyFields"
        /\ UNCHANGED <<ti, current, waiting, mirror>>
    BY <1>1, ListKeyFieldsFact
  <2>2. keyFields = NoEntries
    BY <2>1 DEF MirrorInv, KeyMirror
  <2>3. KeyMirror'
    <3>1. /\ Growing(NoEntries, ti.keys, IdsIn(ti.keys))
          /\ IdsIn(ti.keys) = {} => Complete(NoEntries, ti.keys)
      BY NothingYet
    <3>2. QED
      BY <2>1, <2>2, <3>1 DEF KeyMirror, mirror, Growing, Complete, Latest
  <2>4. QED
    BY <2>1, <2>3 DEF MirrorInv, ActionMirror, DataMirror, FieldMirror, mirror
<1>2. CASE InitKeyField
  <2> DEFINE k == ti.keys[NextId]
             entry == [id |-> NextId, info |-> k]
  <2>1. /\ at = "keyFields" /\ todo \subseteq IdsIn(ti.keys)
        /\ NextId \in todo /\ \A j \in todo : NextId <= j
        /\ k.name \in AnyName /\ entry \in FieldOf(Param) /\ entry.id = NextId
        /\ keyFields' = [keyFields EXCEPT ![k.name] = entry]
        /\ todo' = todo \ {NextId}
        /\ at' = IF todo' = {} THEN "actions" ELSE "keyFields"
        /\ UNCHANGED <<ti, current, waiting, actions, actionIdNameMap, dataFields>>
    BY <1>2, InitKeyFieldFact DEF Advance
  <2>2. Growing(keyFields', ti.keys, todo')
    <3>1. keyFields \in Dict(FieldOf(Param)) /\ entry # Null /\ Growing(keyFields, ti.keys, todo)
      BY <2>1, EntryAssumption DEF WalkInv, TypeOK, MirrorInv, KeyMirror
    <3> HIDE DEF entry
    <3>2. QED
      BY <2>1, <3>1, LatestGrows
  <2>3. todo' = {} => Complete(keyFields', ti.keys)
    BY <2>2, NothingLeft
  <2>4. KeyMirror'
    BY <2>1, <2>2, <2>3 DEF KeyMirror, Growing, Complete, Latest
  <2>5. QED
    BY <2>1, <2>4 DEF MirrorInv, ActionMirror, DataMirror, FieldMirror
<1>3. QED
  BY <1>1, <1>2

LEMMA MirrorActions ==
  ASSUME WalkInv, MirrorInv, ListActions \/ InitAction
  PROVE  MirrorInv'
<1>1. CASE ListActions
  <2>1. /\ at = "actions" /\ todo' = IdsIn(ti.actions)
        /\ at' = IF IdsIn(ti.actions) = {} THEN "data" ELSE "action"
        /\ UNCHANGED <<ti, current, waiting, mirror>>
    BY <1>1, ListActionsFact
  <2>2. actions = NoEntries /\ Complete(keyFields, ti.keys)
    BY <2>1 DEF MirrorInv, ActionMirror, KeyMirror
  <2>3. ActionMirror'
    <3>1. /\ Growing(NoEntries, ti.actions, IdsIn(ti.actions))
          /\ IdsIn(ti.actions) = {} => Complete(NoEntries, ti.actions)
      BY NothingYet
    <3>2. QED
      BY <2>1, <2>2, <3>1 DEF ActionMirror, mirror, Growing, Complete, Latest
  <2>4. KeyMirror'
    BY <2>1, <2>2 DEF KeyMirror, mirror, Complete, Latest
  <2>5. FieldMirror'
    BY <2>1, <2>2 DEF MirrorInv, FieldMirror, mirror, NoEntries
  <2>6. QED
    BY <2>1, <2>3, <2>4, <2>5 DEF MirrorInv, DataMirror, mirror
<1>2. CASE InitAction
  <2> DEFINE n == ti.actions[NextId].name
             entry == [id |-> NextId, fields |-> NoEntries]
  <2>1. /\ at = "action" /\ todo \subseteq IdsIn(ti.actions)
        /\ NextId \in todo /\ \A j \in todo : NextId <= j
        /\ n \in AnyName /\ entry.id = NextId /\ entry # Null /\ entry.fields = NoEntries
        /\ actions' = [actions EXCEPT ![n] = entry]
        /\ waiting' = waiting \union {n}
        /\ todo' = todo \ {NextId}
        /\ at' = IF todo' = {} THEN "data" ELSE "action"
        /\ UNCHANGED <<ti, current, keyFields, dataFields>>
    BY <1>2, InitActionFact DEF Advance
  <2>2. actions \in Dict(MirroredAction) /\ Growing(actions, ti.actions, todo)
        /\ Complete(keyFields, ti.keys) /\ dataFields = NoEntries
    BY <2>1 DEF WalkInv, TypeOK, MirrorInv, KeyMirror, ActionMirror, DataMirror
  <2> HIDE DEF entry
  <2>3. Growing(actions', ti.actions, todo')
    BY <2>1, <2>2, LatestGrows
  <2>4. todo' = {} => Complete(actions', ti.actions)
    BY <2>3, NothingLeft
  <2>5. ActionMirror'
    BY <2>1, <2>3, <2>4 DEF ActionMirror, Growing, Complete, Latest
  <2>6. KeyMirror' /\ DataMirror'
    BY <2>1, <2>2 DEF KeyMirror, DataMirror, Complete, Latest
  <2>7. \A m \in AnyName : actions'[m] = IF m = n THEN entry ELSE actions[m]
    BY <2>1, <2>2 DEF Dict
  <2>8. waiting \subseteq AnyName
    BY DEF WalkInv, TypeOK
  <2> HIDE DEF n
  <2>9. FieldMirror'
    BY <2>1, <2>7, <2>8 DEF MirrorInv, FieldMirror
  <2>10. QED
    BY <2>5, <2>6, <2>9 DEF MirrorInv
<1>3. QED
  BY <1>1, <1>2

LEMMA MirrorDataLists ==
  ASSUME WalkInv, MirrorInv, ListDataFields \/ \E n \in AnyName : ListActionFields(n)
  PROVE  MirrorInv'
<1>1. CASE ListDataFields
  <2>1. /\ at = "data" /\ current = Null /\ actions = NoEntries
        /\ todo' = IdsIn(Reached(ti, 0))
        /\ at' = IF IdsIn(Reached(ti, 0)) = {} THEN "done" ELSE "dataFields"
        /\ UNCHANGED <<ti, current, waiting, mirror>>
    BY <1>1, ListDataFieldsFact
  <2>2. Complete(keyFields, ti.keys) /\ Complete(actions, ti.actions) /\ dataFields = NoEntries
    BY <2>1 DEF MirrorInv, KeyMirror, ActionMirror, DataMirror
  <2>3. KeyMirror' /\ ActionMirror'
    BY <2>1, <2>2 DEF KeyMirror, ActionMirror, mirror, Complete, Latest
  <2>4. DataMirror'
    <3>1. /\ Growing(NoEntries, Reached(ti, 0), IdsIn(Reached(ti, 0)))
          /\ IdsIn(Reached(ti, 0)) = {} => Complete(NoEntries, Reached(ti, 0))
      BY NothingYet
    <3>2. QED
      BY <2>1, <2>2, <3>1 DEF DataMirror, mirror
  <2>5. waiting = {} /\ \A n \in AnyName : actions[n] = Null
    BY <2>1 DEF WalkInv, TypeOK, NoEntries
  <2>6. FieldMirror'
    BY <2>1, <2>5 DEF FieldMirror, mirror
  <2>7. QED
    BY <2>3, <2>4, <2>6 DEF MirrorInv
<1>2. ASSUME NEW n \in AnyName, ListActionFields(n)
      PROVE  MirrorInv'
  <2> DEFINE m == Reached(ti, actions[n].id)
  <2>1. /\ at = "data" /\ n \in waiting /\ n # Null /\ actions[n] # Null
        /\ todo' = IdsIn(m)
        /\ at' = IF IdsIn(m) = {} THEN "data" ELSE "dataFields"
        /\ current' = n /\ waiting' = waiting \ {n}
        /\ UNCHANGED <<ti, mirror>>
    BY <1>2, ListActionFieldsFact
  <2>2. /\ Complete(keyFields, ti.keys) /\ Complete(actions, ti.actions)
        /\ dataFields = NoEntries /\ actions # NoEntries
    BY <2>1 DEF MirrorInv, KeyMirror, ActionMirror, DataMirror, NoEntries
  <2>3. KeyMirror' /\ ActionMirror' /\ DataMirror'
    BY <2>1, <2>2 DEF KeyMirror, ActionMirror, DataMirror, mirror, Complete, Latest
  <2>4. actions[n].fields = NoEntries
    BY <2>1 DEF MirrorInv, FieldMirror
  <2>5. /\ Growing(NoEntries, m, IdsIn(m))
        /\ IdsIn(m) = {} => Complete(NoEntries, m)
    BY NothingYet
  <2>6. ASSUME NEW l \in AnyName, actions[l] # Null, l \notin waiting'
        PROVE  IF at' = "dataFields" /\ l = n
                 THEN Growing(actions[l].fields, Reached(ti, actions[l].id), todo')
                 ELSE Complete(actions[l].fields, Reached(ti, actions[l].id))
    <3>1. CASE l = n
      BY <2>1, <2>4, <2>5, <3>1
    <3>2. CASE l # n
      BY <2>1, <2>6, <3>2 DEF MirrorInv, FieldMirror
    <3>3. QED
      BY <3>1, <3>2
  <2>7. FieldMirror'
    <3>1. \A l \in waiting' : actions[l].fields = NoEntries
      BY <2>1 DEF MirrorInv, FieldMirror
    <3> HIDE DEF m
    <3>2. QED
      BY <2>1, <2>6, <3>1 DEF FieldMirror, mirror
  <2>8. QED
    BY <2>3, <2>7 DEF MirrorInv
<1>3. QED
  BY <1>1, <1>2

\* Entering a field leaves the names and ids of the actions alone.
LEMMA SameIds ==
  ASSUME NEW m, NEW dict, NEW new, Complete(dict, m),
         \A n \in AnyName : /\ new[n] = Null <=> dict[n] = Null
                            /\ new[n] # Null => new[n].id = dict[n].id
  PROVE  Complete(new, m)
BY DEF Complete, Latest

LEMMA MirrorCommonField ==
  ASSUME WalkInv, MirrorInv, InitDataField, current = Null
  PROVE  MirrorInv'
<1> DEFINE m == Reached(ti, 0)
           d == m[NextId]
           field == [id |-> NextId, info |-> d]
<1>1. CurrentAction = 0
  BY DEF CurrentAction
<1>2. /\ at = "dataFields" /\ NextId \in todo /\ \A j \in todo : NextId <= j
      /\ d.name \in AnyName /\ field \in FieldOf(DataField) /\ field.id = NextId
      /\ dataFields' = [dataFields EXCEPT ![d.name] = field]
      /\ UNCHANGED <<ti, current, waiting, keyFields, actions>>
  BY <1>1, InitDataFieldFact
<1>3. \/ todo' = todo \ {NextId} /\ at' = IF todo' = {} THEN "done" ELSE "dataFields"
      \/ at' = "raised"
  BY InitDataFieldFact DEF Advance
<1>4. /\ actions = NoEntries /\ waiting = {} /\ \A n \in AnyName : actions[n] = Null
      /\ todo \subseteq IdsIn(m) /\ dataFields \in Dict(FieldOf(DataField)) /\ field # Null
  BY <1>1, <1>2, EntryAssumption DEF WalkInv, TypeOK, Walked, NoEntries
<1>5. Growing(dataFields, m, todo) /\ Complete(keyFields, ti.keys) /\ Complete(actions, ti.actions)
  BY <1>2 DEF MirrorInv, KeyMirror, ActionMirror, DataMirror
<1>6. Growing(dataFields', m, todo \ {NextId})
  <2> HIDE DEF field, m
  <2>1. QED
    BY <1>2, <1>4, <1>5, LatestGrows
<1>7. todo \ {NextId} = {} => Complete(dataFields', m)
  BY <1>6, NothingLeft
<1>8. KeyMirror' /\ ActionMirror'
  BY <1>2, <1>3, <1>5 DEF KeyMirror, ActionMirror, Complete, Latest
<1>9. DataMirror'
  BY <1>2, <1>3, <1>6, <1>7 DEF DataMirror
<1>10. FieldMirror'
  BY <1>2, <1>3, <1>4 DEF FieldMirror
<1>11. QED
  BY <1>8, <1>9, <1>10 DEF MirrorInv

LEMMA MirrorActionField ==
  ASSUME WalkInv, MirrorInv, InitDataField, current # Null
  PROVE  MirrorInv'
<1> DEFINE m == Reached(ti, actions[current].id)
           d == m[NextId]
           field == [id |-> NextId, info |-> d]
           fields == [actions[current].fields EXCEPT ![d.name] = field]
<1>1. CurrentAction = actions[current].id
  BY DEF CurrentAction
<1>2. /\ at = "dataFields" /\ NextId \in todo /\ \A j \in todo : NextId <= j
      /\ d.name \in AnyName /\ field \in FieldOf(DataField) /\ field.id = NextId
      /\ actions' = [actions EXCEPT ![current].fields[d.name] = field]
      /\ UNCHANGED <<ti, current, waiting, keyFields, dataFields>>
  BY <1>1, InitDataFieldFact
<1>3. \/ todo' = todo \ {NextId} /\ at' = IF todo' = {} THEN "data" ELSE "dataFields"
      \/ at' = "raised"
  BY InitDataFieldFact DEF Advance
<1>4. /\ current \in AnyName /\ actions[current] \in MirroredAction /\ actions[current] # Null
      /\ actions \in Dict(MirroredAction) /\ waiting \subseteq AnyName
      /\ todo \subseteq IdsIn(m) /\ field # Null
  BY <1>1, <1>2, EntryAssumption DEF WalkInv, TypeOK, Walked, Dict
<1>5. current \notin waiting /\ Growing(actions[current].fields, m, todo)
      /\ Complete(keyFields, ti.keys) /\ Complete(actions, ti.actions) /\ dataFields = NoEntries
  BY <1>2, <1>4 DEF MirrorInv, KeyMirror, ActionMirror, DataMirror, FieldMirror
<1>6. Growing(fields, m, todo \ {NextId})
  <2>1. actions[current].fields \in Dict(FieldOf(DataField))
    BY <1>4 DEF MirroredAction
  <2> HIDE DEF field, m
  <2>2. QED
    BY <1>2, <1>4, <1>5, <2>1, LatestGrows
<1>7. todo \ {NextId} = {} => Complete(fields, m)
  BY <1>6, NothingLeft
<1>8. /\ \A n \in AnyName \ {current} : actions'[n] = actions[n]
      /\ actions'[current].id = actions[current].id /\ actions'[current].fields = fields
      /\ actions'[current] # Null
  <2>1. [actions[current] EXCEPT !.fields = fields] \in MirroredAction
    <3>1. actions[current].fields \in Dict(FieldOf(DataField))
      BY <1>4 DEF MirroredAction
    <3>2. fields \in Dict(FieldOf(DataField))
      BY <1>2, <3>1 DEF Dict
    <3> HIDE DEF fields
    <3>3. QED
      BY <1>4, <3>2 DEF MirroredAction
  <2>2. actions' = [actions EXCEPT ![current] = [actions[current] EXCEPT !.fields = fields]]
    BY <1>2
  <2> HIDE DEF fields
  <2>3. QED
    BY <1>4, <2>1, <2>2, EntryAssumption DEF Dict, MirroredAction
<1> HIDE DEF fields
<1>9. Complete(actions', ti.actions)
  <2>1. \A n \in AnyName : /\ actions'[n] = Null <=> actions[n] = Null
                           /\ actions'[n] # Null => actions'[n].id = actions[n].id
    BY <1>4, <1>8
  <2>2. QED
    BY <1>5, <2>1, SameIds
<1>10. KeyMirror' /\ ActionMirror'
  BY <1>2, <1>3, <1>5, <1>9 DEF KeyMirror, ActionMirror, Complete, Latest
<1>11. DataMirror'
  <2>1. at' # "done"
    BY <1>3
  <2>2. QED
    BY <1>2, <1>3, <1>5, <2>1 DEF DataMirror
<1>12. ASSUME NEW l \in AnyName, actions'[l] # Null, l \notin waiting, at' # "raised"
       PROVE  IF at' = "dataFields" /\ l = current
                THEN Growing(actions'[l].fields, Reached(ti, actions'[l].id), todo')
                ELSE Complete(actions'[l].fields, Reached(ti, actions'[l].id))
  <2>1. CASE l = current
    <3>1. todo' = todo \ {NextId} /\ at' = IF todo' = {} THEN "data" ELSE "dataFields"
      BY <1>3, <1>12
    <3>2. QED
      BY <1>6, <1>7, <1>8, <2>1, <3>1
  <2>2. CASE l # current
    <3>1. actions'[l] = actions[l]
      BY <1>8, <2>2
    <3>2. QED
      BY <1>2, <1>12, <2>2, <3>1 DEF MirrorInv, FieldMirror
  <2>3. QED
    BY <2>1, <2>2
<1>13. \A n \in waiting : actions'[n].fields = NoEntries
  BY <1>4, <1>5, <1>8 DEF MirrorInv, FieldMirror
<1> HIDE DEF m
<1>14. FieldMirror'
  BY <1>2, <1>3, <1>5, <1>12, <1>13 DEF FieldMirror
<1>15. QED
  BY <1>10, <1>11, <1>14 DEF MirrorInv

LEMMA MirrorNext ==
  ASSUME WalkInv, MirrorInv, [Next]_vars
  PROVE  MirrorInv'
<1>1. CASE UNCHANGED vars
  <2>1. KeyMirror' /\ ActionMirror'
    BY <1>1 DEF vars, MirrorInv, KeyMirror, ActionMirror, Growing, Complete, Latest
  <2>2. DataMirror' /\ FieldMirror'
    BY <1>1 DEF vars, MirrorInv, DataMirror, FieldMirror
  <2>3. QED
    BY <2>1, <2>2 DEF MirrorInv
<1>2. CASE InvalidType
  BY <1>2 DEF InvalidType, Goto, mirror, MirrorInv, KeyMirror, ActionMirror, DataMirror,
              FieldMirror
<1>3. CASE SupportedCommands
  <2>1. ti \in Schema
    BY DEF WalkInv, Walked
  <2>2. \E label \in {"raised", "keys", "notReady"} :
          at = "start" /\ Goto(label) /\ UNCHANGED <<ti, mirror>>
    BY <1>3, <2>1, SupportedLists DEF SupportedCommands
  <2>3. QED
    BY <2>2 DEF Goto, mirror, MirrorInv, KeyMirror, ActionMirror, DataMirror, FieldMirror
<1>4. CASE AllActionsDone
  <2>1. /\ at = "data" /\ at' = "done" /\ actions # NoEntries /\ waiting = {}
        /\ UNCHANGED <<ti, todo, current, waiting, keyFields, actions, dataFields>>
    BY <1>4 DEF AllActionsDone, Goto, mirror
  <2>2. KeyMirror'
    BY <2>1 DEF MirrorInv, KeyMirror, Complete, Latest
  <2>3. ActionMirror'
    BY <2>1 DEF MirrorInv, ActionMirror, Complete, Latest
  <2>4. DataMirror'
    BY <2>1 DEF DataMirror
  <2>5. FieldMirror'
    <3>1. ASSUME NEW n \in AnyName, actions[n] # Null
          PROVE  Complete(actions[n].fields, Reached(ti, actions[n].id))
      BY <2>1, <3>1 DEF MirrorInv, FieldMirror
    <3>2. ASSUME NEW n \in AnyName, actions'[n] # Null
          PROVE  Complete(actions'[n].fields, Reached(ti', actions'[n].id))
      BY <2>1, <3>1, <3>2
    <3>3. QED
      BY <2>1, <3>2 DEF FieldMirror
  <2>6. QED
    BY <2>2, <2>3, <2>4, <2>5 DEF MirrorInv
<1>5. QED
  BY <1>1, <1>2, <1>3, <1>4, MirrorKeys, MirrorActions, MirrorDataLists, MirrorCommonField,
     MirrorActionField DEF Next

\* What the lookup by name of the C frontend answers, of a map by ids.
LEMMA ByNameFact ==
  ASSUME NEW E, NEW m \in Maps(E), WellKeyed(m), NEW n \in AnyName
  PROVE  /\ IdsOf(m, n) = {} => ByName(m, n) = Null
         /\ IdsOf(m, n) # {} => /\ ByName(m, n) # Null
                                /\ ByName(m, n).id = Highest(IdsOf(m, n))
<1> DEFINE S == IdsOf(m, n)
<1>1. CASE S = {}
  BY <1>1 DEF ByName
<1>2. CASE S # {}
  <2>1. S \in SUBSET AnyId /\ S \subseteq IdsIn(m)
    BY IdsInFact DEF IdsOf
  <2>2. Highest(S) \in S
    <3> HIDE DEF S
    <3>1. QED
      BY <1>2, <2>1, HighestFact
  <2>3. m[Highest(S)] # Null /\ m[Highest(S)].id = Highest(S)
    BY <2>1, <2>2 DEF IdsIn, WellKeyed
  <2>4. QED
    BY <1>2, <2>3 DEF ByName
<1>3. QED
  BY <1>1, <1>2

\* A dictionary that is complete knows a name as that lookup does.
LEMMA CompleteFact ==
  ASSUME NEW E, NEW m \in Maps(E), WellKeyed(m), NEW dict, Complete(dict, m),
         NEW n \in AnyName
  PROVE  /\ dict[n] = Null <=> ByName(m, n) = Null
         /\ dict[n] # Null => dict[n].id = ByName(m, n).id
<1>1. IdsIn(m) \intersect IdsOf(m, n) = IdsOf(m, n)
  BY DEF IdsOf
<1>2. IF IdsOf(m, n) = {} THEN dict[n] = Null
      ELSE dict[n] # Null /\ dict[n].id = Highest(IdsOf(m, n))
  BY <1>1 DEF Complete, Latest
<1>3. QED
  BY <1>2, ByNameFact

\* Where the fields of an action and the common ones are set apart, a name
\* found among all that can be reached is found where the lookup looks first.
LEMMA ReachedByName ==
  ASSUME ti \in Schema, NEW a \in AnyId, Apart(a), NEW n \in AnyName
  PROVE  ByName(Reached(ti, a), n) = DataFieldByName(ti, n, a)
<1> DEFINE own == OwnFields(ti, a)
           all == Reached(ti, a)
<1>1. own \in Maps(DataField) /\ WellKeyed(own) /\ ti.data \in Maps(DataField)
      /\ WellKeyed(ti.data) /\ IdsIn(all) = IdsIn(own) \union IdsIn(ti.data)
  BY OwnFact, TableFact, ReachedFact
<1>2. \A i \in AnyId : all[i] = IF own[i] # Null THEN own[i] ELSE ti.data[i]
  BY DEF Reached, DataFieldById, OrElse
<1>3. IdsIn(own) \intersect IdsIn(ti.data) = {}
  BY DEF Apart
<1>4. CASE IdsOf(own, n) # {}
  <2>1. IdsOf(all, n) = IdsOf(own, n)
    <3>1. ASSUME NEW i \in IdsOf(own, n)
          PROVE  i \in IdsOf(all, n)
      BY <1>1, <1>2 DEF IdsOf, IdsIn
    <3>2. ASSUME NEW i \in IdsOf(all, n)
          PROVE  i \in IdsOf(own, n)
      <4>1. i \in IdsIn(all) /\ all[i].name = n /\ i \in AnyId
        BY DEF IdsOf, IdsIn
      <4>2. CASE i \in IdsIn(own)
        BY <1>2, <4>1, <4>2 DEF IdsOf, IdsIn
      <4>3. CASE i \in IdsIn(ti.data) /\ i \notin IdsIn(own)
        <5>1. PICK j \in IdsIn(own) : own[j].name = n
          BY <1>4 DEF IdsOf
        <5>2. ti.data[i].name = n
          BY <1>2, <4>1, <4>3 DEF IdsIn
        <5>3. QED
          BY <4>3, <5>1, <5>2 DEF Apart
      <4>4. QED
        BY <1>1, <4>1, <4>2, <4>3
    <3>3. QED
      BY <3>1, <3>2
  <2>2. Highest(IdsOf(own, n)) \in IdsOf(own, n)
    BY <1>4, IdsInFact, HighestFact
  <2>3. own[Highest(IdsOf(own, n))] # Null /\ Highest(IdsOf(own, n)) \in AnyId
    BY <2>2 DEF IdsOf, IdsIn
  <2>4. QED
    BY <1>2, <1>4, <2>1, <2>3 DEF ByName, DataFieldByName, OrElse
<1>5. CASE IdsOf(own, n) = {}
  <2>1. IdsOf(all, n) = IdsOf(ti.data, n)
    <3>1. ASSUME NEW i \in IdsOf(ti.data, n)
          PROVE  i \in IdsOf(all, n)
      BY <1>1, <1>2, <1>3 DEF IdsOf, IdsIn
    <3>2. ASSUME NEW i \in IdsOf(all, n)
          PROVE  i \in IdsOf(ti.data, n)
      BY <1>1, <1>2, <1>5 DEF IdsOf, IdsIn
    <3>3. QED
      BY <3>1, <3>2
  <2>2. ByName(own, n) = Null
    BY <1>5 DEF ByName
  <2>3. CASE IdsOf(all, n) = {}
    BY <2>1, <2>2, <2>3 DEF ByName, DataFieldByName, OrElse
  <2>4. CASE IdsOf(all, n) # {}
    <3> DEFINE h == Highest(IdsOf(all, n))
    <3>1. h \in IdsOf(ti.data, n)
      BY <2>1, <2>4, IdsInFact, HighestFact
    <3>2. all[h] = ti.data[h]
      BY <1>2, <1>3, <3>1 DEF IdsOf, IdsIn
    <3>3. QED
      BY <2>1, <2>2, <2>4, <3>2 DEF ByName, DataFieldByName, OrElse
  <2>5. QED
    BY <2>3, <2>4
<1>6. QED
  BY <1>4, <1>5

\* The id of a data field by its name, against a dictionary that is complete.
LEMMA DataFieldIdFact ==
  ASSUME ti \in Schema, NEW a \in AnyId, Apart(a), NEW dict, Complete(dict, Reached(ti, a)),
         NEW n \in AnyName
  PROVE  IF dict[n] = Null THEN DataFieldId(ti, n, a) = 0
         ELSE dict[n].id = DataFieldId(ti, n, a)
BY ReachedFact, ReachedByName, CompleteFact DEF DataFieldId

LEMMA MirrorsEnd ==
  ASSUME WalkInv, MirrorInv
  PROVE  MirrorAgrees
<1> SUFFICES ASSUME at = "done", NEW n \in AnyName
             PROVE  /\ Agree(keyFields[n], KeyFieldId(ti, n))
                    /\ IF actions[n] = Null THEN ActionId(ti, n) = Null
                       ELSE actions[n].id = ActionId(ti, n)
                    /\ actions = NoEntries =>
                         IF dataFields[n] = Null THEN DataFieldId(ti, n, 0) = 0
                         ELSE dataFields[n].id = DataFieldId(ti, n, 0)
                    /\ actions[n] # Null /\ Apart(actions[n].id) =>
                         \A m \in AnyName :
                           LET d == actions[n].fields[m]
                           IN  IF d = Null THEN DataFieldId(ti, m, actions[n].id) = 0
                               ELSE d.id = DataFieldId(ti, m, actions[n].id)
  BY DEF MirrorAgrees
<1>1. ti \in Schema /\ Complete(keyFields, ti.keys) /\ Complete(actions, ti.actions)
  BY DEF WalkInv, Walked, MirrorInv, KeyMirror, ActionMirror
<1>2. Agree(keyFields[n], KeyFieldId(ti, n))
  <2>1. ti.keys \in Maps(Param) /\ WellKeyed(ti.keys)
    BY <1>1, TableFact
  <2>2. QED
    BY <1>1, <2>1, CompleteFact DEF Agree, KeyFieldId, KeyFieldByName, IdOf
<1>3. IF actions[n] = Null THEN ActionId(ti, n) = Null ELSE actions[n].id = ActionId(ti, n)
  <2>1. ti.actions \in Maps(Action) /\ WellKeyed(ti.actions)
    BY <1>1, TableFact
  <2>2. QED
    BY <1>1, <2>1, CompleteFact DEF ActionId, ActionByName, IdOf
<1>4. ASSUME actions = NoEntries
      PROVE  IF dataFields[n] = Null THEN DataFieldId(ti, n, 0) = 0
             ELSE dataFields[n].id = DataFieldId(ti, n, 0)
  <2>1. Complete(dataFields, Reached(ti, 0))
    BY <1>4 DEF MirrorInv, DataMirror
  <2>2. 0 \in AnyId /\ Apart(0)
    BY DEF AnyId, Apart, OwnFields, NoFields, IdsIn
  <2>3. QED
    BY <1>1, <2>1, <2>2, DataFieldIdFact
<1>5. ASSUME actions[n] # Null, Apart(actions[n].id), NEW m \in AnyName
      PROVE  LET d == actions[n].fields[m]
             IN  IF d = Null THEN DataFieldId(ti, m, actions[n].id) = 0
                 ELSE d.id = DataFieldId(ti, m, actions[n].id)
  <2>1. actions # NoEntries /\ actions[n].id \in AnyId
    BY <1>5 DEF NoEntries, WalkInv, TypeOK, Dict, MirroredAction
  <2>2. Complete(actions[n].fields, Reached(ti, actions[n].id))
    BY <1>5, <2>1 DEF MirrorInv, FieldMirror
  <2>3. QED
    BY <1>1, <1>5, <2>1, <2>2, DataFieldIdFact
<1>6. QED
  BY <1>2, <1>3, <1>4, <1>5

\* When the constructor is done, the Python layer's dictionaries and the C
\* frontend's lookups by name know the same names by the same ids
\* (TableWalk!MirrorAgrees), for every schema the parser can make.
THEOREM MirrorsAgree == Spec => []MirrorAgrees
<1>1. Init => WalkInv /\ MirrorInv
  BY WalkInit, MirrorInit
<1>2. (WalkInv /\ MirrorInv) /\ [Next]_vars => (WalkInv /\ MirrorInv)'
  BY WalkNext, MirrorNext
<1>3. WalkInv /\ MirrorInv => MirrorAgrees
  BY MirrorsEnd
<1>4. QED
  BY <1>1, <1>2, <1>3, PTL DEF Spec
=============================================================================
