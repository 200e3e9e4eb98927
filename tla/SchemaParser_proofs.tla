------------------------- MODULE SchemaParser_proofs -------------------------
(***************************************************************************)
(* Proofs about SchemaParser: types, the oneofs of tables parsed without   *)
(* an error, agreement of the lookups, and that first declarations stand.  *)
(***************************************************************************)
EXTENDS SchemaParser, WellFoundedInduction, TLAPS

-----------------------------------------------------------------------------
(* Elements and maps.                                                      *)

\* A nonempty set of naturals has a lowest one.
LEMMA LowestFact ==
  ASSUME NEW S \in SUBSET Nat, S # {}
  PROVE  Lowest(S) \in S /\ \A j \in S : Lowest(S) <= j
<1> DEFINE R == OpToRel(<, Nat)
<1>1. IsWellFoundedOn(R, Nat)
  BY NatLessThanWellFounded
<1>2. \A x, y \in Nat : x < y => <<x, y>> \in R
  BY DEF OpToRel
<1> HIDE DEF R
<1>3. PICK n \in S : \A j \in S : ~(<<j, n>> \in R)
  BY <1>1, WFMin
<1>4. ASSUME NEW j \in S PROVE n <= j
  <2>1. n \in Nat /\ j \in Nat
    OBVIOUS
  <2>2. ~(j < n)
    BY <1>2, <1>3, <2>1
  <2> QED BY <2>1, <2>2
<1> QED BY <1>4 DEF Lowest

\* A set of ids that is not empty has a highest one.
LEMMA HighestFact ==
  ASSUME NEW S \in SUBSET AnyId, S # {}
  PROVE  Highest(S) \in S
BY IdAssumption DEF Highest

\* An element is a list of members with ids and names of the schema.
LEMMA ElementFact ==
  ASSUME NEW e \in Element
  PROVE  /\ e.oneof \in BOOLEAN
         /\ DOMAIN e.members = 1..Len(e.members)
         /\ Len(e.members) \in Nat
         /\ \A i \in DOMAIN e.members : e.members[i] \in [id : Id, name : Name]
         /\ ~e.oneof => Len(e.members) = 1
<1> DEFINE M == [id : Id, name : Name]
<1>1. e \in [oneof : BOOLEAN, members : Seq(M)]
  BY ElementAssumption
<1> HIDE DEF M
<1>2. e.members \in Seq(M)
  BY <1>1
<1>3. ~e.oneof => Len(e.members) = 1
  BY ElementAssumption
<1>4. DOMAIN e.members = 1..Len(e.members) /\ Len(e.members) \in Nat
  BY <1>2
<1>5. \A i \in 1..Len(e.members) : e.members[i] \in M
  BY <1>2
<1>6. e.oneof \in BOOLEAN
  BY <1>1
<1> QED BY <1>3, <1>4, <1>5, <1>6 DEF M

\* What is parsed out of an element, at an index within it or beyond it.
LEMMA FieldType ==
  ASSUME NEW e \in Element, NEW i \in Nat
  PROVE  ParseDataField(e, i) \in DataField
<1> USE ElementFact
<1>1. MemberIds(e) \subseteq AnyId
  BY DEF MemberIds, AnyId
<1>2. Member(e, i) \in [id : AnyId, name : AnyName]
  BY DEF Member, NoMember, AnyId, AnyName
<1>3. CASE e.oneof
  BY <1>1, <1>2, <1>3 DEF ParseDataField, DataField
<1>4. CASE ~e.oneof
  <2>1. e.members[1] \in [id : Id, name : Name]
    BY <1>4
  <2> QED BY <1>4, <2>1 DEF ParseDataField, DataField, AnyId, AnyName
<1> QED BY <1>3, <1>4

\* The field parsed for a member: the others are its siblings.
LEMMA MemberFact ==
  ASSUME NEW e \in Element, NEW id \in MemberIds(e)
  PROVE  LET f == ParseDataField(e, IndexOf(e, id))
         IN  /\ f \in DataField
             /\ f.id = id
             /\ f.siblings = MemberIds(e) \ {id}
             /\ id \in Id
<1> DEFINE S == {i \in DOMAIN e.members : e.members[i].id = id}
<1> DEFINE k == IndexOf(e, id)
<1> USE ElementFact
<1>1. S \in SUBSET Nat /\ S # {}
  BY DEF MemberIds
<1>2. k \in S
  BY <1>1, LowestFact DEF IndexOf
<1>3. k \in Nat /\ k \in DOMAIN e.members /\ e.members[k].id = id
  BY <1>1, <1>2
<1>4. id \in Id
  BY <1>3
<1> HIDE DEF k, S
<1>5. ParseDataField(e, k) \in DataField
  BY <1>3, FieldType
<1>6. CASE e.oneof
  <2>1. Member(e, k) = e.members[k]
    BY <1>3 DEF Member
  <2> QED BY <1>3, <1>4, <1>5, <1>6, <2>1 DEF ParseDataField, k
<1>7. CASE ~e.oneof
  <2>1. k = 1 /\ MemberIds(e) = {id}
    BY <1>3, <1>7 DEF MemberIds
  <2> QED BY <1>3, <1>4, <1>5, <1>7, <2>1 DEF ParseDataField, k
<1> QED BY <1>6, <1>7

\* Inserting an element by its id keeps a map well keyed and what it has.
LEMMA AddFieldFact ==
  ASSUME NEW S, Null \notin S, NEW m \in Maps(S), WellKeyed(m),
         NEW f \in S, f.id \in AnyId
  PROVE  /\ AddField(m, f) \in Maps(S)
         /\ WellKeyed(AddField(m, f))
         /\ \A i \in IdsIn(m) : AddField(m, f)[i] = m[i]
BY DEF AddField, Maps, WellKeyed, IdsIn

\* Likewise the fields of an element.
LEMMA AddElementFact ==
  ASSUME NEW m \in Maps(DataField), WellKeyed(m), NEW e \in Element
  PROVE  /\ AddElement(m, e) \in Maps(DataField)
         /\ WellKeyed(AddElement(m, e))
         /\ IdsIn(AddElement(m, e)) = IdsIn(m) \union MemberIds(e)
         /\ MemberIds(e) \subseteq Id
         /\ \A i \in IdsIn(m) : AddElement(m, e)[i] = m[i]
         /\ \A i \in MemberIds(e) \ IdsIn(m) :
              AddElement(m, e)[i].siblings = MemberIds(e) \ {i}
<1>1. \A id \in MemberIds(e) :
        LET f == ParseDataField(e, IndexOf(e, id))
        IN  f \in DataField /\ f.id = id /\ f.siblings = MemberIds(e) \ {id} /\ id \in Id
  BY MemberFact
<1> DEFINE F(id) == ParseDataField(e, IndexOf(e, id))
<1>2. AddElement(m, e) =
        [id \in AnyId |-> IF m[id] = Null /\ id \in MemberIds(e) THEN F(id) ELSE m[id]]
  BY DEF AddElement
<1>3. MemberIds(e) \subseteq Id /\ MemberIds(e) \subseteq AnyId
  BY <1>1 DEF AnyId
<1>4. \A id \in MemberIds(e) : /\ F(id) \in DataField /\ F(id) # Null
                               /\ F(id).id = id /\ F(id).siblings = MemberIds(e) \ {id}
  BY <1>1, NullAssumption
<1> HIDE DEF F
<1> QED BY <1>2, <1>3, <1>4 DEF Maps, WellKeyed, IdsIn

\* Fields of an element that repeats nothing join a map as a group of its own.
LEMMA PartitionKept ==
  ASSUME NEW m \in Maps(DataField), WellKeyed(m), NEW e \in Element,
         Partitioned(m), ~Repeats(m, e)
  PROVE  Partitioned(AddElement(m, e))
<1> DEFINE n == AddElement(m, e)
<1>1. /\ IdsIn(n) = IdsIn(m) \union MemberIds(e)
      /\ \A i \in IdsIn(m) : n[i] = m[i]
      /\ \A i \in MemberIds(e) \ IdsIn(m) : n[i].siblings = MemberIds(e) \ {i}
  BY AddElementFact
<1>2. MemberIds(e) \intersect IdsIn(m) = {}
  BY DEF Repeats
<1> HIDE DEF n
<1> SUFFICES ASSUME NEW i \in IdsIn(n), NEW j \in n[i].siblings
             PROVE  /\ j # i /\ j \in IdsIn(n)
                    /\ n[j].siblings = (n[i].siblings \ {j}) \union {i}
  BY DEF Partitioned, n
<1>3. CASE i \in IdsIn(m)
  BY <1>1, <1>3 DEF Partitioned
<1>4. CASE i \in MemberIds(e)
  BY <1>1, <1>2, <1>4
<1> QED BY <1>1, <1>3, <1>4

-----------------------------------------------------------------------------
(* Type correctness.                                                       *)

\* In which list an element can be read, and where a table can end.
LEMMA ReadInFact ==
  ASSUME elements \in Nat
  PROVE  /\ \A l : ReadIn(l) => /\ at \in {"keys", "data", "actions", "notifications"}
                              /\ elements' \in Nat
         /\ ReadIn("keys") => at = "keys"
         /\ EndTable => at \in {"keys", "data", "actions", "notifications"}
<1>1. /\ DOMAIN Sections = {1, 2, 3, 4}
      /\ Sections[1] = "keys" /\ Sections[2] = "data"
      /\ Sections[3] = "actions" /\ Sections[4] = "notifications"
  BY DEF Sections
<1> QED BY <1>1 DEF ReadIn, EndTable

\* A table with nothing in it.
LEMMA NewTable ==
  ASSUME NEW n \in Name
  PROVE  LET t == [name |-> n, keys |-> NoFields, data |-> NoFields,
                   actions |-> NoFields, notifications |-> NoFields,
                   skipped |-> FALSE]
         IN  t \in Table /\ WellFormed(t) /\ t.name \in Name /\ Partitioned(t.data)
<1>1. \A S : NoFields \in Maps(S)
  BY DEF NoFields, Maps
<1>2. IdsIn(NoFields) = {}
  BY DEF NoFields, IdsIn
<1> QED BY <1>1, <1>2 DEF Table, WellFormed, WellKeyed, Partitioned, AnyName

\* The types, and that a table being parsed has a name of the schema: it is
\* the one the table is filed under.
TypeInv ==
  /\ TypeOK
  /\ at \in InTable => table.name \in Name
  /\ at = "learn" => part.name \in Name

\* Filing what parseTable returns keeps the types.
LEMMA StoreFact ==
  ASSUME TypeInv, at \in InTable, NEW t, Store(t), elements' \in Nat,
         t # Null => t \in Table /\ WellFormed(t)
  PROVE  TypeInv'
<1>1. tableInfoMap' = Assign(tableInfoMap, table.name, t)
  BY DEF Store
<1>2. table.name \in Name
  BY DEF TypeInv
<1>3. DOMAIN tableInfoMap' \subseteq Name
  BY <1>1, <1>2 DEF TypeInv, TypeOK, Assign
<1>4. \A n \in DOMAIN tableInfoMap' : tableInfoMap'[n] # Null =>
        tableInfoMap'[n] \in Table /\ WellFormed(tableInfoMap'[n])
  BY <1>1 DEF TypeInv, TypeOK, Assign
<1>5. /\ table' = Null /\ part' = Null /\ at' = "tables"
      /\ UNCHANGED <<filesLeft, learnInfoMap, status, tables>>
  BY DEF Store
<1> QED BY <1>3, <1>4, <1>5 DEF TypeInv, TypeOK, InTable, InPart

LEMMA TypeInit == Init => TypeInv
BY BoundAssumption DEF Init, TypeInv, TypeOK, InTable, InPart

\* The steps between tables.
LEMMA TypeFileStep == TypeInv /\ FileStep => TypeInv'
<1> SUFFICES ASSUME TypeInv, FileStep PROVE TypeInv'
  OBVIOUS
<1> USE DEF TypeInv, TypeOK, InTable, InPart
<1>1. CASE NoFiles
  BY <1>1 DEF NoFiles, Return
<1>2. CASE OpenFile
  BY <1>2 DEF OpenFile, BetweenFiles
<1>3. CASE CannotOpen
  BY <1>3 DEF CannotOpen, BetweenFiles, Return
<1>4. CASE AllRead
  BY <1>4 DEF AllRead, Return
<1> QED BY <1>1, <1>2, <1>3, <1>4 DEF FileStep

\* The steps in the keys and the common data of a table.
LEMMA TypeTableStep == TypeInv /\ TableStep => TypeInv'
<1> SUFFICES ASSUME TypeInv, TableStep PROVE TypeInv'
  OBVIOUS
<1>0. elements \in Nat
  BY DEF TypeInv, TypeOK
<1> USE <1>0, ReadInFact
<1>1. ASSUME NEW n \in Name, BeginTable(n) PROVE TypeInv'
  BY <1>1, NewTable DEF BeginTable, TypeInv, TypeOK, InTable, InPart
<1>2. ASSUME NEW id \in Id, NEW n \in Name, ParseKeyField(id, n) PROVE TypeInv'
  <2> DEFINE f == [id |-> id, name |-> n]
  <2> DEFINE k == AddField(table.keys, f)
  <2>1. at = "keys" /\ elements' \in Nat
    BY <1>2 DEF ParseKeyField
  <2>2. table \in Table /\ WellFormed(table)
    BY <2>1 DEF TypeInv, TypeOK, InTable
  <2>3. k \in Maps(Param) /\ WellKeyed(k)
    <3>1. f \in Param /\ f.id \in AnyId
      BY DEF Param, AnyId, AnyName
    <3>2. table.keys \in Maps(Param) /\ WellKeyed(table.keys)
      BY <2>2 DEF Table, WellFormed
    <3> QED BY <3>1, <3>2, AddFieldFact, NullAssumption
  <2> HIDE DEF f
  <2>4. table' = [table EXCEPT !.keys = k]
    BY <1>2 DEF ParseKeyField, f
  <2> HIDE DEF k
  <2>5. table' \in Table /\ WellFormed(table')
    BY <2>2, <2>3, <2>4 DEF Table, WellFormed
  <2>6. table'.name = table.name
    BY <2>2, <2>4 DEF Table
  <2> QED BY <1>2, <2>1, <2>5, <2>6 DEF ParseKeyField, TypeInv, TypeOK, InTable, InPart
<1>3. ASSUME NEW id \in Id, RepeatedKeyField(id) PROVE TypeInv'
  <2>1. at \in InTable /\ elements' \in Nat
    BY <1>3 DEF RepeatedKeyField, InTable
  <2> QED BY <1>3, <2>1, StoreFact DEF RepeatedKeyField
<1>4. ASSUME NEW e \in Element, ParseData(e) PROVE TypeInv'
  <2> DEFINE d == AddElement(table.data, e)
  <2>1. at \in InTable /\ at \notin InPart /\ elements' \in Nat
    BY <1>4 DEF ParseData, InTable, InPart
  <2>2. table \in Table /\ WellFormed(table)
    BY <2>1 DEF TypeInv, TypeOK
  <2>3. d \in Maps(DataField) /\ WellKeyed(d) /\ IdsIn(d) \subseteq Id
    BY <2>2, AddElementFact DEF Table, WellFormed
  <2>4. table' = [table EXCEPT !.data = d, !.skipped = @ \/ Repeats(table.data, e)]
    BY <1>4 DEF ParseData
  <2>5. (table.skipped \/ Repeats(table.data, e)) \in BOOLEAN
    OBVIOUS
  <2> HIDE DEF d
  <2>6. table' \in Table /\ WellFormed(table')
    BY <2>2, <2>3, <2>4, <2>5 DEF Table, WellFormed
  <2>7. table'.name = table.name
    BY <2>2, <2>4 DEF Table
  <2> QED BY <1>4, <2>1, <2>6, <2>7 DEF ParseData, TypeInv, TypeOK, InTable, InPart
<1>5. ASSUME EndTable PROVE TypeInv'
  <2>1. at \in InTable
    BY <1>5 DEF InTable
  <2>2. table \in Table /\ WellFormed(table)
    BY <2>1 DEF TypeInv, TypeOK
  <2> QED BY <1>5, <2>1, <2>2, StoreFact DEF EndTable
<1> QED BY <1>1, <1>2, <1>3, <1>4, <1>5 DEF TableStep

\* A flag of the table's history, and nothing else, changes.
LEMMA SkippedFact ==
  ASSUME NEW t \in Table, WellFormed(t), NEW b \in BOOLEAN
  PROVE  LET u == [t EXCEPT !.skipped = b]
         IN  /\ u \in Table /\ WellFormed(u) /\ u.name = t.name
             /\ u.data = t.data /\ u.skipped = b
BY DEF Table, WellFormed

\* The steps in the actions of a table.
LEMMA TypeActionStep == TypeInv /\ ActionStep => TypeInv'
<1> SUFFICES ASSUME TypeInv, ActionStep PROVE TypeInv'
  OBVIOUS
<1>0. elements \in Nat
  BY DEF TypeInv, TypeOK
<1>a. \A S : NoFields \in Maps(S) /\ WellKeyed(NoFields)
  BY DEF NoFields, Maps, WellKeyed, IdsIn
<1>1. ASSUME NEW id \in Id, NEW n \in Name, BeginAction(id, n) PROVE TypeInv'
  <2>1. at \in InTable \ InPart /\ elements' \in Nat
    BY <1>0, <1>1, ReadInFact DEF BeginAction, InTable, InPart
  <2>2. part' \in Action /\ WellKeyed(part'.fields)
    BY <1>1, <1>a DEF BeginAction, Action, AnyId, AnyName
  <2> QED BY <1>1, <2>1, <2>2 DEF BeginAction, TypeInv, TypeOK, InTable, InPart
<1>2. ASSUME NEW e \in Element, ParseActionData(e) PROVE TypeInv'
  <2> DEFINE f == ParseDataField(e, 1)
  <2> DEFINE b == table.skipped \/ part.fields[f.id] # Null
  <2>1. at = "action" /\ at' = "action" /\ elements' \in Nat
    BY <1>0, <1>2 DEF ParseActionData
  <2>2. /\ table \in Table /\ WellFormed(table) /\ table.name \in Name
        /\ part \in Action /\ WellKeyed(part.fields)
    BY <2>1 DEF TypeInv, TypeOK, InTable, InPart
  <2>3. f \in DataField /\ f.id \in AnyId
    BY FieldType DEF DataField
  <2>4. table' = [table EXCEPT !.skipped = b] /\ b \in BOOLEAN
    BY <1>2 DEF ParseActionData
  <2>5. part' = [part EXCEPT !.fields = AddField(part.fields, f)]
    BY <1>2 DEF ParseActionData
  <2> HIDE DEF f, b
  <2>6. /\ AddField(part.fields, f) \in Maps(DataField)
        /\ WellKeyed(AddField(part.fields, f))
    BY <2>2, <2>3, AddFieldFact, NullAssumption DEF Action
  <2>7. part' \in Action /\ WellKeyed(part'.fields)
    BY <2>2, <2>5, <2>6 DEF Action
  <2>8. table' \in Table /\ WellFormed(table') /\ table'.name = table.name
    BY <2>2, <2>4, SkippedFact
  <2> QED BY <1>2, <2>1, <2>2, <2>7, <2>8
          DEF ParseActionData, TypeInv, TypeOK, InTable, InPart
<1>3. ASSUME EndAction PROVE TypeInv'
  <2> DEFINE m == AddField(table.actions, part)
  <2>1. at = "action" /\ at' = "actions"
    BY <1>3 DEF EndAction
  <2>2. /\ table \in Table /\ WellFormed(table) /\ table.name \in Name
        /\ part \in Action /\ WellKeyed(part.fields) /\ part.id \in AnyId
    BY <2>1 DEF TypeInv, TypeOK, InTable, InPart, Action
  <2>3. table.actions \in Maps(Action) /\ WellKeyed(table.actions)
    BY <2>2 DEF Table, WellFormed
  <2>4. m \in Maps(Action) /\ WellKeyed(m)
    BY <2>2, <2>3, AddFieldFact, NullAssumption
  <2>5. \A a \in IdsIn(m) : WellKeyed(m[a].fields)
    BY <2>2, <2>3 DEF AddField, IdsIn, WellFormed, Maps
  <2>6. table' = [table EXCEPT !.actions = m]
    BY <1>3 DEF EndAction
  <2> HIDE DEF m
  <2>7. table' \in Table /\ WellFormed(table') /\ table'.name = table.name
    BY <2>2, <2>4, <2>5, <2>6 DEF Table, WellFormed
  <2> QED BY <1>3, <2>1, <2>2, <2>7 DEF EndAction, TypeInv, TypeOK, InTable, InPart
<1>4. ASSUME RepeatedAction PROVE TypeInv'
  BY <1>0, <1>4, StoreFact DEF RepeatedAction, InTable, InPart
<1> QED BY <1>1, <1>2, <1>3, <1>4 DEF ActionStep

\* The steps in the notifications of a table.
LEMMA TypeNotificationStep == TypeInv /\ NotificationStep => TypeInv'
<1> SUFFICES ASSUME TypeInv, NotificationStep PROVE TypeInv'
  OBVIOUS
<1>0. elements \in Nat
  BY DEF TypeInv, TypeOK
<1>a. \A S : NoFields \in Maps(S) /\ WellKeyed(NoFields)
  BY DEF NoFields, Maps, WellKeyed, IdsIn
<1>b. at \in {"registration", "callback"} =>
        /\ table \in Table /\ WellFormed(table) /\ table.name \in Name
        /\ part \in Notification /\ part.id \in AnyId
        /\ part.registration \in Maps(Param) /\ WellKeyed(part.registration)
        /\ part.callback \in Maps(Param) /\ WellKeyed(part.callback)
  BY DEF TypeInv, TypeOK, InTable, InPart, Notification
<1>c. \A id \in Id, n \in Name : [id |-> id, name |-> n] \in Param /\ id \in AnyId
  BY DEF Param, AnyId, AnyName
<1>1. ASSUME NEW id \in Id, NEW n \in Name, BeginNotification(id, n) PROVE TypeInv'
  <2>1. at \in InTable \ InPart /\ elements' \in Nat
    BY <1>0, <1>1, ReadInFact DEF BeginNotification, InTable, InPart
  <2>2. part' \in Notification /\ WellKeyed(part'.registration) /\ WellKeyed(part'.callback)
    BY <1>1, <1>a DEF BeginNotification, Notification, AnyId, AnyName
  <2> QED BY <1>1, <2>1, <2>2 DEF BeginNotification, TypeInv, TypeOK, InTable, InPart
<1>2. ASSUME NEW id \in Id, NEW n \in Name, ParseRegistrationParam(id, n) PROVE TypeInv'
  <2> DEFINE m == AddField(part.registration, [id |-> id, name |-> n])
  <2> DEFINE b == table.skipped \/ part.registration[id] # Null
  <2>1. at = "registration" /\ at' = at /\ elements' \in Nat
    BY <1>0, <1>2 DEF ParseRegistrationParam
  <2>2. m \in Maps(Param) /\ WellKeyed(m)
    BY <1>b, <1>c, <2>1, AddFieldFact, NullAssumption
  <2>3. table' = [table EXCEPT !.skipped = b] /\ b \in BOOLEAN
    BY <1>2 DEF ParseRegistrationParam
  <2>4. part' = [part EXCEPT !.registration = m]
    BY <1>2 DEF ParseRegistrationParam
  <2> HIDE DEF m, b
  <2>5. part' \in Notification /\ WellKeyed(part'.registration) /\ WellKeyed(part'.callback)
    BY <1>b, <2>1, <2>2, <2>4 DEF Notification
  <2>6. table' \in Table /\ WellFormed(table') /\ table'.name = table.name
    BY <1>b, <2>1, <2>3, SkippedFact
  <2> QED BY <1>2, <1>b, <2>1, <2>5, <2>6
          DEF ParseRegistrationParam, TypeInv, TypeOK, InTable, InPart
<1>3. ASSUME NEW id \in Id, NEW n \in Name, ParseCallbackParam(id, n) PROVE TypeInv'
  <2> DEFINE m == AddField(part.callback, [id |-> id, name |-> n])
  <2> DEFINE b == table.skipped \/ part.callback[id] # Null
  <2>1. at \in {"registration", "callback"} /\ at' = "callback" /\ elements' \in Nat
    BY <1>0, <1>3 DEF ParseCallbackParam
  <2>2. m \in Maps(Param) /\ WellKeyed(m)
    BY <1>b, <1>c, <2>1, AddFieldFact, NullAssumption
  <2>3. table' = [table EXCEPT !.skipped = b] /\ b \in BOOLEAN
    BY <1>3 DEF ParseCallbackParam
  <2>4. part' = [part EXCEPT !.callback = m]
    BY <1>3 DEF ParseCallbackParam
  <2> HIDE DEF m, b
  <2>5. part' \in Notification /\ WellKeyed(part'.registration) /\ WellKeyed(part'.callback)
    BY <1>b, <2>1, <2>2, <2>4 DEF Notification
  <2>6. table' \in Table /\ WellFormed(table') /\ table'.name = table.name
    BY <1>b, <2>1, <2>3, SkippedFact
  <2> QED BY <1>3, <1>b, <2>1, <2>5, <2>6
          DEF ParseCallbackParam, TypeInv, TypeOK, InTable, InPart
<1>4. ASSUME EndNotification PROVE TypeInv'
  <2> DEFINE m == AddField(table.notifications, part)
  <2>1. at \in {"registration", "callback"} /\ at' = "notifications"
    BY <1>4 DEF EndNotification
  <2>2. table.notifications \in Maps(Notification) /\ WellKeyed(table.notifications)
    BY <1>b, <2>1 DEF Table, WellFormed
  <2>3. m \in Maps(Notification) /\ WellKeyed(m)
    BY <1>b, <2>1, <2>2, AddFieldFact, NullAssumption
  <2>4. \A n \in IdsIn(m) : WellKeyed(m[n].registration) /\ WellKeyed(m[n].callback)
    BY <1>b, <2>1, <2>2 DEF AddField, IdsIn, WellFormed, Maps
  <2>5. table' = [table EXCEPT !.notifications = m]
    BY <1>4 DEF EndNotification
  <2> HIDE DEF m
  <2>6. table' \in Table /\ WellFormed(table') /\ table'.name = table.name
    BY <1>b, <2>1, <2>3, <2>4, <2>5 DEF Table, WellFormed
  <2> QED BY <1>4, <1>b, <2>1, <2>6 DEF EndNotification, TypeInv, TypeOK, InTable, InPart
<1>5. ASSUME RepeatedNotification PROVE TypeInv'
  BY <1>0, <1>5, StoreFact DEF RepeatedNotification, InTable, InPart
<1> QED BY <1>1, <1>2, <1>3, <1>4, <1>5 DEF NotificationStep

\* The steps in learns.
LEMMA TypeLearnStep == TypeInv /\ LearnStep => TypeInv'
<1> SUFFICES ASSUME TypeInv, LearnStep PROVE TypeInv'
  OBVIOUS
<1>1. ASSUME NEW n \in Name, BeginLearn(n) PROVE TypeInv'
  <2>1. NoFields \in Maps(DataField) /\ WellKeyed(NoFields)
    BY DEF NoFields, Maps, WellKeyed, IdsIn
  <2>2. part' \in Learn /\ WellKeyed(part'.fields) /\ part'.name \in Name
    BY <1>1, <2>1 DEF BeginLearn, Learn, AnyName
  <2> QED BY <1>1, <2>2 DEF BeginLearn, TypeInv, TypeOK, InTable, InPart
<1>2. ASSUME NEW e \in Element, ParseLearnField(e) PROVE TypeInv'
  <2> DEFINE f == ParseDataField(e, 2)
  <2>1. at = "learn" /\ at' = at
    BY <1>2 DEF ParseLearnField
  <2>2. part \in Learn /\ WellKeyed(part.fields) /\ part.name \in Name
    BY <2>1 DEF TypeInv, TypeOK
  <2>3. f \in DataField /\ f.id \in AnyId
    BY FieldType DEF DataField
  <2>4. part' = [part EXCEPT !.fields = AddField(part.fields, f)]
    BY <1>2 DEF ParseLearnField
  <2> HIDE DEF f
  <2>5. /\ AddField(part.fields, f) \in Maps(DataField)
        /\ WellKeyed(AddField(part.fields, f))
    BY <2>2, <2>3, AddFieldFact, NullAssumption DEF Learn
  <2>6. part' \in Learn /\ WellKeyed(part'.fields) /\ part'.name \in Name
    BY <2>2, <2>4, <2>5 DEF Learn
  <2> QED BY <1>2, <2>1, <2>6 DEF ParseLearnField, TypeInv, TypeOK, InTable, InPart
<1>3. ASSUME EndLearn PROVE TypeInv'
  <2>1. part \in Learn /\ WellKeyed(part.fields) /\ part.name \in Name
    BY <1>3 DEF EndLearn, TypeInv, TypeOK
  <2>2. /\ DOMAIN learnInfoMap' \subseteq Name
        /\ \A n \in DOMAIN learnInfoMap' :
             learnInfoMap'[n] \in Learn /\ WellKeyed(learnInfoMap'[n].fields)
    BY <1>3, <2>1 DEF EndLearn, Assign, TypeInv, TypeOK
  <2> QED BY <1>3, <2>2 DEF EndLearn, TypeInv, TypeOK, InTable, InPart
<1> QED BY <1>1, <1>2, <1>3 DEF LearnStep

LEMMA TypeStep == TypeInv /\ [Next]_vars => TypeInv'
<1>1. TypeInv /\ UNCHANGED vars => TypeInv'
  BY DEF TypeInv, TypeOK, vars
<1> QED BY <1>1, TypeFileStep, TypeTableStep, TypeActionStep, TypeNotificationStep,
           TypeLearnStep DEF Next

\* The types, for any schema files.
THEOREM TypeCorrect == Spec => []TypeOK
<1>1. TypeInv => TypeOK
  BY DEF TypeInv
<1> QED BY <1>1, TypeInit, TypeStep, PTL DEF Spec

-----------------------------------------------------------------------------
(* Oneofs.                                                                 *)

\* The table being parsed is partitioned like the stored ones: the invariant
\* that carries OneofsPartition from one element to the next.
OneofInv ==
  /\ table # Null /\ ~table.skipped => Partitioned(table.data)
  /\ OneofsPartition

\* Steps that leave the common fields alone.
LEMMA SameData ==
  ASSUME OneofInv, tableInfoMap' = tableInfoMap,
         table' # Null => /\ table # Null /\ table'.data = table.data
                          /\ (table.skipped => table'.skipped)
  PROVE  OneofInv'
BY DEF OneofInv, OneofsPartition, Stored

\* Filing the table, or nothing.
LEMMA StoredPartitioned ==
  ASSUME OneofInv, NEW t, Store(t), t = Null \/ t = table
  PROVE  OneofInv'
<1>1. Stored' \subseteq Stored \union ({t} \ {Null})
  BY DEF Store, Assign, Stored
<1> QED BY <1>1 DEF OneofInv, OneofsPartition, Store

LEMMA OneofTableStep == TypeInv /\ OneofInv /\ TableStep => OneofInv'
<1> SUFFICES ASSUME TypeInv, OneofInv, TableStep PROVE OneofInv'
  OBVIOUS
<1>0. at \in InTable => table \in Table /\ WellFormed(table) /\ table # Null
  BY NullAssumption DEF TypeInv, TypeOK
<1>a. elements \in Nat
  BY DEF TypeInv, TypeOK
<1>1. ASSUME NEW n \in Name, BeginTable(n) PROVE OneofInv'
  BY <1>1, NewTable DEF BeginTable, OneofInv, OneofsPartition, Stored
<1>2. ASSUME NEW id \in Id, NEW n \in Name, ParseKeyField(id, n) PROVE OneofInv'
  <2>1. table \in Table /\ table # Null
    BY <1>0, <1>a, <1>2, ReadInFact DEF ParseKeyField, InTable
  <2>2. table'.data = table.data /\ table'.skipped = table.skipped
    BY <1>2, <2>1 DEF ParseKeyField, Table
  <2> QED BY <1>2, <2>1, <2>2, SameData DEF ParseKeyField
<1>3. ASSUME NEW id \in Id, RepeatedKeyField(id) PROVE OneofInv'
  BY <1>3, StoredPartitioned DEF RepeatedKeyField
<1>4. ASSUME NEW e \in Element, ParseData(e) PROVE OneofInv'
  <2> DEFINE d == AddElement(table.data, e)
  <2> DEFINE b == table.skipped \/ Repeats(table.data, e)
  <2>1. table \in Table /\ WellFormed(table) /\ table # Null
    BY <1>0, <1>a, <1>4, ReadInFact DEF ParseData, InTable
  <2>2. table' = [table EXCEPT !.data = d, !.skipped = b]
    BY <1>4 DEF ParseData
  <2>3. ~b => Partitioned(d)
    BY <2>1, PartitionKept DEF OneofInv, Table, WellFormed
  <2> HIDE DEF d, b
  <2>4. table'.data = d /\ table'.skipped = b
    BY <2>1, <2>2 DEF Table
  <2>5. tableInfoMap' = tableInfoMap
    BY <1>4 DEF ParseData
  <2> QED BY <2>3, <2>4, <2>5 DEF OneofInv, OneofsPartition, Stored
<1>5. ASSUME EndTable PROVE OneofInv'
  BY <1>5, StoredPartitioned DEF EndTable
<1> QED BY <1>1, <1>2, <1>3, <1>4, <1>5 DEF TableStep

LEMMA OneofPartStep ==
  TypeInv /\ OneofInv /\ (ActionStep \/ NotificationStep) => OneofInv'
<1> SUFFICES ASSUME TypeInv, OneofInv, ActionStep \/ NotificationStep PROVE OneofInv'
  OBVIOUS
<1>0. at \in InPart => table \in Table /\ WellFormed(table) /\ table # Null
  BY NullAssumption DEF TypeInv, TypeOK, InTable
<1>1. CASE \/ \E id \in Id, n \in Name : BeginAction(id, n)
           \/ \E id \in Id, n \in Name : BeginNotification(id, n)
  <2>1. UNCHANGED <<table, tableInfoMap>>
    BY <1>1 DEF BeginAction, BeginNotification
  <2> QED BY <2>1, SameData
<1>2. ASSUME NEW e \in Element, ParseActionData(e) PROVE OneofInv'
  <2>1. table \in Table /\ WellFormed(table) /\ table # Null
    BY <1>0, <1>2 DEF ParseActionData, InPart
  <2>2. PICK b \in BOOLEAN :
          table' = [table EXCEPT !.skipped = b] /\ (table.skipped => b)
    BY <1>2 DEF ParseActionData
  <2> QED BY <1>2, <2>1, <2>2, SkippedFact, SameData DEF ParseActionData
<1>3. ASSUME NEW id \in Id, NEW n \in Name,
             ParseRegistrationParam(id, n) \/ ParseCallbackParam(id, n)
      PROVE OneofInv'
  <2>1. table \in Table /\ WellFormed(table) /\ table # Null
    BY <1>0, <1>3 DEF ParseRegistrationParam, ParseCallbackParam, InPart
  <2>2. PICK b \in BOOLEAN :
          table' = [table EXCEPT !.skipped = b] /\ (table.skipped => b)
    BY <1>3 DEF ParseRegistrationParam, ParseCallbackParam
  <2>3. tableInfoMap' = tableInfoMap
    BY <1>3 DEF ParseRegistrationParam, ParseCallbackParam
  <2> QED BY <2>1, <2>2, <2>3, SkippedFact, SameData
<1>4. CASE EndAction \/ EndNotification
  <2>1. table \in Table /\ table # Null
    BY <1>0, <1>4 DEF EndAction, EndNotification, InPart
  <2>2. table'.data = table.data /\ table'.skipped = table.skipped
    BY <1>4, <2>1 DEF EndAction, EndNotification, Table
  <2>3. tableInfoMap' = tableInfoMap
    BY <1>4 DEF EndAction, EndNotification
  <2> QED BY <2>1, <2>2, <2>3, SameData
<1>5. CASE RepeatedAction \/ RepeatedNotification
  BY <1>5, StoredPartitioned DEF RepeatedAction, RepeatedNotification
<1> QED BY <1>1, <1>2, <1>3, <1>4, <1>5 DEF ActionStep, NotificationStep

\* Oneofs of a table parsed without an error are disjoint groups, and the
\* siblings of a field are the rest of its group.
THEOREM OneofsDisjoint == Spec => []OneofsPartition
<1>1. Init => OneofInv
  BY DEF Init, OneofInv, OneofsPartition, Stored
<1>2. ASSUME TypeInv, OneofInv, [Next]_vars PROVE OneofInv'
  <2>1. CASE FileStep \/ LearnStep \/ UNCHANGED vars
    <3>1. UNCHANGED <<table, tableInfoMap>>
      BY <2>1 DEF FileStep, NoFiles, OpenFile, CannotOpen, AllRead, Return,
                  LearnStep, BeginLearn, ParseLearnField, EndLearn, vars
    <3> QED BY <1>2, <3>1, SameData
  <2>2. CASE TableStep
    BY <1>2, <2>2, OneofTableStep
  <2>3. CASE ActionStep \/ NotificationStep
    BY <1>2, <2>3, OneofPartStep
  <2> QED BY <1>2, <2>1, <2>2, <2>3 DEF Next
<1>3. OneofInv => OneofsPartition
  BY DEF OneofInv
<1> QED BY <1>1, <1>2, <1>3, TypeInit, TypeStep, PTL DEF Spec

-----------------------------------------------------------------------------
(* Lookups.                                                                *)

\* What a name leads to in a map.
LEMMA ByNameFact ==
  ASSUME NEW m, WellKeyed(m), NEW n, ByName(m, n) # Null
  PROVE  /\ ByName(m, n).name = n
         /\ ByName(m, n).id \in AnyId
         /\ m[ByName(m, n).id] = ByName(m, n)
<1>1. IdsOf(m, n) # {} /\ IdsOf(m, n) \in SUBSET AnyId
  BY DEF ByName, IdsOf, IdsIn
<1>2. Highest(IdsOf(m, n)) \in IdsOf(m, n)
  BY <1>1, HighestFact
<1> QED BY <1>1, <1>2 DEF ByName, IdsOf, IdsIn, WellKeyed

\* The fields of an action, which may not exist.
LEMMA OwnFact ==
  ASSUME NEW t \in Table, WellFormed(t), NEW a \in AnyId
  PROVE  OwnFields(t, a) \in Maps(DataField) /\ WellKeyed(OwnFields(t, a))
<1>1. t.actions \in Maps(Action)
  BY DEF Table
<1>2. CASE a # 0 /\ t.actions[a] # Null
  <2>1. t.actions[a] \in Action /\ a \in IdsIn(t.actions)
    BY <1>1, <1>2 DEF Maps, IdsIn
  <2> QED BY <1>2, <2>1 DEF OwnFields, Action, WellFormed
<1>3. CASE ~(a # 0 /\ t.actions[a] # Null)
  BY <1>3 DEF OwnFields, NoFields, Maps, WellKeyed, IdsIn
<1> QED BY <1>2, <1>3

\* Stored tables are as the types say.
LEMMA StoredFact ==
  ASSUME TypeOK, NEW t \in Stored
  PROVE  t \in Table /\ WellFormed(t)
BY DEF TypeOK, Stored

\* Names and ids lead to the same things in every table and learn that has
\* been parsed, whatever the schema says and however often it repeats itself.
THEOREM NamesAndIdsAgree == Spec => []LookupsAgree
<1>1. ASSUME TypeOK PROVE LookupsAgree
  <2>1. ASSUME NEW t \in Stored, NEW n \in AnyName
        PROVE  LET k == KeyFieldByName(t, n)
               IN  k # Null => k.name = n /\ KeyFieldById(t, k.id) = k
    BY <1>1, StoredFact, ByNameFact DEF WellFormed, KeyFieldByName, KeyFieldById
  <2>2. ASSUME NEW t \in Stored, NEW n \in AnyName
        PROVE  LET a == ActionByName(t, n)
               IN  a # Null => a.name = n /\ ActionById(t, a.id) = a
    BY <1>1, StoredFact, ByNameFact DEF WellFormed, ActionByName, ActionById
  <2>3. ASSUME NEW t \in Stored, NEW n \in AnyName, NEW a \in AnyId,
               DataFieldByName(t, n, a) # Null
        PROVE  LET f == DataFieldByName(t, n, a)
               IN  /\ f.name = n
                   /\ \/ DataFieldById(t, f.id, a) = f
                      \/ /\ ByName(OwnFields(t, a), n) = Null
                         /\ OwnFields(t, a)[f.id] # Null
    <3> DEFINE own == OwnFields(t, a)
    <3> DEFINE f == DataFieldByName(t, n, a)
    <3>1. WellKeyed(own) /\ WellKeyed(t.data)
      BY <1>1, StoredFact, OwnFact DEF WellFormed
    <3>2. CASE ByName(own, n) # Null
      <4>1. f = ByName(own, n)
        BY <3>2 DEF DataFieldByName, OrElse
      <4>2. f.name = n /\ own[f.id] = f /\ f # Null
        BY <3>1, <3>2, <4>1, ByNameFact
      <4> QED BY <4>2 DEF DataFieldById, OrElse
    <3>3. CASE ByName(own, n) = Null
      <4>1. f = ByName(t.data, n) /\ f # Null
        BY <2>3, <3>3 DEF DataFieldByName, OrElse
      <4>2. f.name = n /\ t.data[f.id] = f
        BY <3>1, <4>1, ByNameFact
      <4> QED BY <3>3, <4>1, <4>2 DEF DataFieldById, OrElse
    <3> QED BY <3>2, <3>3
  <2>4. ASSUME NEW t \in Stored, NEW a \in AnyId, NEW f \in AnyId
        PROVE  /\ RegistrationParam(t, f, a) # Null => RegistrationParam(t, f, a).id = f
               /\ CallbackParam(t, f, a) # Null => CallbackParam(t, f, a).id = f
    <3>1. t \in Table /\ WellFormed(t)
      BY <1>1, StoredFact
    <3> QED BY <3>1 DEF RegistrationParam, CallbackParam, WellFormed, WellKeyed, IdsIn
  <2>5. ASSUME NEW l \in StoredLearns, NEW n \in AnyName, LearnFieldIdGet(l, n) # 0
        PROVE  LET i == LearnFieldIdGet(l, n)
               IN  LearnFieldById(l, i) # Null /\ LearnFieldById(l, i).name = n
    <3>1. WellKeyed(l.fields)
      BY <1>1 DEF TypeOK, StoredLearns
    <3>a. AnyId \subseteq Nat
      BY IdAssumption DEF AnyId
    <3>b. IdsOf(l.fields, n) # {}
      BY <2>5 DEF LearnFieldIdGet
    <3>2. IdsOf(l.fields, n) \in SUBSET Nat /\ IdsOf(l.fields, n) # {}
      BY <3>a, <3>b DEF IdsOf, IdsIn
    <3>3. Lowest(IdsOf(l.fields, n)) \in IdsOf(l.fields, n)
      BY <3>2, LowestFact
    <3> QED BY <3>1, <3>2, <3>3
            DEF LearnFieldIdGet, LearnFieldById, IdsOf, IdsIn, WellKeyed
  <2> QED BY <2>1, <2>2, <2>3, <2>4, <2>5 DEF LookupsAgree
<1> QED BY <1>1, TypeCorrect, PTL

\* The list of the fields of an action, or of no action, has the ids the lookup
\* finds, and no other.
THEOREM ListsAreComplete == Spec => []ListsMatchLookups
<1>1. ASSUME TypeOK, NEW t \in Stored, NEW a \in AnyId
      PROVE  BagToSet(DataFieldIdList(t, a)) = {f \in AnyId : DataFieldById(t, f, a) # Null}
  <2>1. BagToSet(DataFieldIdList(t, a)) = IdsIn(OwnFields(t, a)) \union IdsIn(t.data)
    BY DEF DataFieldIdList, BagToSet, SetToBag, (+)
  <2> QED BY <2>1 DEF DataFieldById, OrElse, IdsIn
<1>2. TypeOK => ListsMatchLookups
  BY <1>1 DEF ListsMatchLookups
<1> QED BY <1>2, TypeCorrect, PTL

-----------------------------------------------------------------------------
(* First declarations.                                                     *)

\* The maps of the table being parsed only become more.
KeepsTable ==
  (table # Null /\ table' # Null) =>
     /\ Kept(table.keys, table'.keys)
     /\ Kept(table.data, table'.data)
     /\ Kept(table.actions, table'.actions)
     /\ Kept(table.notifications, table'.notifications)

\* So do the fields of the action or learn being parsed.
KeepsFields ==
  (at \in {"action", "learn"} /\ at' = at) => Kept(part.fields, part'.fields)

\* So do the parameters of the notification being parsed.
KeepsParams ==
  {at, at'} \subseteq {"registration", "callback"} =>
     /\ Kept(part.registration, part'.registration)
     /\ Kept(part.callback, part'.callback)

LEMMA SameKept == \A m : Kept(m, m)
BY DEF Kept

\* An element joins a map that keeps what it has.
LEMMA AddKept ==
  ASSUME NEW S, Null \notin S, NEW m \in Maps(S), WellKeyed(m),
         NEW f \in S, f.id \in AnyId
  PROVE  Kept(m, AddField(m, f))
BY AddFieldFact DEF Kept

LEMMA TableKept == TypeInv /\ Next => KeepsTable
<1> SUFFICES ASSUME TypeInv, Next, table # Null, table' # Null
             PROVE  KeepsTable
  BY DEF KeepsTable
<1>1. at \in InTable /\ table \in Table /\ WellFormed(table)
  BY DEF TypeInv, TypeOK
<1>2. CASE UNCHANGED table
  BY <1>2, SameKept DEF KeepsTable
<1>3. FileStep \/ LearnStep \/ (\E n \in Name : BeginTable(n)) => UNCHANGED table
  BY <1>1 DEF FileStep, NoFiles, OpenFile, CannotOpen, AllRead, Return,
              LearnStep, BeginLearn, ParseLearnField, EndLearn,
              BeginTable, InTable, InPart
<1>4. (\E id \in Id, n \in Name : BeginAction(id, n) \/ BeginNotification(id, n))
        => UNCHANGED table
  BY DEF BeginAction, BeginNotification
<1>5. ASSUME NEW e \in Element, ParseData(e) PROVE KeepsTable
  <2> DEFINE d == AddElement(table.data, e)
  <2>1. Kept(table.data, d)
    BY <1>1, AddElementFact DEF Table, WellFormed, Kept
  <2>2. table' = [table EXCEPT !.data = d, !.skipped = @ \/ Repeats(table.data, e)]
    BY <1>5 DEF ParseData
  <2> HIDE DEF d
  <2>3. /\ table'.data = d /\ table'.keys = table.keys
        /\ table'.actions = table.actions /\ table'.notifications = table.notifications
    BY <1>1, <2>2 DEF Table
  <2> QED BY <2>1, <2>3, SameKept DEF KeepsTable
<1>6. ASSUME NEW id \in Id, NEW n \in Name, ParseKeyField(id, n) PROVE KeepsTable
  <2> DEFINE k == AddField(table.keys, [id |-> id, name |-> n])
  <2>1. [id |-> id, name |-> n] \in Param
    BY DEF Param, AnyId, AnyName
  <2>2. Kept(table.keys, k)
    BY <1>1, <2>1, AddKept, NullAssumption DEF Table, WellFormed, Param
  <2>3. table' = [table EXCEPT !.keys = k]
    BY <1>6 DEF ParseKeyField
  <2> HIDE DEF k
  <2>4. /\ table'.keys = k /\ table'.data = table.data
        /\ table'.actions = table.actions /\ table'.notifications = table.notifications
    BY <1>1, <2>3 DEF Table
  <2> QED BY <2>2, <2>4, SameKept DEF KeepsTable
<1>7. CASE EndAction
  <2> DEFINE a == AddField(table.actions, part)
  <2>1. part \in Action
    BY <1>7 DEF EndAction, TypeInv, TypeOK
  <2>2. Kept(table.actions, a)
    BY <1>1, <2>1, AddKept, NullAssumption DEF Table, WellFormed, Action
  <2>3. table' = [table EXCEPT !.actions = a]
    BY <1>7 DEF EndAction
  <2> HIDE DEF a
  <2>4. /\ table'.actions = a /\ table'.data = table.data
        /\ table'.keys = table.keys /\ table'.notifications = table.notifications
    BY <1>1, <2>3 DEF Table
  <2> QED BY <2>2, <2>4, SameKept DEF KeepsTable
<1>8. CASE EndNotification
  <2> DEFINE a == AddField(table.notifications, part)
  <2>1. part \in Notification
    BY <1>8 DEF EndNotification, TypeInv, TypeOK
  <2>2. Kept(table.notifications, a)
    BY <1>1, <2>1, AddKept, NullAssumption DEF Table, WellFormed, Notification
  <2>3. table' = [table EXCEPT !.notifications = a]
    BY <1>8 DEF EndNotification
  <2> HIDE DEF a
  <2>4. /\ table'.notifications = a /\ table'.data = table.data
        /\ table'.keys = table.keys /\ table'.actions = table.actions
    BY <1>1, <2>3 DEF Table
  <2> QED BY <2>2, <2>4, SameKept DEF KeepsTable
<1>9. ASSUME NEW s, table' = [table EXCEPT !.skipped = s] PROVE KeepsTable
  <2>1. /\ table'.keys = table.keys /\ table'.data = table.data
        /\ table'.actions = table.actions /\ table'.notifications = table.notifications
    BY <1>1, <1>9 DEF Table
  <2> QED BY <2>1, SameKept DEF KeepsTable
<1>10. CASE \E e \in Element : ParseActionData(e)
  BY <1>9, <1>10 DEF ParseActionData
<1>11. CASE \E id \in Id, n \in Name : ParseRegistrationParam(id, n) \/ ParseCallbackParam(id, n)
  BY <1>9, <1>11 DEF ParseRegistrationParam, ParseCallbackParam
<1>12. /\ ~RepeatedAction /\ ~RepeatedNotification
       /\ ~EndTable /\ \A id \in Id : ~RepeatedKeyField(id)
  BY DEF RepeatedAction, RepeatedNotification, EndTable, RepeatedKeyField, Store
<1> QED BY <1>2, <1>3, <1>4, <1>5, <1>6, <1>7, <1>8, <1>10, <1>11, <1>12
        DEF Next, TableStep, ActionStep, NotificationStep

\* Steps of the sections of a table, and what is between tables, are not steps
\* within an action, a notification or a learn.
LEMMA PartSteps ==
  ASSUME TypeInv, Next
  PROVE  /\ at = "action" /\ at' = at => \E e \in Element : ParseActionData(e)
         /\ at = "learn" /\ at' = at => \E e \in Element : ParseLearnField(e)
         /\ {at, at'} \subseteq {"registration", "callback"} =>
              \E id \in Id, n \in Name :
                ParseRegistrationParam(id, n) \/ ParseCallbackParam(id, n)
<1>1. elements \in Nat
  BY DEF TypeInv, TypeOK
<1> SUFFICES ASSUME at \in {"action", "learn", "registration", "callback"},
                    at' = at \/ {at, at'} \subseteq {"registration", "callback"}
             PROVE  /\ at = "action" => \E e \in Element : ParseActionData(e)
                    /\ at = "learn" => \E e \in Element : ParseLearnField(e)
                    /\ at \in {"registration", "callback"} =>
                         \E id \in Id, n \in Name :
                           ParseRegistrationParam(id, n) \/ ParseCallbackParam(id, n)
  OBVIOUS
<1>2. ~FileStep
  BY DEF FileStep, NoFiles, OpenFile, CannotOpen, AllRead, BetweenFiles, Return
<1>3. ~TableStep
  BY <1>1, ReadInFact
     DEF TableStep, BeginTable, ParseKeyField, RepeatedKeyField, ParseData
<1>4. ASSUME ActionStep PROVE at = "action" /\ \E e \in Element : ParseActionData(e)
  BY <1>1, <1>4, ReadInFact
     DEF ActionStep, BeginAction, ParseActionData, EndAction, RepeatedAction, Store
<1>5. ASSUME NotificationStep
      PROVE  /\ at \in {"registration", "callback"}
             /\ \E id \in Id, n \in Name :
                  ParseRegistrationParam(id, n) \/ ParseCallbackParam(id, n)
  BY <1>1, <1>5, ReadInFact
     DEF NotificationStep, BeginNotification, ParseRegistrationParam, ParseCallbackParam,
         EndNotification, RepeatedNotification, Store
<1>6. ASSUME LearnStep PROVE at = "learn" /\ \E e \in Element : ParseLearnField(e)
  BY <1>6 DEF LearnStep, BeginLearn, ParseLearnField, EndLearn
<1> QED BY <1>2, <1>3, <1>4, <1>5, <1>6 DEF Next

LEMMA FieldsKept == TypeInv /\ Next => KeepsFields
<1> SUFFICES ASSUME TypeInv, Next, at \in {"action", "learn"}, at' = at
             PROVE  Kept(part.fields, part'.fields)
  BY DEF KeepsFields
<1>1. part \in Action \union Learn /\ WellKeyed(part.fields)
  BY DEF TypeInv, TypeOK
<1>2. PICK e \in Element, i \in {1, 2} :
        part' = [part EXCEPT !.fields = AddField(@, ParseDataField(e, i))]
  BY PartSteps DEF ParseActionData, ParseLearnField
<1> DEFINE f == ParseDataField(e, i)
<1> DEFINE m == AddField(part.fields, f)
<1>3. f \in DataField /\ f.id \in AnyId
  BY FieldType DEF DataField
<1>4. part.fields \in Maps(DataField)
  BY <1>1 DEF Action, Learn
<1> HIDE DEF f
<1>5. Kept(part.fields, m)
  BY <1>1, <1>3, <1>4, AddKept, NullAssumption
<1>6. part' = [part EXCEPT !.fields = m]
  BY <1>2 DEF f
<1> HIDE DEF m
<1> QED BY <1>1, <1>5, <1>6 DEF Action, Learn

LEMMA ParamsKept == TypeInv /\ Next => KeepsParams
<1> SUFFICES ASSUME TypeInv, Next, {at, at'} \subseteq {"registration", "callback"}
             PROVE  /\ Kept(part.registration, part'.registration)
                    /\ Kept(part.callback, part'.callback)
  BY DEF KeepsParams
<1>1. part \in Notification /\ WellKeyed(part.registration) /\ WellKeyed(part.callback)
  BY DEF TypeInv, TypeOK
<1>2. PICK id \in Id, n \in Name : ParseRegistrationParam(id, n) \/ ParseCallbackParam(id, n)
  BY PartSteps
<1> DEFINE p == [id |-> id, name |-> n]
<1>3. p \in Param /\ p.id \in AnyId
  BY DEF Param, AnyId, AnyName
<1> DEFINE r == AddField(part.registration, p)
<1> DEFINE c == AddField(part.callback, p)
<1> HIDE DEF p
<1>4. Kept(part.registration, r) /\ Kept(part.callback, c)
  BY <1>1, <1>3, AddKept, NullAssumption DEF Notification
<1>5. \/ part' = [part EXCEPT !.registration = r]
      \/ part' = [part EXCEPT !.callback = c]
  BY <1>2 DEF ParseRegistrationParam, ParseCallbackParam, p
<1> HIDE DEF r, c
<1> QED BY <1>1, <1>4, <1>5, SameKept DEF Notification

\* What has been parsed is not replaced by a later element with its id
\* (SchemaParser!FirstDeclarationStands): keys, fields, actions and
\* notifications of a table, the fields of its actions, the parameters of its
\* notifications and the fields of learns, for any files.
THEOREM FirstStands == Spec => FirstDeclarationStands
<1>1. TypeInv /\ [Next]_vars => [KeepsTable /\ KeepsFields /\ KeepsParams]_vars
  BY TableKept, FieldsKept, ParamsKept
<1> QED BY <1>1, TypeInit, TypeStep, PTL
        DEF Spec, FirstDeclarationStands, KeepsTable, KeepsFields, KeepsParams
=============================================================================
