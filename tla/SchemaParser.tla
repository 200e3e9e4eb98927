---------------------------- MODULE SchemaParser ----------------------------
(***************************************************************************)
(* TdiInfoParser: from schema files to TableInfo and LearnInfo.            *)
(*                                                                         *)
(* A file is read element by element.  The sections of a table come in a   *)
(* fixed order: keys, data, actions, notifications, and the learns of a    *)
(* file after its tables.  A repeated data field or parameter is skipped   *)
(* and an error is logged; a repeated key, action or notification abandons *)
(* the table, for which a null pointer is stored.  A file that cannot be   *)
(* opened ends the parse: what was read before stays in the maps.          *)
(***************************************************************************)
EXTENDS TableInfo, Sequences

CONSTANTS
  Element,          \* the data elements the files contain
  MaxElements,      \* bound: elements in all files
  MaxTables,        \* bound: tables and learns in all files
  MaxFiles          \* bound: files in the list

\* A data element is a single field, or the list of a oneof's fields.
ASSUME ElementAssumption ==
  /\ Element \subseteq [oneof : BOOLEAN, members : Seq([id : Id, name : Name])]
  /\ \A e \in Element : ~e.oneof => Len(e.members) = 1

ASSUME BoundAssumption ==
  MaxElements \in Nat /\ MaxTables \in Nat /\ MaxFiles \in Nat

VARIABLES
  filesLeft,        \* files not opened yet
  at,               \* the list whose next element is read
  table,            \* the table being parsed, or Null
  part,             \* the action, notification or learn being parsed, or Null
  tableInfoMap,     \* table_info_map_: table name -> table, or Null
  learnInfoMap,     \* learn_info_map_
  status,           \* what parseTdiInfo has returned
  elements,         \* number of elements read
  tables            \* number of tables and learns begun

vars == <<filesLeft, at, table, part, tableInfoMap, learnInfoMap, status,
          elements, tables>>

-----------------------------------------------------------------------------

MemberIds(e) == {e.members[i].id : i \in DOMAIN e.members}

\* What the index of a list gives beyond its end: a json null.
NoMember == [id |-> 0, name |-> NoName]

Member(e, i) == IF i \in DOMAIN e.members THEN e.members[i] ELSE NoMember

\* Mutation: the field stays among its siblings.
ParseDataField_KeepsItself(e, i) ==
  LET m == IF e.oneof THEN Member(e, i) ELSE e.members[1]
  IN  [id |-> m.id, name |-> m.name,
       siblings |-> IF e.oneof THEN MemberIds(e) ELSE {}]

\* The i-th field of an element, counted from 1, or its only one.
ParseDataField(e, i) ==
  LET m == IF e.oneof THEN Member(e, i) ELSE e.members[1]
  IN  [id |-> m.id, name |-> m.name,
       siblings |-> IF e.oneof THEN MemberIds(e) \ {m.id} ELSE {}]

\* Insert a parsed field, unless there is one with its id.
AddField(m, f) == IF m[f.id] = Null THEN [m EXCEPT ![f.id] = f] ELSE m

\* The first member with an id.
IndexOf(e, id) == Lowest({i \in DOMAIN e.members : e.members[i].id = id})

\* All the fields of an element, each unless there is one with its id.
AddElement(m, e) ==
  [id \in AnyId |->
     IF m[id] = Null /\ id \in MemberIds(e)
       THEN ParseDataField(e, IndexOf(e, id)) ELSE m[id]]

\* An error is logged for a member whose id is taken, by an earlier member too.
Repeats(m, e) ==
  \/ MemberIds(e) \intersect IdsIn(m) # {}
  \/ \E i, j \in DOMAIN e.members :
       i # j /\ e.members[i].id = e.members[j].id

-----------------------------------------------------------------------------

Init ==
  /\ filesLeft \in 0..MaxFiles
  /\ at = "start"
  /\ table = Null
  /\ part = Null
  /\ tableInfoMap = [n \in {} |-> Null]
  /\ learnInfoMap = [n \in {} |-> Null]
  /\ status = "none"
  /\ elements = 0
  /\ tables = 0

Return(s) ==
  /\ at' = "returned"
  /\ status' = s
  /\ UNCHANGED <<filesLeft, table, part, tableInfoMap, learnInfoMap, elements, tables>>

NoFiles == at = "start" /\ filesLeft = 0 /\ Return("OBJECT_NOT_FOUND")

\* Before the first file, or at the end of one.
BetweenFiles == at \in {"start", "tables", "learns"}

OpenFile ==
  /\ BetweenFiles
  /\ filesLeft > 0
  /\ filesLeft' = filesLeft - 1
  /\ at' = "tables"
  /\ UNCHANGED <<table, part, tableInfoMap, learnInfoMap, status, elements, tables>>

CannotOpen == BetweenFiles /\ filesLeft > 0 /\ Return("OBJECT_NOT_FOUND")

AllRead == at \in {"tables", "learns"} /\ filesLeft = 0 /\ Return("SUCCESS")

-----------------------------------------------------------------------------

BeginTable(n) ==
  /\ at = "tables"
  /\ tables < MaxTables
  /\ tables' = tables + 1
  /\ at' = "keys"
  /\ table' = [name |-> n, keys |-> NoFields, data |-> NoFields,
               actions |-> NoFields, notifications |-> NoFields,
               skipped |-> FALSE]
  /\ UNCHANGED <<filesLeft, part, tableInfoMap, learnInfoMap, status, elements>>

\* operator[] of a std::map.
Assign(m, n, info) ==
  [k \in DOMAIN m \union {n} |-> IF k = n THEN info ELSE m[k]]

\* What parseTable returns goes into the map, in the place of an earlier
\* table of that name.
Store(t) ==
  /\ tableInfoMap' = Assign(tableInfoMap, table.name, t)
  /\ table' = Null
  /\ part' = Null
  /\ at' = "tables"
  /\ UNCHANGED <<filesLeft, learnInfoMap, status, tables>>

\* The next element is one of the list l.  Lists that are not reached are empty.
Sections == <<"keys", "data", "actions", "notifications">>

ReadIn(l) ==
  /\ \E i, j \in DOMAIN Sections : i <= j /\ at = Sections[i] /\ l = Sections[j]
  /\ elements < MaxElements
  /\ elements' = elements + 1

EndTable ==
  /\ \E i \in DOMAIN Sections : at = Sections[i]
  /\ Store(table)
  /\ UNCHANGED elements

ParseKeyField(id, n) ==
  /\ ReadIn("keys")
  /\ table.keys[id] = Null
  /\ table' = [table EXCEPT !.keys = AddField(@, [id |-> id, name |-> n])]
  /\ UNCHANGED <<filesLeft, at, part, tableInfoMap, learnInfoMap, status, tables>>

RepeatedKeyField(id) ==
  /\ ReadIn("keys")
  /\ table.keys[id] # Null
  /\ Store(Null)

\* Mutation: the loop over the members of a oneof goes one too far.
ParseData_OneTooFar(e) ==
  /\ ReadIn("data")
  /\ at' = "data"
  /\ table' = [table EXCEPT
       !.data = LET m == AddElement(@, e)
                IN  IF e.oneof THEN AddField(m, ParseDataField(e, Len(e.members) + 1)) ELSE m,
       !.skipped = @ \/ Repeats(table.data, e)]
  /\ UNCHANGED <<filesLeft, part, tableInfoMap, learnInfoMap, status, tables>>

ParseData(e) ==
  /\ ReadIn("data")
  /\ at' = "data"
  /\ table' = [table EXCEPT !.data = AddElement(@, e),
                            !.skipped = @ \/ Repeats(table.data, e)]
  /\ UNCHANGED <<filesLeft, part, tableInfoMap, learnInfoMap, status, tables>>

-----------------------------------------------------------------------------

BeginAction(id, n) ==
  /\ ReadIn("actions")
  /\ at' = "action"
  /\ part' = [id |-> id, name |-> n, fields |-> NoFields]
  /\ UNCHANGED <<filesLeft, table, tableInfoMap, learnInfoMap, status, tables>>

\* Of a oneof in an action only the first field is parsed, with the others as
\* its siblings.
ParseActionData(e) ==
  /\ at = "action"
  /\ elements < MaxElements
  /\ elements' = elements + 1
  /\ part' = [part EXCEPT !.fields = AddField(@, ParseDataField(e, 1))]
  /\ table' = [table EXCEPT !.skipped =
       @ \/ part.fields[ParseDataField(e, 1).id] # Null]
  /\ UNCHANGED <<filesLeft, at, tableInfoMap, learnInfoMap, status, tables>>

EndAction ==
  /\ at = "action"
  /\ table.actions[part.id] = Null
  /\ at' = "actions"
  /\ table' = [table EXCEPT !.actions = AddField(@, part)]
  /\ part' = Null
  /\ UNCHANGED <<filesLeft, tableInfoMap, learnInfoMap, status, elements, tables>>

RepeatedAction ==
  /\ at = "action"
  /\ table.actions[part.id] # Null
  /\ Store(Null)
  /\ UNCHANGED elements

BeginNotification(id, n) ==
  /\ ReadIn("notifications")
  /\ at' = "registration"
  /\ part' = [id |-> id, name |-> n, registration |-> NoFields, callback |-> NoFields]
  /\ UNCHANGED <<filesLeft, table, tableInfoMap, learnInfoMap, status, tables>>

ParseRegistrationParam(id, n) ==
  /\ at = "registration"
  /\ elements < MaxElements
  /\ elements' = elements + 1
  /\ part' = [part EXCEPT !.registration = AddField(@, [id |-> id, name |-> n])]
  /\ table' = [table EXCEPT !.skipped = @ \/ part.registration[id] # Null]
  /\ UNCHANGED <<filesLeft, at, tableInfoMap, learnInfoMap, status, tables>>

ParseCallbackParam(id, n) ==
  /\ at \in {"registration", "callback"}
  /\ elements < MaxElements
  /\ elements' = elements + 1
  /\ at' = "callback"
  /\ part' = [part EXCEPT !.callback = AddField(@, [id |-> id, name |-> n])]
  /\ table' = [table EXCEPT !.skipped = @ \/ part.callback[id] # Null]
  /\ UNCHANGED <<filesLeft, tableInfoMap, learnInfoMap, status, tables>>

EndNotification ==
  /\ at \in {"registration", "callback"}
  /\ table.notifications[part.id] = Null
  /\ at' = "notifications"
  /\ table' = [table EXCEPT !.notifications = AddField(@, part)]
  /\ part' = Null
  /\ UNCHANGED <<filesLeft, tableInfoMap, learnInfoMap, status, elements, tables>>

RepeatedNotification ==
  /\ at \in {"registration", "callback"}
  /\ table.notifications[part.id] # Null
  /\ Store(Null)
  /\ UNCHANGED elements

-----------------------------------------------------------------------------

BeginLearn(n) ==
  /\ at \in {"tables", "learns"}
  /\ tables < MaxTables
  /\ tables' = tables + 1
  /\ at' = "learn"
  /\ part' = [name |-> n, fields |-> NoFields]
  /\ UNCHANGED <<filesLeft, table, tableInfoMap, learnInfoMap, status, elements>>

\* Mutation: a field of a learn replaces the one with its id.
ParseLearnField_Replaces(e) ==
  /\ at = "learn"
  /\ elements < MaxElements
  /\ elements' = elements + 1
  /\ part' = [part EXCEPT !.fields =
                [@ EXCEPT ![ParseDataField(e, 2).id] = ParseDataField(e, 2)]]
  /\ UNCHANGED <<filesLeft, at, table, tableInfoMap, learnInfoMap, status, tables>>

\* parseLearn passes 1 as the index, so of a oneof it takes the second field.
ParseLearnField(e) ==
  /\ at = "learn"
  /\ elements < MaxElements
  /\ elements' = elements + 1
  /\ part' = [part EXCEPT !.fields = AddField(@, ParseDataField(e, 2))]
  /\ UNCHANGED <<filesLeft, at, table, tableInfoMap, learnInfoMap, status, tables>>

EndLearn ==
  /\ at = "learn"
  /\ at' = "learns"
  /\ learnInfoMap' = Assign(learnInfoMap, part.name, part)
  /\ part' = Null
  /\ UNCHANGED <<filesLeft, table, tableInfoMap, status, elements, tables>>

-----------------------------------------------------------------------------

FileStep == NoFiles \/ OpenFile \/ CannotOpen \/ AllRead

TableStep ==
  \/ \E n \in Name : BeginTable(n)
  \/ \E id \in Id, n \in Name : ParseKeyField(id, n)
  \/ \E id \in Id : RepeatedKeyField(id)
  \/ \E e \in Element : ParseData(e)
  \/ EndTable

ActionStep ==
  \/ \E id \in Id, n \in Name : BeginAction(id, n)
  \/ \E e \in Element : ParseActionData(e)
  \/ EndAction
  \/ RepeatedAction

NotificationStep ==
  \/ \E id \in Id, n \in Name : BeginNotification(id, n)
  \/ \E id \in Id, n \in Name : ParseRegistrationParam(id, n)
  \/ \E id \in Id, n \in Name : ParseCallbackParam(id, n)
  \/ EndNotification
  \/ RepeatedNotification

LearnStep ==
  \/ \E n \in Name : BeginLearn(n)
  \/ \E e \in Element : ParseLearnField(e)
  \/ EndLearn

Next == FileStep \/ TableStep \/ ActionStep \/ NotificationStep \/ LearnStep

Spec == Init /\ [][Next]_vars

-----------------------------------------------------------------------------

\* The places where a table, and where a part of one, is being parsed.
InPart == {"action", "registration", "callback"}
InTable == {"keys", "data", "actions", "notifications"} \union InPart

\* Types; what is parsed where; each element of a map is under its own id
\* (parseTable, parseAction and parseLearn).
TypeOK ==
  /\ filesLeft \in Nat /\ elements \in Nat /\ tables \in Nat
  /\ at \in {"start", "tables", "learns", "learn", "returned"} \union InTable
  /\ status \in {"none", "SUCCESS", "OBJECT_NOT_FOUND"}
  /\ IF at \in InTable THEN table \in Table /\ WellFormed(table) ELSE table = Null
  /\ at = "action" => part \in Action /\ WellKeyed(part.fields)
  /\ at \in {"registration", "callback"} =>
       part \in Notification /\ WellKeyed(part.registration) /\ WellKeyed(part.callback)
  /\ at = "learn" => part \in Learn /\ WellKeyed(part.fields)
  /\ at \notin InPart \union {"learn"} => part = Null
  /\ DOMAIN tableInfoMap \subseteq Name
  /\ \A n \in DOMAIN tableInfoMap : tableInfoMap[n] # Null =>
       tableInfoMap[n] \in Table /\ WellFormed(tableInfoMap[n])
  /\ DOMAIN learnInfoMap \subseteq Name
  /\ \A n \in DOMAIN learnInfoMap :
       learnInfoMap[n] \in Learn /\ WellKeyed(learnInfoMap[n].fields)

\* The tables the parser gives away.
Stored == {tableInfoMap[n] : n \in DOMAIN tableInfoMap} \ {Null}
StoredLearns == {learnInfoMap[n] : n \in DOMAIN learnInfoMap}

\* The common fields and their siblings fall into disjoint groups.
Partitioned(data) ==
  \A i \in IdsIn(data) : \A j \in data[i].siblings :
    /\ j # i
    /\ j \in IdsIn(data)
    /\ data[j].siblings = (data[i].siblings \ {j}) \union {i}

\* The oneofs of a table for which no error was logged are disjoint, and each
\* member's siblings (oneofSiblingsGet) are the other members: what the data
\* objects of a driver, see TableData, rely on to turn siblings off.
OneofsPartition == \A t \in Stored : ~t.skipped => Partitioned(t.data)

\* What a name leads to has that name, and its id leads to it again.  The one
\* exception is a common field whose id the action uses for a field of its own
\* (dataFieldGet, keyFieldGet, actionGet; dataFieldIdGet of a learn).  A
\* notification's parameter has the id it was asked for by.
LookupsAgree ==
  /\ \A t \in Stored, n \in AnyName :
       /\ LET k == KeyFieldByName(t, n)
          IN  k # Null => k.name = n /\ KeyFieldById(t, k.id) = k
       /\ LET a == ActionByName(t, n)
          IN  a # Null => a.name = n /\ ActionById(t, a.id) = a
       /\ \A a \in AnyId :
            LET f == DataFieldByName(t, n, a)
            IN  f # Null =>
                  /\ f.name = n
                  /\ \/ DataFieldById(t, f.id, a) = f
                     \/ /\ ByName(OwnFields(t, a), n) = Null
                        /\ OwnFields(t, a)[f.id] # Null
       /\ \A a, f \in AnyId :
            /\ RegistrationParam(t, f, a) # Null => RegistrationParam(t, f, a).id = f
            /\ CallbackParam(t, f, a) # Null => CallbackParam(t, f, a).id = f
  /\ \A l \in StoredLearns, n \in AnyName :
       LET i == LearnFieldIdGet(l, n)
       IN  i # 0 => LearnFieldById(l, i) # Null /\ LearnFieldById(l, i).name = n

\* The list of ids for an action has exactly the ids the lookup finds, also for
\* an action the table does not have (dataFieldIdListGet against dataFieldGet).
ListsMatchLookups ==
  \A t \in Stored, a \in AnyId :
    BagToSet(DataFieldIdList(t, a)) = {f \in AnyId : DataFieldById(t, f, a) # Null}

\* What a map has, it still has.
Kept(old, new) == \A i \in IdsIn(old) : new[i] = old[i]

\* The first declaration of an id stands: a later element with that id changes
\* nothing that has been parsed.  This is so of the keys, common fields,
\* actions and notifications of a table (parseTable), of the fields of an
\* action (parseAction), of the parameters of a notification
\* (parseNotificationInfo) and of the fields of a learn (parseLearn).
FirstDeclarationStands ==
  [][/\ (table # Null /\ table' # Null) =>
          /\ Kept(table.keys, table'.keys)
          /\ Kept(table.data, table'.data)
          /\ Kept(table.actions, table'.actions)
          /\ Kept(table.notifications, table'.notifications)
     /\ (at \in {"action", "learn"} /\ at' = at) => Kept(part.fields, part'.fields)
     /\ {at, at'} \subseteq {"registration", "callback"} =>
          /\ Kept(part.registration, part'.registration)
          /\ Kept(part.callback, part'.callback)]_vars
=============================================================================
