----------------------------- MODULE TableWalk ------------------------------
(***************************************************************************)
(* How the Python layer learns what a table has: the constructor of its    *)
(* TdiTable asks the C frontend for lists of ids and then for each id, and *)
(* keeps what it is told in dictionaries by name.  Every later call finds  *)
(* the ids it passes to the driver there.                                  *)
(***************************************************************************)
EXTENDS TableInfoC

CONSTANTS
  Schema,           \* tables of a schema
  Feature,          \* numbers of attributes, operations and functions of a driver
  Known             \* those of them the Python layer of the target has names for

\* What the parser has made of a schema file: SchemaParser!TypeOK.
ASSUME SchemaAssumption ==
  /\ Schema \subseteq Table
  /\ \A ti \in Schema : WellFormed(ti)

ASSUME FeatureAssumption ==
  /\ IsFiniteSet(Feature) /\ Known \subseteq Feature
  /\ \A S \in SUBSET Feature : S # Null

VARIABLES
  ti,               \* the table
  at,               \* where the constructor is
  todo,             \* ids of the array in hand that are not asked for yet
  current,          \* the action whose fields are asked for, or Null
  waiting,          \* actions whose fields are not asked for yet
  keyFields,        \* name -> key field, or Null
  actions,          \* name -> action, or Null
  actionIdNameMap,  \* action id -> name, or Null
  dataFields        \* name -> data field of a table without actions, or Null

vars == <<ti, at, todo, current, waiting, keyFields, actions, actionIdNameMap,
          dataFields>>

-----------------------------------------------------------------------------

\* A TdiTableField: the id it was asked for by, and the answers.
FieldOf(S) == [id : AnyId, info : S]

\* A dictionary by name: Null where it has no entry.
Dict(S) == [AnyName -> S \union {Null}]
NoEntries == [n \in AnyName |-> Null]

MirroredAction == [id : AnyId, fields : Dict(FieldOf(DataField))]

ASSUME EntryAssumption ==
  /\ Null \notin AnyName /\ Null \notin FieldOf(Param)
  /\ Null \notin FieldOf(DataField) /\ Null \notin MirroredAction

Ended == {"done", "invalid", "notReady", "raised", "broken"}

Init ==
  /\ ti \in Schema
  /\ at = "start"
  /\ todo = {}
  /\ current = Null
  /\ waiting = {}
  /\ keyFields = NoEntries
  /\ actions = NoEntries
  /\ actionIdNameMap = [i \in AnyId |-> Null]
  /\ dataFields = NoEntries

Goto(label) ==
  /\ at' = label
  /\ UNCHANGED <<todo, current, waiting>>

mirror == <<keyFields, actions, actionIdNameMap, dataFields>>

\* What follows when a list of n elements was asked for, and its array holds
\* the ids: an empty list is not read.
Take(n, ids, loop, next) ==
  /\ at' = IF n = 0 THEN next ELSE IF ids = Null THEN "broken" ELSE loop
  /\ todo' = IF n = 0 \/ ids = Null THEN {} ELSE ids

\* The array is in the order of the ids.
NextId == Lowest(todo)

\* Go on to the next id, or to what comes after the last.
Advance(loop, next) ==
  /\ todo' = todo \ {NextId}
  /\ at' = IF todo' = {} THEN next ELSE loop

\* A call of the C frontend does not come back.
Break == Goto("broken") /\ UNCHANGED <<ti, mirror>>

-----------------------------------------------------------------------------

\* A table of an invalid type is left unfinished, and ends TdiInfo as well.
InvalidType ==
  /\ at = "start"
  /\ Goto("invalid")
  /\ UNCHANGED <<ti, mirror>>

\* The commands for what the table supports.  An unknown operation has none, an
\* unknown attribute or function raises an exception.
SupportedCommands ==
  \E attributes, operations, apis \in SUBSET Feature :
    LET lists == {Attributes(attributes, NumAttributes(attributes)),
                  Operations(operations, NumOperations(operations)),
                  Notifications(ti, NumNotifications(ti)),
                  Apis(apis, NumApis(apis))}
    IN  /\ at = "start"
        /\ IF Null \in lists THEN Goto("broken")
           ELSE IF ~(attributes \union apis \subseteq Known) THEN Goto("raised")
           ELSE Goto("keys") \/ Goto("notReady")
        /\ UNCHANGED <<ti, mirror>>

ListKeyFields ==
  /\ at = "keys"
  /\ LET n == NumKeyFieldIds(ti) IN Take(n, KeyFieldIds(ti, n), "keyFields", "actions")
  /\ UNCHANGED <<ti, current, waiting, mirror>>

InitKeyField ==
  LET k == KeyFieldAttributes(ti, NextId)
  IN  /\ at = "keyFields"
      /\ IF k = Null \/ KeyFieldChoices(ti, NextId) = Null
           THEN Break
           ELSE /\ keyFields' = [keyFields EXCEPT ![k.name] = [id |-> NextId, info |-> k]]
                /\ Advance("keyFields", "actions")
                /\ UNCHANGED <<ti, current, waiting, actions, actionIdNameMap, dataFields>>

ListActions ==
  /\ at = "actions"
  /\ LET n == NumActionIds(ti) IN Take(n, ActionIds(ti, n), "action", "data")
  /\ UNCHANGED <<ti, current, waiting, mirror>>

\* Mutation: an action whose name is known is not entered again.
InitAction_KeepsFirst ==
  LET n == ActionName(ti, NextId)
  IN  /\ at = "action"
      /\ actions' = IF actions[n] # Null THEN actions
                    ELSE [actions EXCEPT ![n] = [id |-> NextId, fields |-> NoEntries]]
      /\ actionIdNameMap' = [actionIdNameMap EXCEPT ![NextId] = n]
      /\ waiting' = waiting \union {n}
      /\ Advance("action", "data")
      /\ UNCHANGED <<ti, current, keyFields, dataFields>>

\* Actions that share a name share one entry, that of the last of them.
InitAction ==
  LET n == ActionName(ti, NextId)
  IN  /\ at = "action"
      /\ IF n = Null \/ ActionAnnotations(ti, NextId) = Null
           THEN Break
           ELSE /\ actions' = [actions EXCEPT ![n] = [id |-> NextId, fields |-> NoEntries]]
                /\ actionIdNameMap' = [actionIdNameMap EXCEPT ![NextId] = n]
                /\ waiting' = waiting \union {n}
                /\ Advance("action", "data")
                /\ UNCHANGED <<ti, current, keyFields, dataFields>>

-----------------------------------------------------------------------------

\* Mutation: the table's fields are asked for also if it has actions.
ListDataFields_Always ==
  /\ at = "data"
  /\ LET n == NumDataFieldIds(ti) IN Take(n, DataFieldIds(ti, n), "dataFields", "done")
  /\ UNCHANGED <<ti, current, waiting, mirror>>

\* A table without actions has data fields of its own.
ListDataFields ==
  /\ at = "data"
  /\ actions = NoEntries
  /\ LET n == NumDataFieldIds(ti) IN Take(n, DataFieldIds(ti, n), "dataFields", "done")
  /\ UNCHANGED <<ti, current, waiting, mirror>>

\* The fields of a table with actions are asked for action by action.
ListActionFields(n) ==
  /\ at = "data"
  /\ n \in waiting
  /\ current' = n
  /\ waiting' = waiting \ {n}
  /\ LET a == actions[n].id
         m == NumDataFieldIdsWithAction(ti, a)
     IN  Take(m, DataFieldIdsWithAction(ti, a, m), "dataFields", "data")
  /\ UNCHANGED <<ti, mirror>>

AllActionsDone ==
  /\ at = "data"
  /\ actions # NoEntries
  /\ waiting = {}
  /\ Goto("done")
  /\ UNCHANGED <<ti, mirror>>

CurrentAction == IF current = Null THEN 0 ELSE actions[current].id

\* For a container the constructor goes on to a function that the library
\* does not have, and raises an exception.
InitDataField ==
  LET a == CurrentAction
      d == DataFieldAttributes(ti, NextId, a)
      field == [id |-> NextId, info |-> d]
  IN  /\ at = "dataFields"
      /\ IF Null \in {d, DataFieldType(ti, NextId, a), DataFieldChoices(ti, NextId, a),
                      DataFieldAnnotations(ti, NextId, a)}
           THEN Break
           ELSE /\ IF current = Null
                     THEN /\ dataFields' = [dataFields EXCEPT ![d.name] = field]
                          /\ UNCHANGED actions
                     ELSE /\ actions' = [actions EXCEPT ![current].fields[d.name] = field]
                          /\ UNCHANGED dataFields
                /\ \/ Advance("dataFields", IF current = Null THEN "done" ELSE "data")
                   \/ at' = "raised" /\ UNCHANGED todo
                /\ UNCHANGED <<ti, current, waiting, keyFields, actionIdNameMap>>

Next ==
  \/ InvalidType \/ SupportedCommands
  \/ ListKeyFields \/ InitKeyField
  \/ ListActions \/ InitAction
  \/ ListDataFields \/ (\E n \in AnyName : ListActionFields(n)) \/ AllActionsDone
  \/ InitDataField

Spec == Init /\ [][Next]_vars

-----------------------------------------------------------------------------

(***************************************************************************)
(* Properties.                                                             *)
(***************************************************************************)

\* The variables have their types, and there is an array in hand exactly in
\* the loops over one.
TypeOK ==
  /\ ti \in Table
  /\ at \in {"start", "keys", "keyFields", "actions", "action", "data", "dataFields"}
              \union Ended
  /\ todo \subseteq AnyId
  /\ current \in AnyName \union {Null}
  /\ waiting \subseteq {n \in AnyName : actions[n] # Null}
  /\ keyFields \in Dict(FieldOf(Param))
  /\ actions \in Dict(MirroredAction)
  /\ actionIdNameMap \in [AnyId -> AnyName \union {Null}]
  /\ dataFields \in Dict(FieldOf(DataField))
  /\ at \in {"keyFields", "action", "dataFields"} => todo # {}
  /\ at = "dataFields" /\ current = Null => actions = NoEntries

\* Whatever the table has, no call of the constructor writes past an array or
\* asks for what the table does not have: no list announces another number of
\* elements than it writes, and each of its ids is found under the action it
\* was listed for.
WalkIsSafe == at # "broken"

\* The same field, by id, under the name it is known by.
Agree(entry, id) == IF entry = Null THEN id = Null ELSE entry.id = id

\* Fields of an action and common fields have neither a name nor an id in
\* common.
Apart(a) ==
  LET own == OwnFields(ti, a)
  IN  \A i \in IdsIn(own), j \in IdsIn(ti.data) :
        i # j /\ own[i].name # ti.data[j].name

\* When the constructor is done, the dictionaries know the names the C
\* frontend knows, no others, and by the same ids: of several key fields,
\* actions or data fields with one name both keep the same one.  Nothing is
\* said of actions with fields that are not set apart from the common ones, nor
\* of the common fields of a table with actions, which the layer files under
\* its actions alone.
MirrorAgrees ==
  at = "done" =>
    \A n \in AnyName :
      /\ Agree(keyFields[n], KeyFieldId(ti, n))
      /\ IF actions[n] = Null THEN ActionId(ti, n) = Null ELSE actions[n].id = ActionId(ti, n)
      /\ actions = NoEntries =>
           IF dataFields[n] = Null THEN DataFieldId(ti, n, 0) = 0
           ELSE dataFields[n].id = DataFieldId(ti, n, 0)
      /\ actions[n] # Null /\ Apart(actions[n].id) =>
           \A m \in AnyName :
             LET d == actions[n].fields[m]
             IN  IF d = Null THEN DataFieldId(ti, m, actions[n].id) = 0
                 ELSE d.id = DataFieldId(ti, m, actions[n].id)
=============================================================================
