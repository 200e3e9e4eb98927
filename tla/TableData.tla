------------------------------ MODULE TableData ------------------------------
(***************************************************************************)
(* The base class of every data object: which fields are active.           *)
(*                                                                         *)
(* The application allocates and resets the object; the target's driver    *)
(* fills it, and turns the other members of a oneof off when one of them   *)
(* is written.  The object may not know all its fields (the action may not *)
(* be known yet), so it keeps two sets and a flag instead of one set: see  *)
(* ActiveFields for what they stand for together.                          *)
(***************************************************************************)
EXTENDS Naturals, FiniteSets

CONSTANTS
  Field,            \* data field ids
  Oneofs,           \* the "oneof" lists of the table's schema
  ActionId,         \* action ids, among them NoId
  ContainerId,      \* container ids, among them NoId
  NoId              \* 0: no action, no container

ASSUME OneofAssumption ==
  /\ Oneofs \subseteq SUBSET Field
  /\ \A g, h \in Oneofs : g # h => g \intersect h = {}

ASSUME IdAssumption == NoId \in ActionId \intersect ContainerId

VARIABLES
  actionId,         \* action_id_
  containerId,      \* container_id_
  allFieldsSet,     \* all_fields_set_
  activeFields,     \* active_fields_s_
  removedOneofs,    \* removed_one_ofs_
  choice,           \* history: the fields named when the active ones were last set
  written           \* history: the fields written since

fieldVars == <<actionId, containerId, allFieldsSet, activeFields, removedOneofs, choice, written>>

-----------------------------------------------------------------------------

\* The parser gives each member of a oneof all the others as its siblings.
Siblings(f) == UNION {g \ {f} : g \in {h \in Oneofs : f \in h}}

\* What isActive answers.
IsActive(f) ==
  /\ f \notin removedOneofs
  /\ allFieldsSet \/ f \in activeFields

\* What activeFieldsGet answers.
ActiveFieldsGet == activeFields

-----------------------------------------------------------------------------

\* The constructors end in the one that takes all three arguments.
FieldsInit ==
  /\ actionId \in ActionId
  /\ containerId \in ContainerId
  /\ activeFields \in SUBSET Field
  /\ allFieldsSet = (activeFields = {})
  /\ removedOneofs = {}
  /\ choice = activeFields
  /\ written = {}

\* Mutation: fields removed before stay removed.
ActiveFieldsSet_KeepsRemoved(fields) ==
  /\ activeFields' = fields
  /\ allFieldsSet' = (fields = {})
  /\ choice' = fields
  /\ written' = {}
  /\ UNCHANGED removedOneofs

\* Mutation: the flag is raised but never lowered.
ActiveFieldsSet_KeepsFlag(fields) ==
  /\ removedOneofs' = {}
  /\ activeFields' = fields
  /\ allFieldsSet' = (allFieldsSet \/ fields = {})
  /\ choice' = fields
  /\ written' = {}

\* activeFieldsSet: what was removed is forgotten, and an empty list stands
\* for all fields.
ActiveFieldsSet(fields) ==
  /\ removedOneofs' = {}
  /\ activeFields' = fields
  /\ allFieldsSet' = (fields = {})
  /\ choice' = fields
  /\ written' = {}

\* The application resets the object.  The shorter forms of reset pass NoId
\* and no fields.
Reset(action, container, fields) ==
  /\ actionId' = action
  /\ containerId' = container
  /\ ActiveFieldsSet(fields)

\* The driver, about to fill the object with an entry, says what it holds.
StartFill(action, fields) ==
  /\ actionId' = action
  /\ ActiveFieldsSet(fields)
  /\ UNCHANGED containerId

\* Mutation: a field is only taken out of the set of chosen fields.
TakeOut_NoMark(fields) ==
  /\ UNCHANGED removedOneofs
  /\ IF activeFields = {}
     THEN UNCHANGED <<activeFields, allFieldsSet>>
     ELSE /\ activeFields' = activeFields \ fields
          /\ allFieldsSet' = FALSE

\* removeActiveField, for each of the fields.  The flag is lowered only when
\* some field was chosen by name.
TakeOut(fields) ==
  /\ removedOneofs' = removedOneofs \union fields
  /\ IF activeFields = {} \/ fields = {}
     THEN UNCHANGED <<activeFields, allFieldsSet>>
     ELSE /\ activeFields' = activeFields \ fields
          /\ allFieldsSet' = FALSE

RemoveActiveField(f) ==
  /\ TakeOut({f})
  /\ UNCHANGED <<actionId, containerId, choice, written>>

\* The driver's setValue: it takes a value for an active field and turns the
\* other members of its oneof off.
SetValue(f) ==
  /\ IsActive(f)
  /\ written' = written \union {f}
  /\ TakeOut(Siblings(f))
  /\ UNCHANGED <<actionId, containerId, choice>>

FieldsNext ==
  \/ \E a \in ActionId, c \in ContainerId, fields \in SUBSET Field : Reset(a, c, fields)
  \/ \E a \in ActionId, fields \in SUBSET Field : StartFill(a, fields)
  \/ \E f \in Field : RemoveActiveField(f)
  \/ \E f \in Field : SetValue(f)

FieldsSpec == FieldsInit /\ [][FieldsNext]_fieldVars

-----------------------------------------------------------------------------

(***************************************************************************)
(* Properties.                                                             *)
(***************************************************************************)

\* Each member of the object has its type, and the flag never stands beside
\* fields chosen by name: isActive would then ignore the choice.
FieldsTypeOK ==
  /\ actionId \in ActionId
  /\ containerId \in ContainerId
  /\ allFieldsSet \in BOOLEAN
  /\ activeFields \in SUBSET Field
  /\ removedOneofs \in SUBSET Field
  /\ choice \in SUBSET Field
  /\ written \in SUBSET Field
  /\ allFieldsSet => activeFields = {}

\* Whatever the order of resets, removals and writes, an operation never
\* carries values of two members of one oneof: when a member has been
\* written the others are off, and stay off until the fields are chosen anew.
OneofExclusive ==
  \A g \in Oneofs : \A f, h \in g :
    (f \in written /\ h # f) => h \notin written /\ ~IsActive(h)

-----------------------------------------------------------------------------

(***************************************************************************)
(* The two sets and the flag stand for one set of active fields.           *)
(***************************************************************************)
Abstract == INSTANCE ActiveFields WITH active <- {f \in Field : IsActive(f)}

\* isActive answers for the fields chosen last, less those removed since:
\* no sequence of resets, removals and writes makes the two sets and the
\* flag disagree, nor turns a removed field on again.  (What activeFieldsGet
\* answers does not tell as much: see EmptyMeansAll.)
ImplementsActiveFields == Abstract!Spec

\* activeFieldsGet: "If empty then all fields are deemed to be active".  Not
\* so when the last field that was chosen by name has been removed: the set
\* is empty, and isActive answers no for every field.  Even if the removed
\* fields are excepted, the property is violated.
EmptyMeansAll ==
  ActiveFieldsGet = {} => \A f \in Field \ removedOneofs : IsActive(f)
=============================================================================
