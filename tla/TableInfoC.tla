----------------------------- MODULE TableInfoC -----------------------------
(***************************************************************************)
(* The functions of tdi_table_info_c.cpp that tell an application what a   *)
(* table has.  A list takes two functions: one for the number of its       *)
(* elements, one that writes them to the application's array.  The others  *)
(* look an element up and copy some attribute of it, and none of them      *)
(* tests whether the element was found.  An element stands for all its     *)
(* attributes here: its type, size, flags, choices and annotations.        *)
(*                                                                         *)
(* Null is the answer of a function that writes past the array or follows  *)
(* a null pointer.                                                         *)
(***************************************************************************)
EXTENDS TableInfo, FiniteSets

\* A nullptr is no array.
ASSUME ArrayAssumption ==
  (\A S \in SUBSET AnyId : S # Null) /\ (\A S \in SUBSET AnyName : S # Null)

\* The number of elements of a list, repeated ones included.
Size(list) == Cardinality(UNION {{e} \X (1..list[e]) : e \in BagToSet(list)})

\* The elements an application sees in an array with room for n, which it
\* has filled with zeros, once those of a list were written to it.
Written(n, list) ==
  IF Size(list) > n THEN Null
  ELSE BagToSet(list) \union (IF Size(list) < n THEN {0} ELSE {})

\* An attribute of what a lookup has found.
NameOf(element) == IF element = Null THEN Null ELSE element.name
IdOf(element) == IF element = Null THEN Null ELSE element.id

-----------------------------------------------------------------------------

NumKeyFieldIds(ti) == Size(SetToBag(IdsIn(ti.keys)))

KeyFieldIds(ti, n) == Written(n, SetToBag(IdsIn(ti.keys)))

\* Match type, data type, size, is_ptr and name of a key field.
KeyFieldAttributes(ti, f) == KeyFieldById(ti, f)

KeyFieldChoices(ti, f) == KeyFieldById(ti, f)

\* The id is written whatever the status, which takes 0 for an error.
KeyFieldId(ti, n) == IdOf(KeyFieldByName(ti, n))

-----------------------------------------------------------------------------

(***************************************************************************)
(* Data fields.  Every function has a variant without an action, which     *)
(* asks for action 0.                                                      *)
(***************************************************************************)

NumDataFieldIds(ti) == Size(DataFieldIdList(ti, 0))

NumDataFieldIdsWithAction(ti, a) == Size(DataFieldIdList(ti, a))

DataFieldIds(ti, n) == Written(n, DataFieldIdList(ti, 0))

DataFieldIdsWithAction(ti, a, n) == Written(n, DataFieldIdList(ti, a))

\* 0 if there is no field of the name.
DataFieldId(ti, n, a) ==
  IF DataFieldByName(ti, n, a) = Null THEN 0 ELSE DataFieldByName(ti, n, a).id

\* Mutation: only the table's own fields are looked at.
DataFieldAttributes_Common(ti, f, a) == DataFieldById(ti, f, 0)

\* Size, is_ptr, mandatory, read_only and name of a data field.
DataFieldAttributes(ti, f, a) == DataFieldById(ti, f, a)

DataFieldType(ti, f, a) == DataFieldById(ti, f, a)

DataFieldAnnotations(ti, f, a) == DataFieldById(ti, f, a)

DataFieldChoices(ti, f, a) == DataFieldById(ti, f, a)

-----------------------------------------------------------------------------

(***************************************************************************)
(* Actions, and what a table supports.                                     *)
(***************************************************************************)

NumActionIds(ti) == Size(SetToBag(IdsIn(ti.actions)))

ActionIds(ti, n) == Written(n, SetToBag(IdsIn(ti.actions)))

ActionName(ti, a) == NameOf(ActionById(ti, a))

ActionAnnotations(ti, a) == ActionById(ti, a)

ActionId(ti, n) == IdOf(ActionByName(ti, n))

\* The attributes and operations a table supports come from its schema, as sets
\* of numbers; the functions a target's driver has for it, from the driver.
NumAttributes(supported) == Size(SetToBag(supported))

Attributes(supported, n) == Written(n, SetToBag(supported))

NumOperations(supported) == Size(SetToBag(supported))

Operations(supported, n) == Written(n, SetToBag(supported))

NumApis(supported) == Size(SetToBag(supported))

Apis(supported, n) == Written(n, SetToBag(supported))

\* Notifications are listed by their names: one for all that share a name.
NotificationNames(ti) == {ti.notifications[i].name : i \in IdsIn(ti.notifications)}

NumNotifications(ti) == Size(SetToBag(NotificationNames(ti)))

Notifications(ti, n) == Written(n, SetToBag(NotificationNames(ti)))
=============================================================================
