------------------------------- MODULE TableC -------------------------------
(***************************************************************************)
(* The functions of tdi_table_c.cpp for the entries of a table, and for    *)
(* the objects they are given and fill: keys, data, flags, targets and     *)
(* operations.  The application knows an object by a handle, its address.  *)
(*                                                                         *)
(* What an operation does is up to the target's driver, which overrides    *)
(* the virtual functions of the class Table it supports; the others answer *)
(* TDI_NOT_SUPPORTED.  The driver of this module keeps a table of entries  *)
(* in some order.  The data of an entry are left out, and so are the       *)
(* flags: the driver does not look at them.                                *)
(***************************************************************************)
EXTENDS Naturals, Sequences, FiniteSets

CONSTANTS
  Key,              \* keys of entries, in the order of the driver's lists
  Handle,           \* where an object may be
  Null

ASSUME EntryAssumption ==
  /\ Key \subseteq Nat /\ Handle \subseteq Nat
  /\ IsFiniteSet(Key) /\ IsFiniteSet(Handle)
  /\ Null \notin Key /\ Null \notin Handle

VARIABLES
  entries,          \* keys of the entries the table has
  obj,              \* handle -> the object behind it, or Null
  sts               \* what the last operation answered

Kind == {"key", "data", "flags", "target", "operations"}

\* A key that has been filled names an entry.
Object == [kind : Kind, entry : Key \union {Null}]

ASSUME ObjectAssumption == Null \notin Object

Status == {"success", "notFound", "alreadyExists", "notSupported", "failed"}

Live == {h \in Handle : obj[h] # Null}

-----------------------------------------------------------------------------

(***************************************************************************)
(* Objects.                                                                *)
(***************************************************************************)

\* What obj becomes when handles are given back.
Freed(hs) == [h \in Handle |-> IF h \in hs THEN Null ELSE obj[h]]

\* The functions that make an object: for a table they ask its driver, and
\* release what it has made to the application.
Made(h, kind, entry) == [obj EXCEPT ![h] = [kind |-> kind, entry |-> entry]]

KeyAllocate(h) == Made(h, "key", Null)
DataAllocate(h) == Made(h, "data", Null)
OperationsAllocate(h) == Made(h, "operations", Null)
FlagsCreate(h) == Made(h, "flags", Null)
TargetCreate(h) == Made(h, "target", Null)

\* The setters, for every field of a new key.
KeySetValue(h, k) == Made(h, "key", k)

\* The getters, for every field of a key.
KeyGetValue(h) == obj[h].entry

\* The setters of data, whose fields are left out.
DataSetValue(h) == Made(h, "data", Null)

\* An operation fills the key behind a handle.
Filled(h, k) == obj' = [obj EXCEPT ![h].entry = k]

-----------------------------------------------------------------------------

(***************************************************************************)
(* Entries.  Each function hands its arguments on to the driver, and       *)
(* returns what that answers.                                              *)
(***************************************************************************)

\* The driver does not support the operation, or cannot do it now.
Refuses ==
  /\ sts' \in {"notSupported", "failed"}
  /\ UNCHANGED <<entries, obj>>

NotFound(found) ==
  /\ ~found
  /\ sts' = "notFound"
  /\ UNCHANGED <<entries, obj>>

Succeeds(changed) ==
  /\ sts' = "success"
  /\ entries' = changed

EntryAdd(key) ==
  LET k == obj[key].entry
  IN  \/ Refuses
      \/ k \in entries /\ sts' = "alreadyExists" /\ UNCHANGED <<entries, obj>>
      \/ k \notin entries /\ Succeeds(entries \union {k}) /\ UNCHANGED obj

EntryMod(key) ==
  LET k == obj[key].entry
  IN  \/ Refuses \/ NotFound(k \in entries)
      \/ k \in entries /\ Succeeds(entries) /\ UNCHANGED obj

EntryDel(key) ==
  LET k == obj[key].entry
  IN  \/ Refuses \/ NotFound(k \in entries)
      \/ k \in entries /\ Succeeds(entries \ {k}) /\ UNCHANGED obj

Clear == Refuses \/ (Succeeds({}) /\ UNCHANGED obj)

EntryGet(key) == EntryMod(key)

\* An entry's handle stands for the entry, as long as there is one.
EntryGetByHandle(k, key) ==
  \/ Refuses \/ NotFound(k \in entries)
  \/ k \in entries /\ Succeeds(entries) /\ Filled(key, k)

EntryKeyGet(k, key) == EntryGetByHandle(k, key)

EntryHandleGet(key) == EntryMod(key)

Lowest(S) == CHOOSE k \in S : \A l \in S : k <= l

EntryGetFirst(key) ==
  \/ Refuses \/ NotFound(entries # {})
  \/ entries # {} /\ Succeeds(entries) /\ Filled(key, Lowest(entries))

\* The entries that follow k.
After(k) == {l \in entries : k < l}

\* The first n elements of S, or all if there are fewer.
FirstOf(S, n) == {k \in S : Cardinality({l \in S : l < k}) < n}

\* The elements of S have their places in the array of keys.
Place(S, k) == Cardinality({l \in S : l < k}) + 1

\* Up to Len(keys) entries after that of the key prev.  A driver answers
\* "not found" when fewer follow, or when the entry itself is gone; it may
\* also go on from where the entry was.
EntryGetNextN(prev, keys) ==
  LET k == obj[prev].entry
      found == FirstOf(After(k), Len(keys))
      few == Cardinality(found) < Len(keys)
  IN  \/ Refuses \/ NotFound(k \in entries)
      \/ /\ sts' = "success" \/ (few /\ sts' = "notFound")
         /\ obj' = [h \in Handle |->
              IF \E l \in found : keys[Place(found, l)] = h
                THEN [obj[h] EXCEPT !.entry =
                       CHOOSE l \in found : keys[Place(found, l)] = h]
                ELSE obj[h]]
         /\ UNCHANGED entries

\* num_returned, which the application has set to 0.
NumReturned(keys) == Cardinality({i \in 1..Len(keys) : obj'[keys[i]].entry # Null})

\* The usage and the size of the table, and its default entry, which are
\* left out.
TableWide == Refuses \/ (Succeeds(entries) /\ UNCHANGED obj)
=============================================================================
