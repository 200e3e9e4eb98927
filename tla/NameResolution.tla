--------------------------- MODULE NameResolution ---------------------------
(***************************************************************************)
(* What a TdiInfo promises to those who look objects up by name: objects   *)
(* are collected, then published, and from then on a name finds an object  *)
(* when it is a name of that object and of no other.                       *)
(***************************************************************************)

CONSTANTS
  Object,           \* what can be registered
  NamesOf(_)        \* the names an object may be asked for by

VARIABLES
  built,            \* the objects collected so far
  published,        \* whether the registry is open for lookups
  resolve           \* name -> object

vars == <<built, published, resolve>>

AllNames(S) == UNION {NamesOf(o) : o \in S}

Unambiguous(S) == {n \in AllNames(S) : \E o \in S : \A p \in S : n \in NamesOf(p) <=> p = o}

Init ==
  /\ built = {}
  /\ published = FALSE
  /\ resolve = [n \in {} |-> n]

Collect(o) ==
  /\ ~published
  /\ built' = built \union {o}
  /\ UNCHANGED <<published, resolve>>

Publish ==
  /\ ~published
  /\ published' = TRUE
  /\ resolve' = [n \in Unambiguous(built) |-> CHOOSE o \in built : n \in NamesOf(o)]
  /\ UNCHANGED built

Next == (\E o \in Object : Collect(o)) \/ Publish

Spec == Init /\ [][Next]_vars
=============================================================================
