----------------------------- MODULE DataHandles -----------------------------
(***************************************************************************)
(* Who frees a data object of the C frontend.                              *)
(*                                                                         *)
(* tdi_table_data_allocate gives the application a raw pointer it must     *)
(* give back to tdi_table_data_deallocate.  A container field holds other  *)
(* data objects: tdi_data_field_set_value_data_field_array wraps each      *)
(* pointer it is given in a unique_ptr and moves them all into the parent, *)
(* which owns them from then on, and frees them when it goes itself.  The  *)
(* application knows the objects by their addresses, which the allocator   *)
(* uses again.                                                             *)
(***************************************************************************)
EXTENDS Naturals, FiniteSets

CONSTANT Obj        \* where the allocator may put a data object

VARIABLES
  live,             \* objects that exist
  mine,             \* handles the application has to deallocate
  children,         \* object -> the objects in its container fields
  refused           \* handles of the setValue that failed in the last step

handleVars == <<live, mine, children, refused>>

-----------------------------------------------------------------------------

\* A set of objects that contains the container objects of its members.
Closed(S) == \A o \in S : children[o] \subseteq S

\* Destroying objects destroys everything in their containers.
Below(S) == {o \in Obj : \A T \in SUBSET Obj : (S \subseteq T /\ Closed(T)) => o \in T}

\* Mutation: the destructor leaves what is in the containers.
Destroyed_Shallow(S) == S

\* What the destruction of the objects S takes away.
Destroyed(S) == Below(S)

\* A place whose object is gone holds nothing.
Emptied(S) == [x \in Obj |-> IF x \in S THEN {} ELSE children[x]]

HandlesInit ==
  /\ live = {}
  /\ mine = {}
  /\ children = [o \in Obj |-> {}]
  /\ refused = {}

\* The allocate functions release the object they made to the application;
\* those that fail hand out a null pointer.
Allocate(o) ==
  /\ o \notin live
  /\ live' = live \union {o}
  /\ mine' = mine \union {o}
  /\ refused' = {}
  /\ UNCHANGED children

\* Mutation: the destructor leaves the contents, and the next object at the
\* address comes with them.
Deallocate_LeavesContents(o) ==
  /\ o \in mine
  /\ live' = live \ Destroyed({o})
  /\ mine' = mine \ {o}
  /\ refused' = {}
  /\ UNCHANGED children

\* tdi_table_data_deallocate.
Deallocate(o) ==
  /\ o \in mine
  /\ live' = live \ Destroyed({o})
  /\ mine' = mine \ {o}
  /\ children' = Emptied(Destroyed({o}))
  /\ refused' = {}

\* The reset functions: the derived object lets go of its containers.
ResetObject(o) ==
  LET gone == Destroyed(children[o])
  IN  /\ o \in mine
      /\ live' = live \ gone
      /\ children' = [Emptied(gone) EXCEPT ![o] = {}]
      /\ refused' = {}
      /\ UNCHANGED mine

\* Mutation: the pointers are not taken out of the application's hands.
SetContainer_Borrows(p, os, old) ==
  LET gone == Destroyed(old)
  IN  /\ p \in mine
      /\ os \subseteq mine \ {p}
      /\ old \subseteq children[p]
      /\ live' = live \ gone
      /\ children' = [Emptied(gone) EXCEPT ![p] = (@ \ old) \union os]
      /\ refused' = {}
      /\ UNCHANGED mine

\* setValue succeeds: the objects os replace those the field held before,
\* and the parent p owns them.
SetContainer(p, os, old) ==
  LET gone == Destroyed(old)
  IN  /\ p \in mine
      /\ os \subseteq mine \ {p}
      /\ old \subseteq children[p]
      /\ live' = live \ gone
      /\ mine' = mine \ os
      /\ children' = [Emptied(gone) EXCEPT ![p] = (@ \ old) \union os]
      /\ refused' = {}

\* setValue fails: the unique_ptrs have been made and moved into the
\* argument, and take the objects with them when the call returns.
SetContainerFails(p, os) ==
  LET gone == Destroyed(os)
  IN  /\ p \in mine
      /\ os \subseteq mine \ {p}
      /\ live' = live \ gone
      /\ mine' = mine \ os
      /\ children' = Emptied(gone)
      /\ refused' = os

HandlesNext ==
  \/ \E o \in Obj : Allocate(o)
  \/ \E o \in Obj : Deallocate(o)
  \/ \E o \in Obj : ResetObject(o)
  \/ \E p \in Obj : \E os \in SUBSET Obj : \E old \in SUBSET Obj : SetContainer(p, os, old)
  \/ \E p \in Obj : \E os \in SUBSET Obj : SetContainerFails(p, os)

HandlesSpec == HandlesInit /\ [][HandlesNext]_handleVars

-----------------------------------------------------------------------------

(***************************************************************************)
(* Properties.                                                             *)
(***************************************************************************)

\* The variables have their types, and only live objects hold others.
HandlesTypeOK ==
  /\ live \subseteq Obj
  /\ mine \subseteq Obj
  /\ children \in [Obj -> SUBSET Obj]
  /\ refused \subseteq Obj
  /\ \A o \in Obj \ live : children[o] = {}

\* Every object that exists has exactly one owner, the application or one
\* other object that exists: no sequence of calls frees an object twice, or
\* frees one that a container still holds.
OneOwner ==
  /\ mine \subseteq live
  /\ \A p \in Obj : children[p] \subseteq live \ mine
  /\ \A p, q \in Obj : p # q => children[p] \intersect children[q] = {}

\* Whatever exists goes when the application deallocates the handles it has
\* to: nothing leaks, not even after a failed setValue, and containers never
\* hold each other.
NothingLeaks == live = Below(mine)

\* tdi_table.h: "if setValue fails for some reason and user needs to
\* deallocate, then a tdi_table_data_deallocate() can be called".
RefusedCanBeDeallocated == refused \subseteq live
=============================================================================
