-------------------------- MODULE DataObjects_proofs --------------------------
(***************************************************************************)
(* Proofs about data objects.  First TableData: which fields of an object  *)
(* are active, for any fields, oneofs, actions and containers.  Then       *)
(* DataHandles: who frees the objects, for any number of addresses.  Last  *)
(* FieldValues: which values a field takes, for any width.                 *)
(***************************************************************************)
EXTENDS TableData, DataHandles, FieldValues, WellFoundedInduction, TLAPS

\* What makes OneofExclusive inductive: the siblings of a written field have
\* been marked as removed, which isActive looks at first.  The flag and the
\* set of chosen fields would not do: both may be overwritten by later
\* removals.
WrittenMarks == \A f \in written : Siblings(f) \subseteq removedOneofs

IInv == FieldsTypeOK /\ WrittenMarks /\ \A f \in written : \A h \in Siblings(f) : h \notin written

-----------------------------------------------------------------------------

\* A field's siblings are other fields, and being siblings is mutual.
LEMMA SiblingsMutual ==
  ASSUME NEW f \in Field
  PROVE  /\ Siblings(f) \subseteq Field \ {f}
         /\ \A h \in Field : h \in Siblings(f) => f \in Siblings(h)
BY OneofAssumption DEF Siblings

\* Two members of one oneof are siblings.
LEMMA MembersAreSiblings ==
  ASSUME NEW g \in Oneofs, NEW f \in g, NEW h \in g, f # h
  PROVE  h \in Siblings(f)
BY DEF Siblings

\* Choosing the active fields anew establishes the invariant from nothing
\* but the types of what it leaves alone.
LEMMA ActiveFieldsSetIInv ==
  ASSUME NEW fields \in SUBSET Field, ActiveFieldsSet(fields),
         actionId' \in ActionId, containerId' \in ContainerId
  PROVE  IInv'
BY DEF ActiveFieldsSet, IInv, FieldsTypeOK, WrittenMarks, Siblings

\* Taking fields out preserves the types.
LEMMA TakeOutTypeOK ==
  ASSUME FieldsTypeOK, NEW fields \in SUBSET Field, TakeOut(fields),
         actionId' \in ActionId, containerId' \in ContainerId,
         choice' \in SUBSET Field, written' \in SUBSET Field
  PROVE  FieldsTypeOK'
<1>1. CASE activeFields = {} \/ fields = {}
  BY <1>1 DEF FieldsTypeOK, TakeOut
<1>2. CASE ~(activeFields = {} \/ fields = {})
  BY <1>2 DEF FieldsTypeOK, TakeOut
<1>3. QED
  BY <1>1, <1>2

\* Each kind of step preserves the inductive invariant.
LEMMA StepIInv ==
  ASSUME IInv, [FieldsNext]_fieldVars
  PROVE  IInv'
<1>1. ASSUME NEW a \in ActionId, NEW c \in ContainerId, NEW fields \in SUBSET Field,
             Reset(a, c, fields)
      PROVE  IInv'
  <2>1. ActiveFieldsSet(fields) /\ actionId' \in ActionId /\ containerId' \in ContainerId
    BY <1>1 DEF Reset
  <2>2. QED
    BY <2>1, ActiveFieldsSetIInv
<1>2. ASSUME NEW a \in ActionId, NEW fields \in SUBSET Field, StartFill(a, fields)
      PROVE  IInv'
  <2>1. ActiveFieldsSet(fields) /\ actionId' \in ActionId /\ containerId' \in ContainerId
    BY <1>2 DEF StartFill, IInv, FieldsTypeOK
  <2>2. QED
    BY <2>1, ActiveFieldsSetIInv
<1>3. ASSUME NEW f \in Field, RemoveActiveField(f)
      PROVE  IInv'
  <2>1. FieldsTypeOK'
    BY <1>3, TakeOutTypeOK DEF RemoveActiveField, IInv, FieldsTypeOK
  <2>2. written' = written /\ removedOneofs \subseteq removedOneofs'
    BY <1>3 DEF RemoveActiveField, TakeOut
  <2>3. QED
    BY <2>1, <2>2 DEF IInv, WrittenMarks, Siblings
<1>4. ASSUME NEW f \in Field, SetValue(f)
      PROVE  IInv'
  <2>1. Siblings(f) \subseteq Field
    BY SiblingsMutual
  <2>2. FieldsTypeOK'
    BY <1>4, <2>1, TakeOutTypeOK DEF SetValue, IInv, FieldsTypeOK
  <2>3. /\ written' = written \union {f}
        /\ removedOneofs' = removedOneofs \union Siblings(f)
        /\ f \notin removedOneofs
    BY <1>4 DEF SetValue, TakeOut, IsActive
  <2>4. \A e : Siblings(e)' = Siblings(e)
    BY DEF Siblings
  <2>5. WrittenMarks'
    BY <2>3, <2>4 DEF IInv, WrittenMarks
  <2>6. ASSUME NEW e \in written', NEW h \in Siblings(e)
        PROVE  h \notin written'
    <3>1. e \in Field /\ h \in Field /\ h # e /\ e \in Siblings(h)
      BY <2>6, <2>2, SiblingsMutual DEF FieldsTypeOK
    <3>2. CASE e \in written /\ h \in written
      BY <3>2, <2>6 DEF IInv
    <3>3. CASE e \in written /\ h = f
      BY <3>3, <2>6, <2>3 DEF IInv, WrittenMarks
    <3>4. CASE e = f /\ h \in written
      BY <3>4, <3>1, <2>3 DEF IInv, WrittenMarks
    <3>5. QED
      BY <3>1, <3>2, <3>3, <3>4, <2>3
  <2>7. QED
    BY <2>2, <2>4, <2>5, <2>6 DEF IInv
<1>5. CASE UNCHANGED fieldVars
  BY <1>5 DEF fieldVars, IInv, FieldsTypeOK, WrittenMarks, Siblings
<1>6. QED
  BY <1>1, <1>2, <1>3, <1>4, <1>5 DEF FieldsNext

\* The inductive invariant holds of every behaviour.
THEOREM Inductive == FieldsSpec => []IInv
<1>1. FieldsInit => IInv
  BY DEF FieldsInit, IInv, FieldsTypeOK, WrittenMarks
<1>2. QED
  BY <1>1, StepIInv, PTL DEF FieldsSpec

-----------------------------------------------------------------------------

\* Every member has its type, and the flag and the chosen fields agree.
THEOREM TypeCorrect == FieldsSpec => []FieldsTypeOK
<1>1. IInv => FieldsTypeOK
  BY DEF IInv
<1>2. QED
  BY <1>1, Inductive, PTL

\* No operation ever carries values of two members of one oneof.
THEOREM ExclusiveOneofs == FieldsSpec => []OneofExclusive
<1>1. ASSUME IInv
      PROVE  OneofExclusive
  <2>1. SUFFICES ASSUME NEW g \in Oneofs, NEW f \in g, NEW h \in g, f \in written, h # f
                 PROVE  h \notin written /\ ~IsActive(h)
    BY DEF OneofExclusive
  <2>2. h \in Siblings(f)
    BY <2>1, MembersAreSiblings
  <2>3. QED
    BY <1>1, <2>1, <2>2 DEF IInv, WrittenMarks, IsActive
<1>2. QED
  BY <1>1, Inductive, PTL

-----------------------------------------------------------------------------

\* The fields isActive answers for.
Active == {f \in Field : IsActive(f)}

\* Choosing fields makes exactly those active.
LEMMA ActiveFieldsSetChooses ==
  ASSUME NEW fields \in SUBSET Field, ActiveFieldsSet(fields)
  PROVE  Active' = Abstract!Chosen(fields)
<1>1. CASE fields = {}
  BY <1>1 DEF ActiveFieldsSet, Active, IsActive, Abstract!Chosen
<1>2. CASE fields # {}
  BY <1>2 DEF ActiveFieldsSet, Active, IsActive, Abstract!Chosen
<1>3. QED
  BY <1>1, <1>2

\* Taking fields out leaves the others as they were.
LEMMA TakeOutRemoves ==
  ASSUME FieldsTypeOK, NEW fields \in SUBSET Field, TakeOut(fields)
  PROVE  Active' = Active \ fields
<1>1. CASE activeFields = {} \/ fields = {}
  BY <1>1 DEF TakeOut, Active, IsActive
<1>2. CASE ~(activeFields = {} \/ fields = {})
  <2>1. allFieldsSet = FALSE
    BY <1>2 DEF FieldsTypeOK
  <2>2. QED
    BY <1>2, <2>1 DEF TakeOut, Active, IsActive
<1>3. QED
  BY <1>1, <1>2

\* isActive implements the single set of active fields.
THEOREM Refinement == FieldsSpec => ImplementsActiveFields
<1>1. FieldsInit => Abstract!Init
  <2>1. SUFFICES ASSUME FieldsInit PROVE Abstract!Init
    OBVIOUS
  <2>2. Active = Abstract!Chosen(activeFields)
    BY <2>1 DEF FieldsInit, Active, IsActive, Abstract!Chosen
  <2>3. QED
    BY <2>1, <2>2 DEF Abstract!Init, FieldsInit, Active
<1>2. FieldsTypeOK /\ [FieldsNext]_fieldVars => [Abstract!Next]_(Abstract!vars)
  <2>1. SUFFICES ASSUME FieldsTypeOK, [FieldsNext]_fieldVars
                 PROVE  [Abstract!Next]_(Abstract!vars)
    OBVIOUS
  <2>2. ASSUME NEW fields \in SUBSET Field, ActiveFieldsSet(fields)
        PROVE  Abstract!Next
    BY <2>2, ActiveFieldsSetChooses DEF Abstract!Next, Abstract!Choose, Active, ActiveFieldsSet
  <2>3. ASSUME NEW fields \in SUBSET Field, TakeOut(fields), UNCHANGED choice
        PROVE  Abstract!Next
    BY <2>1, <2>3, TakeOutRemoves DEF Abstract!Next, Abstract!Remove, Active
  <2>4. CASE \E a \in ActionId, c \in ContainerId, fields \in SUBSET Field : Reset(a, c, fields)
    BY <2>2, <2>4 DEF Reset
  <2>5. CASE \E a \in ActionId, fields \in SUBSET Field : StartFill(a, fields)
    BY <2>2, <2>5 DEF StartFill
  <2>6. CASE \E f \in Field : RemoveActiveField(f)
    BY <2>3, <2>6 DEF RemoveActiveField
  <2>7. CASE \E f \in Field : SetValue(f)
    BY <2>3, <2>7, SiblingsMutual DEF SetValue
  <2>8. CASE UNCHANGED fieldVars
    BY <2>8 DEF fieldVars, Abstract!vars, IsActive
  <2>9. QED
    BY <2>1, <2>4, <2>5, <2>6, <2>7, <2>8 DEF FieldsNext
<1>3. QED
  BY <1>1, <1>2, TypeCorrect, PTL DEF FieldsSpec, ImplementsActiveFields, Abstract!Spec

-----------------------------------------------------------------------------

(***************************************************************************)
(* DataHandles.  The three invariants are inductive together: that objects *)
(* have one owner needs that destruction stops where the application's     *)
(* handles are, and that nothing leaks needs that what survives keeps its  *)
(* owner.                                                                  *)
(***************************************************************************)
HandlesInv == HandlesTypeOK /\ OneOwner /\ NothingLeaks

-----------------------------------------------------------------------------

\* Below(S) is the least closed set around S.
LEMMA BelowLeast ==
  ASSUME NEW S \in SUBSET Obj, children \in [Obj -> SUBSET Obj]
  PROVE  /\ S \subseteq Below(S)
         /\ Below(S) \subseteq Obj
         /\ Closed(Below(S))
         /\ \A T \in SUBSET Obj : S \subseteq T /\ Closed(T) => Below(S) \subseteq T
<1>1. /\ S \subseteq Below(S)
      /\ Below(S) \subseteq Obj
      /\ \A T \in SUBSET Obj : S \subseteq T /\ Closed(T) => Below(S) \subseteq T
  BY DEF Below
<1>2. ASSUME NEW o \in Below(S), NEW c \in children[o]
      PROVE  c \in Below(S)
  <2>1. o \in Obj /\ c \in Obj
    BY <1>1, <1>2
  <2>2. ASSUME NEW T \in SUBSET Obj, S \subseteq T, Closed(T)
        PROVE  c \in T
    <3>1. o \in T
      BY <1>1, <2>2
    <3>2. QED
      BY <3>1, <2>2, <1>2 DEF Closed
  <2>3. QED
    BY <2>1, <2>2 DEF Below
<1>3. QED
  BY <1>1, <1>2 DEF Closed

\* After a step the handles the application has lead to themselves and to
\* what they contain.
LEMMA MineBelowNext ==
  ASSUME HandlesTypeOK'
  PROVE  /\ mine' \subseteq Below(mine)'
         /\ \A p \in mine' : children'[p] \subseteq Below(mine)'
BY DEF HandlesTypeOK, Below, Closed

\* What has no owner in a set that is destroyed survives it, and so does
\* what it owns.
LEMMA RootsSurvive ==
  ASSUME HandlesTypeOK, OneOwner, NEW S \in SUBSET Obj, NEW r \in mine, r \notin S
  PROVE  r \notin Below(S)
<1> DEFINE T == Below(S) \ {r}
<1>1. children \in [Obj -> SUBSET Obj] /\ r \in Obj
  BY DEF HandlesTypeOK
<1>2. T \in SUBSET Obj /\ S \subseteq T
  BY <1>1, BelowLeast
<1>3. Closed(T)
  BY <1>1, BelowLeast DEF OneOwner, Closed
<1>4. Below(S) \subseteq T
  BY <1>1, <1>2, <1>3, BelowLeast
<1>5. QED
  BY <1>4

LEMMA ContentsSurvive ==
  ASSUME HandlesTypeOK, OneOwner, NEW S \in SUBSET Obj,
         NEW x \in Obj \ Below(S), NEW y \in children[x], y \notin S
  PROVE  y \notin Below(S)
<1> DEFINE T == Below(S) \ {y}
<1>1. children \in [Obj -> SUBSET Obj] /\ y \in Obj
  BY DEF HandlesTypeOK
<1>2. T \in SUBSET Obj /\ S \subseteq T
  BY <1>1, BelowLeast
<1>3. Closed(T)
  BY <1>1, BelowLeast DEF OneOwner, Closed
<1>4. Below(S) \subseteq T
  BY <1>1, <1>2, <1>3, BelowLeast
<1>5. QED
  BY <1>4

\* Only what exists is destroyed.
LEMMA OnlyLiveDestroyed ==
  ASSUME HandlesTypeOK, OneOwner, NEW S \in SUBSET live
  PROVE  Below(S) \subseteq live
<1>1. live \in SUBSET Obj /\ Closed(live) /\ children \in [Obj -> SUBSET Obj]
  BY DEF HandlesTypeOK, OneOwner, Closed
<1>2. QED
  BY <1>1, BelowLeast

\* When the objects below S are destroyed, whatever else still holds is
\* theirs and nothing that survives is lost sight of, nothing leaks.
LEMMA NothingLeaksNext ==
  ASSUME HandlesInv, NEW S \in SUBSET live,
         HandlesTypeOK', OneOwner', live' = live \ Below(S),
         mine \subseteq Below(mine)' \union Below(S),
         \A x \in Obj \ Below(S) :
           children[x] \subseteq children'[x] \union Below(S)
  PROVE  NothingLeaks'
<1>1. children \in [Obj -> SUBSET Obj] /\ live \subseteq Obj /\ mine \subseteq Obj
  BY DEF HandlesInv, HandlesTypeOK
<1>2. Below(S) \subseteq Obj /\ Closed(Below(S))
  BY <1>1, BelowLeast
<1>3. ASSUME NEW T \in SUBSET Obj, mine' \subseteq T, \A x \in T : children'[x] \subseteq T
      PROVE  live' \subseteq T
  <2> DEFINE U == T \union Below(S)
  <2>1. U \in SUBSET Obj
    BY <1>2
  <2>2. Closed(U)
    BY <1>2, <1>3, <2>1 DEF Closed
  <2>3. Below(mine)' \subseteq T
    <3>1. mine' \in SUBSET Obj
      BY DEF HandlesTypeOK
    <3>2. Below(mine)' \subseteq Obj
      BY DEF Below
    <3>3. QED
      BY <1>3, <3>2 DEF Below, Closed
  <2>4. mine \subseteq U
    BY <2>3
  <2>5. Below(mine) \subseteq U
    BY <1>1, <2>1, <2>2, <2>4, BelowLeast
  <2>6. QED
    BY <2>5 DEF HandlesInv, NothingLeaks
<1>4. live' \subseteq Below(mine)'
  BY <1>1, <1>3 DEF Below, Closed
<1>5. /\ mine' \subseteq live'
      /\ live' \in SUBSET Obj
      /\ \A x \in live' : children'[x] \subseteq live'
  BY <1>1 DEF OneOwner, HandlesTypeOK
<1>6. Below(mine)' \subseteq live'
  BY <1>5 DEF Below, Closed
<1>7. QED
  BY <1>4, <1>6 DEF NothingLeaks

-----------------------------------------------------------------------------

LEMMA InitHandlesInv == HandlesInit => HandlesInv
<1>1. SUFFICES ASSUME HandlesInit PROVE HandlesInv
  OBVIOUS
<1>2. HandlesTypeOK /\ OneOwner
  BY <1>1 DEF HandlesInit, HandlesTypeOK, OneOwner
<1>3. Closed({})
  BY DEF Closed
<1>4. Below(mine) \subseteq {}
  BY <1>1, <1>3, <1>2, BelowLeast DEF HandlesInit, HandlesTypeOK
<1>5. QED
  BY <1>1, <1>2, <1>4 DEF HandlesInv, NothingLeaks, HandlesInit

\* Below nothing there is nothing.
LEMMA BelowNothing ==
  ASSUME HandlesTypeOK
  PROVE  Below({}) = {}
<1>1. Closed({})
  BY DEF Closed
<1>2. QED
  BY <1>1, BelowLeast DEF HandlesTypeOK

LEMMA AllocateIInv ==
  ASSUME HandlesInv, NEW o \in Obj, Allocate(o)
  PROVE  HandlesInv'
<1>1. HandlesTypeOK' /\ OneOwner'
  BY DEF HandlesInv, HandlesTypeOK, OneOwner, Allocate
<1>2. \A T \in SUBSET Obj : Closed(T)' <=> Closed(T)
  BY DEF Closed, Allocate
<1>3. children[o] = {} /\ live \subseteq Obj /\ mine \subseteq Obj
  BY DEF HandlesInv, HandlesTypeOK, Allocate
<1>4. Below(mine) \subseteq Below(mine)'
  BY <1>2, <1>1 DEF Below, Allocate, HandlesTypeOK, Closed
<1>5. o \in Below(mine)'
  BY <1>1, MineBelowNext DEF Allocate
<1>6. Below(mine)' \subseteq live \union {o}
  <2>1. /\ live' \in SUBSET Obj /\ mine' \subseteq live'
        /\ \A x \in live' : children'[x] \subseteq live'
    BY <1>1 DEF HandlesTypeOK, OneOwner
  <2>2. QED
    BY <2>1 DEF Below, Closed, Allocate
<1>7. NothingLeaks'
  BY <1>4, <1>5, <1>6 DEF HandlesInv, NothingLeaks, Allocate
<1>8. QED
  BY <1>1, <1>7 DEF HandlesInv

LEMMA DeallocateIInv ==
  ASSUME HandlesInv, NEW o \in Obj, Deallocate(o)
  PROVE  HandlesInv'
<1> DEFINE D == Below({o})
<1>1. HandlesTypeOK /\ OneOwner /\ {o} \in SUBSET live /\ children \in [Obj -> SUBSET Obj]
  BY DEF HandlesInv, HandlesTypeOK, OneOwner, Deallocate
<1>2. D \subseteq live /\ o \in D
  BY <1>1, OnlyLiveDestroyed, BelowLeast
<1>3. /\ live' = live \ D
      /\ mine' = mine \ {o}
      /\ children' = [x \in Obj |-> IF x \in D THEN {} ELSE children[x]]
      /\ refused' = {}
  BY DEF Deallocate, Destroyed, Emptied
<1>4. HandlesTypeOK'
  BY <1>1, <1>3 DEF HandlesTypeOK
<1>5. \A r \in mine' : r \notin D
  BY <1>1, <1>3, RootsSurvive
<1>6. \A x \in Obj : \A y \in children'[x] : y \notin D
  BY <1>1, <1>3, ContentsSurvive DEF OneOwner, Deallocate
<1>7. OneOwner'
  BY <1>1, <1>3, <1>5, <1>6 DEF OneOwner
<1>8. mine \subseteq Below(mine)' \union D
  BY <1>2, <1>3, <1>4, MineBelowNext
<1>9. \A x \in Obj \ D : children[x] \subseteq children'[x] \union D
  BY <1>3
<1>10. NothingLeaks'
  BY <1>1, <1>3, <1>4, <1>7, <1>8, <1>9, NothingLeaksNext
<1>11. QED
  BY <1>4, <1>7, <1>10 DEF HandlesInv

LEMMA ResetIInv ==
  ASSUME HandlesInv, NEW o \in Obj, ResetObject(o)
  PROVE  HandlesInv'
<1> DEFINE S == children[o]
<1> DEFINE D == Below(S)
<1>1. /\ HandlesTypeOK /\ OneOwner /\ S \in SUBSET live /\ S \in SUBSET Obj
      /\ children \in [Obj -> SUBSET Obj] /\ o \in mine
  BY DEF HandlesInv, HandlesTypeOK, OneOwner, ResetObject
<1>2. S \subseteq D
  BY <1>1, BelowLeast
<1>3. /\ live' = live \ D
      /\ mine' = mine
      /\ children' = [x \in Obj |-> IF x \in D \union {o} THEN {} ELSE children[x]]
      /\ refused' = {}
  BY <1>1 DEF ResetObject, Destroyed, Emptied
<1>4. HandlesTypeOK'
  BY <1>1, <1>3 DEF HandlesTypeOK
<1>5. \A r \in mine' : r \notin D
  BY <1>1, <1>3, RootsSurvive DEF OneOwner
<1>6. \A x \in Obj : \A y \in children'[x] : y \notin D
  BY <1>1, <1>3, ContentsSurvive DEF OneOwner
<1>7. OneOwner'
  BY <1>1, <1>3, <1>5, <1>6 DEF OneOwner
<1>8. mine \subseteq Below(mine)' \union D
  BY <1>3, <1>4, MineBelowNext
<1>9. \A x \in Obj \ D : children[x] \subseteq children'[x] \union D
  BY <1>2, <1>3
<1>10. NothingLeaks'
  BY <1>1, <1>3, <1>4, <1>7, <1>8, <1>9, NothingLeaksNext
<1>11. QED
  BY <1>4, <1>7, <1>10 DEF HandlesInv

LEMMA SetContainerIInv ==
  ASSUME HandlesInv, NEW p \in Obj, NEW os \in SUBSET Obj, NEW old \in SUBSET Obj,
         SetContainer(p, os, old)
  PROVE  HandlesInv'
<1> DEFINE D == Below(old)
<1>1. /\ HandlesTypeOK /\ OneOwner /\ old \in SUBSET live
      /\ children \in [Obj -> SUBSET Obj] /\ p \in mine /\ old \subseteq children[p]
      /\ os \subseteq mine \ {p}
  BY DEF HandlesInv, HandlesTypeOK, OneOwner, SetContainer
<1>2. old \subseteq D /\ p \notin D /\ D \subseteq live
  BY <1>1, BelowLeast, RootsSurvive, OnlyLiveDestroyed DEF OneOwner
<1>3. /\ live' = live \ D
      /\ mine' = mine \ os
      /\ children' = [Emptied(D) EXCEPT ![p] = (@ \ old) \union os]
      /\ refused' = {}
  BY DEF SetContainer, Destroyed
<1>4. \A x \in Obj : children'[x] = IF x \in D THEN {}
                                    ELSE IF x = p THEN (children[p] \ old) \union os
                                    ELSE children[x]
  BY <1>1, <1>2, <1>3 DEF Emptied
<1>5. HandlesTypeOK'
  <2>1. children' \in [Obj -> SUBSET Obj]
    BY <1>1, <1>3 DEF Emptied
  <2>2. \A x \in Obj \ live' : children'[x] = {}
    BY <1>1, <1>2, <1>3, <1>4 DEF HandlesTypeOK, OneOwner
  <2>3. QED
    BY <1>1, <1>3, <2>1, <2>2 DEF HandlesTypeOK
<1>6. \A r \in mine : r \notin D
  BY <1>1, RootsSurvive DEF OneOwner
<1>7. \A x \in Obj \ D : \A y \in children[x] : y \notin old => y \notin D
  BY <1>1, ContentsSurvive
<1>8. \A x \in Obj : \A y \in children'[x] : y \notin D
  BY <1>1, <1>4, <1>6, <1>7 DEF OneOwner
<1>9. OneOwner'
  <2>1. mine' \subseteq live'
    BY <1>1, <1>3, <1>6 DEF OneOwner
  <2>2. \A x \in Obj : children'[x] \subseteq live' \ mine'
    BY <1>1, <1>3, <1>4, <1>8 DEF OneOwner
  <2>3. \A x, y \in Obj : x # y => children'[x] \intersect children'[y] = {}
    BY <1>1, <1>4 DEF OneOwner
  <2>4. QED
    BY <2>1, <2>2, <2>3 DEF OneOwner
<1>10. mine \subseteq Below(mine)' \union D
  <2>1. p \in mine' /\ os \subseteq children'[p]
    BY <1>1, <1>2, <1>3, <1>4
  <2>2. QED
    BY <1>3, <1>5, <2>1, MineBelowNext
<1>11. \A x \in Obj \ D : children[x] \subseteq children'[x] \union D
  BY <1>2, <1>4
<1>12. NothingLeaks'
  BY <1>1, <1>3, <1>5, <1>9, <1>10, <1>11, NothingLeaksNext
<1>13. QED
  BY <1>5, <1>9, <1>12 DEF HandlesInv

LEMMA SetContainerFailsIInv ==
  ASSUME HandlesInv, NEW p \in Obj, NEW os \in SUBSET Obj, SetContainerFails(p, os)
  PROVE  HandlesInv'
<1> DEFINE D == Below(os)
<1>1. /\ HandlesTypeOK /\ OneOwner /\ os \in SUBSET live
      /\ children \in [Obj -> SUBSET Obj] /\ os \subseteq mine
  BY DEF HandlesInv, HandlesTypeOK, OneOwner, SetContainerFails
<1>2. os \subseteq D
  BY <1>1, BelowLeast
<1>3. /\ live' = live \ D
      /\ mine' = mine \ os
      /\ children' = [x \in Obj |-> IF x \in D THEN {} ELSE children[x]]
      /\ refused' = os
  BY DEF SetContainerFails, Destroyed, Emptied
<1>4. HandlesTypeOK'
  BY <1>1, <1>3 DEF HandlesTypeOK
<1>5. \A r \in mine' : r \notin D
  BY <1>1, <1>3, RootsSurvive
<1>6. \A x \in Obj : \A y \in children'[x] : y \notin D
  BY <1>1, <1>3, ContentsSurvive DEF OneOwner
<1>7. OneOwner'
  BY <1>1, <1>3, <1>5, <1>6 DEF OneOwner
<1>8. mine \subseteq Below(mine)' \union D
  BY <1>2, <1>3, <1>4, MineBelowNext
<1>9. \A x \in Obj \ D : children[x] \subseteq children'[x] \union D
  BY <1>3
<1>10. NothingLeaks'
  BY <1>1, <1>3, <1>4, <1>7, <1>8, <1>9, NothingLeaksNext
<1>11. QED
  BY <1>4, <1>7, <1>10 DEF HandlesInv

LEMMA StutterHandles ==
  ASSUME HandlesInv, UNCHANGED handleVars
  PROVE  HandlesInv'
BY DEF handleVars, HandlesInv, HandlesTypeOK, OneOwner, NothingLeaks,
       Below, Closed

-----------------------------------------------------------------------------

\* The three invariants are inductive together.
THEOREM HandlesInductive == HandlesSpec => []HandlesInv
<1>1. ASSUME HandlesInv, [HandlesNext]_handleVars
      PROVE  HandlesInv'
  BY <1>1, AllocateIInv, DeallocateIInv, ResetIInv, SetContainerIInv,
     SetContainerFailsIInv, StutterHandles
  DEF HandlesNext
<1>2. QED
  BY <1>1, InitHandlesInv, PTL DEF HandlesSpec

\* The variables have their types, and only live objects hold others.
THEOREM HandlesTypeCorrect == HandlesSpec => []HandlesTypeOK
<1>1. HandlesInv => HandlesTypeOK
  BY DEF HandlesInv
<1>2. QED
  BY <1>1, HandlesInductive, PTL

\* Every object that exists has exactly one owner.
THEOREM SingleOwner == HandlesSpec => []OneOwner
<1>1. HandlesInv => OneOwner
  BY DEF HandlesInv
<1>2. QED
  BY <1>1, HandlesInductive, PTL

\* Deallocating the handles the application has frees everything.
THEOREM NoLeak == HandlesSpec => []NothingLeaks
<1>1. HandlesInv => NothingLeaks
  BY DEF HandlesInv
<1>2. QED
  BY <1>1, HandlesInductive, PTL

-----------------------------------------------------------------------------

(***************************************************************************)
(* FieldValues, for bytes and words of any size and fields of any width.   *)
(* The arithmetic is that of numbers in a base: powers, which are defined  *)
(* by recursion, quotients and remainders, and what arrays of bytes stand  *)
(* for, by induction over their prefixes.                                  *)
(***************************************************************************)

\* Induction over the natural numbers, with a set in place of a predicate: a
\* set without its least element missing is not missing any.
LEMMA Induction ==
  ASSUME NEW S, 0 \in S, \A n \in Nat : n \in S => n + 1 \in S
  PROVE  \A n \in Nat : n \in S
<1>1. SUFFICES ASSUME Nat \ S # {} PROVE FALSE
  OBVIOUS
<1> DEFINE Less == OpToRel(<, Nat)
<1>2. IsWellFoundedOn(Less, Nat)
  BY NatLessThanWellFounded
<1>3. Less = {s \in Nat \X Nat : s[1] < s[2]}
  BY DEF OpToRel
<1> HIDE DEF Less
<1>4. PICK n \in Nat \ S : \A m \in Nat \ S : ~(<<m, n>> \in Less)
  BY <1>1, <1>2, WFMin
<1>5. \A m \in Nat \ S : ~(m < n)
  BY <1>3, <1>4
<1>6. n # 0 /\ n - 1 \in Nat /\ n - 1 + 1 = n
  BY <1>4
<1>7. n - 1 \in S
  BY <1>4, <1>5, <1>6
<1>8. QED
  BY <1>4, <1>6, <1>7

\* f starts with first and goes on by step.
Iterates(f, V, first, step) ==
  f \in [Nat -> V] /\ f[0] = first /\ \A n \in Nat : f[n + 1] = step[n][f[n]]

\* Recursion on the natural numbers, with a function in place of an operator.
LEMMA Recursion ==
  ASSUME NEW V, NEW first \in V, NEW step \in [Nat -> [V -> V]]
  PROVE  \E f : Iterates(f, V, first, step)
<1> DEFINE Starts(g, n) == /\ g \in [0..n -> V] /\ g[0] = first
                           /\ \A i \in 0..(n - 1) : g[i + 1] = step[i][g[i]]
           S == {n \in Nat : \E g : Starts(g, n)}
           up(n) == CHOOSE g : Starts(g, n)
           f == [n \in Nat |-> up(n)[n]]
<1>1. 0 \in S
  <2>1. Starts([i \in 0..0 |-> first], 0)
    OBVIOUS
  <2>2. QED
    BY <2>1
<1>2. ASSUME NEW n \in Nat, n \in S
      PROVE  n + 1 \in S
  <2>1. PICK g : Starts(g, n)
    BY <1>2
  <2> DEFINE h == [i \in 0..(n + 1) |-> IF i = n + 1 THEN step[n][g[n]] ELSE g[i]]
  <2>2. /\ h \in [0..(n + 1) -> V] /\ h[0] = first
        /\ \A i \in 0..n : h[i + 1] = step[i][h[i]]
    <3>1. \A i \in 0..(n + 1) : (i # n + 1 => i \in 0..n) /\ (i \in 0..n => i # n + 1)
      OBVIOUS
    <3>2. g[n] \in V /\ step[n][g[n]] \in V
      BY <2>1
    <3>3. h \in [0..(n + 1) -> V] /\ h[0] = first
      BY <2>1, <3>1, <3>2
    <3>4. ASSUME NEW i \in 0..n
          PROVE  h[i + 1] = step[i][h[i]]
      <4>1. CASE i = n
        BY <4>1
      <4>2. CASE i # n
        <5>1. i \in 0..(n - 1) /\ i + 1 \in 0..(n + 1) /\ i + 1 # n + 1 /\ i # n + 1
          BY <4>2
        <5>2. h[i + 1] = g[i + 1] /\ h[i] = g[i]
          BY <5>1
        <5>3. QED
          BY <2>1, <5>1, <5>2
      <4>3. QED
        BY <4>1, <4>2
    <3>5. QED
      BY <3>3, <3>4
  <2> HIDE DEF h
  <2>3. Starts(h, n + 1)
    BY <2>2
  <2>4. QED
    <3> HIDE DEF Starts
    <3>1. QED
      BY <2>3
<1>3. \A n \in Nat : Starts(up(n), n)
  <2>1. \A n \in Nat : n \in S
    <3> HIDE DEF S
    <3>1. QED
      BY <1>1, <1>2, Induction
  <2>2. QED
    <3> HIDE DEF Starts
    <3>1. QED
      BY <2>1
<1> HIDE DEF up
<1>4. ASSUME NEW n \in Nat
      PROVE  up(n + 1)[n] = up(n)[n]
  <2> DEFINE T == {i \in Nat : i <= n => up(n + 1)[i] = up(n)[i]}
  <2>1. Starts(up(n), n) /\ Starts(up(n + 1), n + 1)
    <3> HIDE DEF Starts
    <3>1. QED
      BY <1>3
  <2>2. 0 \in T
    BY <2>1
  <2>3. ASSUME NEW i \in Nat, i \in T
        PROVE  i + 1 \in T
    <3>1. i + 1 <= n => i \in 0..(n - 1) /\ i \in 0..(n + 1 - 1) /\ i <= n
      OBVIOUS
    <3>2. QED
      BY <2>1, <2>3, <3>1
  <2> HIDE DEF T
  <2>4. \A i \in Nat : i \in T
    BY <2>2, <2>3, Induction
  <2>5. QED
    BY <2>4 DEF T
<1>5. f \in [Nat -> V]
  BY <1>3
<1>6. f[0] = first
  BY <1>3
<1>7. ASSUME NEW n \in Nat
      PROVE  f[n + 1] = step[n][f[n]]
  <2>1. up(n + 1)[n + 1] = step[n][up(n + 1)[n]]
    BY <1>3
  <2>2. QED
    BY <1>4, <2>1
<1>8. Iterates(f, V, first, step)
  <2> HIDE DEF f
  <2>1. QED
    BY <1>5, <1>6, <1>7 DEF Iterates
<1>9. QED
  BY <1>8

\* A function that is defined by such a recursion is the one there is.
LEMMA PowDef ==
  /\ pow2 \in [Nat -> Nat \ {0}] /\ pow2[0] = 1
  /\ \A n \in Nat : pow2[n + 1] = 2 * pow2[n]
<1> DEFINE step == [n \in Nat |-> [v \in Nat \ {0} |-> 2 * v]]
           Doubles(f) == f = [n \in Nat |-> IF n = 0 THEN 1 ELSE 2 * f[n - 1]]
<1>1. step \in [Nat -> [Nat \ {0} -> Nat \ {0}]]
  OBVIOUS
<1>2. PICK f : Iterates(f, Nat \ {0}, 1, step)
  <2> HIDE DEF step
  <2>1. 1 \in Nat \ {0}
    OBVIOUS
  <2>2. QED
    BY <1>1, <2>1, Recursion
<1>3. \A n \in Nat : f[n] = IF n = 0 THEN 1 ELSE 2 * f[n - 1]
  <2>1. SUFFICES ASSUME NEW n \in Nat, n # 0
                 PROVE  f[n] = 2 * f[n - 1]
    BY <1>2 DEF Iterates
  <2>2. n - 1 \in Nat /\ n - 1 + 1 = n
    BY <2>1
  <2>3. f[n] = step[n - 1][f[n - 1]]
    BY <1>2, <2>2 DEF Iterates
  <2>4. f[n - 1] \in Nat \ {0}
    BY <1>2, <2>2 DEF Iterates
  <2>5. QED
    BY <2>2, <2>3, <2>4
<1>4. Doubles(f)
  BY <1>2, <1>3 DEF Iterates
<1>5. Doubles(pow2)
  <2> HIDE DEF Doubles
  <2>1. pow2 = CHOOSE g : Doubles(g)
    BY DEF pow2, Doubles
  <2>2. QED
    BY <1>4, <2>1
<1>6. pow2[0] = 1 /\ \A n \in Nat : pow2[n + 1] = 2 * pow2[n]
  BY <1>5
<1>7. pow2 \in [Nat -> Nat \ {0}]
  <2> DEFINE T == {n \in Nat : pow2[n] \in Nat \ {0}}
  <2>1. 0 \in T
    BY <1>6
  <2>2. \A n \in Nat : n \in T => n + 1 \in T
    BY <1>6
  <2> HIDE DEF T
  <2>3. \A n \in Nat : n \in T
    BY <2>1, <2>2, Induction
  <2>4. QED
    BY <1>5, <2>3 DEF T
<1>8. QED
  BY <1>6, <1>7

\* The sum of exponents is the product of powers.
LEMMA PowAdd == \A a, b \in Nat : pow2[a + b] = pow2[a] * pow2[b]
<1>1. SUFFICES ASSUME NEW a \in Nat
               PROVE  \A b \in Nat : pow2[a + b] = pow2[a] * pow2[b]
  OBVIOUS
<1> DEFINE T == {b \in Nat : pow2[a + b] = pow2[a] * pow2[b]}
<1>2. 0 \in T
  BY PowDef
<1>3. ASSUME NEW b \in Nat, b \in T
      PROVE  b + 1 \in T
  <2>1. pow2[a + (b + 1)] = 2 * pow2[a + b]
    <3>1. a + b \in Nat /\ a + (b + 1) = (a + b) + 1
      OBVIOUS
    <3>2. QED
      BY <3>1, PowDef
  <2>2. pow2[b + 1] = 2 * pow2[b]
    BY PowDef
  <2>3. pow2[a] \in Nat /\ pow2[b] \in Nat
    BY PowDef
  <2>4. \A x, y \in Nat : 2 * (x * y) = x * (2 * y)
    OBVIOUS
  <2>5. QED
    BY <1>3, <2>1, <2>2, <2>3, <2>4
<1> HIDE DEF T
<1>4. \A b \in Nat : b \in T
  BY <1>2, <1>3, Induction
<1>5. QED
  BY <1>4 DEF T

\* Products of natural numbers.
LEMMA Products ==
  /\ \A x, y \in Nat : x * y \in Nat /\ x * y = y * x
  /\ \A x, y \in Nat : y # 0 => x <= x * y
  /\ \A x, y, z \in Nat : x <= y => x * z <= y * z
  /\ \A x, y, z \in Nat : (x + y) * z = x * z + y * z /\ (x * y) * z = x * (y * z)
<1>1. \A x, y \in Nat : x * y \in Nat /\ x * y = y * x
  OBVIOUS
<1>2. \A x, y, z \in Nat : (x + y) * z = x * z + y * z /\ (x * y) * z = x * (y * z)
  OBVIOUS
<1>3. ASSUME NEW x \in Nat, NEW y \in Nat, NEW z \in Nat, x <= y
      PROVE  x * z <= y * z
  <2>1. PICK d \in Nat : y = x + d
    <3>1. y - x \in Nat /\ y = x + (y - x)
      BY <1>3
    <3>2. QED
      BY <3>1
  <2>2. y * z = x * z + d * z
    BY <1>2, <2>1
  <2>3. d * z \in Nat /\ x * z \in Nat
    BY <1>1
  <2>4. QED
    BY <2>2, <2>3
<1>4. ASSUME NEW x \in Nat, NEW y \in Nat, y # 0
      PROVE  x <= x * y
  <2>1. 1 * x <= y * x
    BY <1>3, <1>4
  <2>2. QED
    BY <1>1, <2>1
<1>5. QED
  BY <1>1, <1>2, <1>3, <1>4

\* More bits, larger powers.
LEMMA PowGrows == \A a, b \in Nat : a <= b => pow2[a] <= pow2[b]
<1>1. SUFFICES ASSUME NEW a \in Nat, NEW b \in Nat, a <= b
               PROVE  pow2[a] <= pow2[b]
  OBVIOUS
<1>2. b - a \in Nat /\ b = a + (b - a)
  BY <1>1
<1>3. pow2[b] = pow2[a] * pow2[b - a]
  BY <1>2, PowAdd
<1>4. pow2[a] \in Nat /\ pow2[b - a] \in Nat /\ pow2[b - a] # 0
  BY <1>2, PowDef
<1>5. QED
  BY <1>3, <1>4, Products

\* What a byte is worth that n others follow.
Place(n) == pow2[ByteBits * n]

LEMMA PlaceFact ==
  /\ Base \in Nat \ {0} /\ Place(0) = 1 /\ Place(1) = Base
  /\ \A n \in Nat : Place(n) \in Nat \ {0} /\ Place(n + 1) = Place(n) * Base
<1>1. ByteBits \in Nat
  BY SizeAssumption
<1>2. Base \in Nat \ {0}
  BY <1>1, PowDef DEF Base
<1>3. ByteBits * 0 = 0 /\ ByteBits * 1 = ByteBits
  BY <1>1
<1>4. ASSUME NEW n \in Nat
      PROVE  Place(n) \in Nat \ {0} /\ Place(n + 1) = Place(n) * Base
  <2>1. ByteBits * n \in Nat /\ ByteBits * (n + 1) = ByteBits * n + ByteBits
    BY <1>1
  <2>2. QED
    BY <1>1, <2>1, PowDef, PowAdd DEF Place, Base
<1>5. QED
  BY <1>2, <1>3, <1>4, PowDef DEF Place, Base

\* Quotient and remainder are the only ones there are.
LEMMA Division ==
  ASSUME NEW n \in Nat, NEW d \in Nat \ {0}
  PROVE  /\ n \div d \in Nat /\ n % d \in 0..(d - 1) /\ n = (n \div d) * d + (n % d)
         /\ \A q \in Nat, r \in 0..(d - 1) : n = q * d + r => n \div d = q /\ n % d = r
OBVIOUS

\* Dividing by a product is dividing twice.
LEMMA DivideTwice ==
  ASSUME NEW n \in Nat, NEW a \in Nat \ {0}, NEW b \in Nat \ {0}
  PROVE  n \div (a * b) = (n \div a) \div b
<1> DEFINE q == n \div a
           p == q \div b
           r == (q % b) * a + (n % a)
<1>1. q \in Nat /\ n % a \in 0..(a - 1) /\ n = q * a + (n % a)
  BY Division
<1>2. p \in Nat /\ q % b \in 0..(b - 1) /\ q = p * b + (q % b)
  BY <1>1, Division
<1> HIDE DEF p, q
<1>3. a * b \in Nat \ {0}
  OBVIOUS
<1>4. (q % b) * a + a <= a * b
  <2>1. q % b \in Nat /\ (q % b) + 1 \in Nat /\ (q % b) + 1 <= b
    BY <1>2
  <2>2. ((q % b) + 1) * a <= b * a
    BY <2>1, Products
  <2>3. ((q % b) + 1) * a = (q % b) * a + a
    BY <2>1
  <2>4. QED
    BY <2>2, <2>3
<1>5. r \in 0..(a * b - 1)
  <2>1. (q % b) * a \in Nat
    BY <1>2
  <2>2. QED
    BY <1>1, <1>3, <1>4, <2>1
<1>6. n = p * (a * b) + r
  <2>1. \A x, y, z, w \in Nat : (x * b + y) * a + w = x * (a * b) + (y * a + w)
    OBVIOUS
  <2>2. n = (p * b + (q % b)) * a + (n % a)
    BY <1>1, <1>2
  <2>3. q % b \in Nat /\ n % a \in Nat
    BY <1>1, <1>2
  <2>4. QED
    BY <1>2, <2>1, <2>2, <2>3
<1> HIDE DEF r
<1>7. n \div (a * b) = p
  <2> DEFINE m == a * b
  <2>1. m \in Nat \ {0} /\ r \in 0..(m - 1) /\ n = p * m + r
    BY <1>3, <1>5, <1>6
  <2> HIDE DEF m
  <2>2. n \div m = p
    BY <1>2, <2>1, Division
  <2>3. QED
    BY <2>2 DEF m
<1>8. QED
  BY <1>7 DEF p, q

-----------------------------------------------------------------------------

LEMMA ByteFact ==
  ASSUME NEW bytes \in Seq(Byte)
  PROVE  Len(bytes) \in Nat /\ \A i \in 1..Len(bytes) : bytes[i] \in Nat /\ bytes[i] < Base
<1>1. Len(bytes) \in Nat /\ \A i \in 1..Len(bytes) : bytes[i] \in Byte
  OBVIOUS
<1>2. Base \in Nat
  BY PlaceFact
<1>3. \A b \in Byte : b \in Nat /\ b < Base
  BY <1>2 DEF Byte
<1>4. QED
  BY <1>1, <1>3

\* f[i] is the number of the first i bytes.
Prefixes(f, bytes) ==
  /\ f \in [0..Len(bytes) -> Nat] /\ f[0] = 0
  /\ \A i \in 0..(Len(bytes) - 1) : f[i + 1] = f[i] * Base + bytes[i + 1]

\* The number of bytes is that of all its prefixes.
LEMMA NumberFact ==
  ASSUME NEW bytes \in Seq(Byte)
  PROVE  \E f : Prefixes(f, bytes) /\ Number(bytes) = f[Len(bytes)]
<1> DEFINE L == Len(bytes)
           step == [n \in Nat |-> [v \in Nat |->
                      IF n + 1 \in 1..L THEN v * Base + bytes[n + 1] ELSE 0]]
           UpTo(f) == f = [i \in 0..L |-> IF i = 0 THEN 0 ELSE f[i - 1] * Base + bytes[i]]
<1>1. L \in Nat /\ \A i \in 1..L : bytes[i] \in Nat
  BY ByteFact
<1> HIDE DEF L
<1>2. step \in [Nat -> [Nat -> Nat]]
  <2>1. ASSUME NEW n \in Nat, NEW v \in Nat
        PROVE  (IF n + 1 \in 1..L THEN v * Base + bytes[n + 1] ELSE 0) \in Nat
    <3>1. v * Base \in Nat
      BY PlaceFact, Products
    <3>2. n + 1 \in 1..L => bytes[n + 1] \in Nat
      BY <1>1
    <3>3. QED
      BY <3>1, <3>2
  <2>2. QED
    BY <2>1
<1>3. PICK g : Iterates(g, Nat, 0, step)
  <2> HIDE DEF step
  <2>1. QED
    BY <1>2, Recursion
<1> DEFINE f == [i \in 0..L |-> g[i]]
<1>4. f \in [0..L -> Nat] /\ f[0] = 0
  BY <1>1, <1>3 DEF Iterates
<1>5. ASSUME NEW i \in 0..(L - 1)
      PROVE  f[i + 1] = f[i] * Base + bytes[i + 1]
  <2>1. i \in Nat /\ i + 1 \in 1..L /\ i + 1 \in 0..L /\ i \in 0..L
    BY <1>1
  <2>2. g[i + 1] = step[i][g[i]] /\ g[i] \in Nat
    BY <1>3, <2>1 DEF Iterates
  <2>3. QED
    BY <2>1, <2>2
<1>6. UpTo(f)
  <2> HIDE DEF f
  <2>1. ASSUME NEW i \in 0..L
        PROVE  f[i] = IF i = 0 THEN 0 ELSE f[i - 1] * Base + bytes[i]
    <3>1. i # 0 => i - 1 \in 0..(L - 1) /\ i - 1 + 1 = i
      BY <1>1
    <3>2. QED
      BY <1>4, <1>5, <3>1
  <2>2. QED
    BY <1>4, <2>1
<1> HIDE DEF f
<1> DEFINE upTo == CHOOSE h : UpTo(h)
<1>7. UpTo(upTo)
  <2> HIDE DEF UpTo
  <2>1. QED
    BY <1>6
<1>8. Number(bytes) = upTo[L]
  BY DEF Number, L
<1> HIDE DEF upTo
<1>9. \A i \in 0..L : upTo[i] = IF i = 0 THEN 0 ELSE upTo[i - 1] * Base + bytes[i]
  BY <1>7
<1>10. upTo[0] = 0 /\ \A i \in 0..(L - 1) : upTo[i + 1] = upTo[i] * Base + bytes[i + 1]
  <2>1. ASSUME NEW i \in 0..(L - 1)
        PROVE  upTo[i + 1] = upTo[i] * Base + bytes[i + 1]
    <3>1. i + 1 \in 0..L /\ i + 1 # 0 /\ i + 1 - 1 = i
      BY <1>1
    <3>2. QED
      BY <1>9, <3>1
  <2>2. QED
    BY <1>1, <1>9, <2>1
<1>11. upTo \in [0..L -> Nat]
  <2> DEFINE T == {i \in Nat : i <= L => upTo[i] \in Nat}
  <2>1. 0 \in T
    BY <1>10
  <2>2. ASSUME NEW i \in Nat, i \in T
        PROVE  i + 1 \in T
    <3>1. SUFFICES ASSUME i + 1 <= L PROVE upTo[i + 1] \in Nat
      OBVIOUS
    <3>2. i \in 0..(L - 1) /\ i + 1 \in 1..L /\ upTo[i] \in Nat
      BY <1>1, <2>2, <3>1
    <3>3. upTo[i + 1] = upTo[i] * Base + bytes[i + 1]
      BY <1>10, <3>2
    <3>4. bytes[i + 1] \in Nat /\ upTo[i] * Base \in Nat
      BY <1>1, <3>2, PlaceFact, Products
    <3>5. QED
      BY <3>3, <3>4
  <2> HIDE DEF T
  <2>3. \A i \in Nat : i \in T
    BY <2>1, <2>2, Induction
  <2>4. \A i \in 0..L : upTo[i] \in Nat
    BY <1>1, <2>3 DEF T
  <2>5. QED
    BY <1>7, <2>4
<1>12. QED
  BY <1>8, <1>10, <1>11 DEF Prefixes, L

\* There is one function of prefixes for what two arrays have in common.
LEMMA InBytes ==
  ASSUME NEW bytes \in Seq(Byte), NEW f, Prefixes(f, bytes),
         NEW S, 0 \in S, \A i \in 0..(Len(bytes) - 1) : i \in S => i + 1 \in S
  PROVE  \A i \in 0..Len(bytes) : i \in S
<1> DEFINE T == {i \in Nat : i <= Len(bytes) => i \in S}
<1>1. 0 \in T
  OBVIOUS
<1>2. ASSUME NEW i \in Nat, i \in T
      PROVE  i + 1 \in T
  <2>1. i + 1 <= Len(bytes) => i \in 0..(Len(bytes) - 1)
    OBVIOUS
  <2>2. QED
    BY <1>2, <2>1
<1> HIDE DEF T
<1>3. \A i \in Nat : i \in T
  BY <1>1, <1>2, Induction
<1>4. QED
  BY <1>3 DEF T

\* The first i bytes are less than what a byte is worth before them.
LEMMA PrefixBound ==
  ASSUME NEW bytes \in Seq(Byte), NEW f, Prefixes(f, bytes)
  PROVE  \A i \in 0..Len(bytes) : f[i] < Place(i)
<1> DEFINE S == {i \in 0..Len(bytes) : f[i] < Place(i)}
<1>1. 0 \in S
  BY ByteFact, PlaceFact DEF Prefixes
<1>2. ASSUME NEW i \in 0..(Len(bytes) - 1), i \in S
      PROVE  i + 1 \in S
  <2>1. i + 1 \in 0..Len(bytes) /\ i \in 0..Len(bytes) /\ i \in Nat
    BY ByteFact
  <2>2. f[i + 1] = f[i] * Base + bytes[i + 1] /\ Place(i + 1) = Place(i) * Base
    BY <2>1, PlaceFact DEF Prefixes
  <2>3. f[i] \in Nat /\ f[i] + 1 \in Nat /\ Place(i) \in Nat /\ Base \in Nat /\ f[i] + 1 <= Place(i)
    <3>1. f[i] \in Nat /\ f[i] < Place(i)
      BY <1>2, <2>1 DEF Prefixes
    <3>2. Place(i) \in Nat /\ Base \in Nat
      BY <2>1, PlaceFact
    <3>3. QED
      BY <3>1, <3>2
  <2>4. (f[i] + 1) * Base <= Place(i) * Base
    BY <2>3, Products
  <2> DEFINE x == f[i] * Base
             y == Place(i) * Base
  <2>5. (f[i] + 1) * Base = x + Base /\ x \in Nat /\ y \in Nat
    <3>1. (f[i] + 1) * Base = f[i] * Base + 1 * Base /\ 1 * Base = Base
      BY ONLY <2>3, Products
    <3>2. x \in Nat /\ y \in Nat
      BY ONLY <2>3, Products
    <3>3. QED
      BY <3>1, <3>2
  <2>6. bytes[i + 1] \in Nat /\ bytes[i + 1] < Base
    <3>1. i + 1 \in 1..Len(bytes)
      OBVIOUS
    <3>2. QED
      BY <3>1, ByteFact
  <2>7. f[i] * Base + bytes[i + 1] < Place(i) * Base
    <3>1. x + Base <= y
      BY <2>4, <2>5
    <3> HIDE DEF x, y
    <3>2. x + bytes[i + 1] < y
      BY <2>3, <2>5, <2>6, <3>1
    <3>3. QED
      BY <3>2 DEF x, y
  <2>8. QED
    BY <2>1, <2>2, <2>7
<1> HIDE DEF S
<1>3. \A i \in 0..Len(bytes) : i \in S
  BY <1>1, <1>2, InBytes
<1>4. QED
  BY <1>3 DEF S

\* The first byte decides the number up to what it is worth.
LEMMA FirstByte ==
  ASSUME NEW bytes \in Seq(Byte), Len(bytes) # 0
  PROVE  /\ bytes[1] * Place(Len(bytes) - 1) <= Number(bytes)
         /\ Number(bytes) < (bytes[1] + 1) * Place(Len(bytes) - 1)
<1>1. PICK f : Prefixes(f, bytes) /\ Number(bytes) = f[Len(bytes)]
  BY NumberFact
<1> DEFINE b == bytes[1]
           S == {i \in 0..Len(bytes) : i # 0 => /\ b * Place(i - 1) <= f[i]
                                                /\ f[i] < (b + 1) * Place(i - 1)}
<1>2. /\ Len(bytes) \in Nat /\ b \in Nat /\ Base \in Nat
      /\ \A i \in 1..Len(bytes) : bytes[i] \in Nat /\ bytes[i] < Base
  <2>1. /\ Len(bytes) \in Nat
        /\ \A i \in 1..Len(bytes) : bytes[i] \in Nat /\ bytes[i] < Base
    BY ByteFact
  <2>2. 1 \in 1..Len(bytes)
    BY <2>1
  <2>3. QED
    BY <2>1, <2>2, PlaceFact
<1> HIDE DEF b
<1>3. 0 \in S
  BY <1>2
<1>4. ASSUME NEW i \in 0..(Len(bytes) - 1), i \in S
      PROVE  i + 1 \in S
  <2>1. /\ i + 1 \in 1..Len(bytes) /\ i + 1 \in 0..Len(bytes) /\ i \in 0..Len(bytes)
        /\ i \in Nat /\ i + 1 - 1 = i
    BY <1>2
  <2>2. f[i] \in Nat /\ f[i + 1] = f[i] * Base + bytes[i + 1]
    BY <1>1, <2>1 DEF Prefixes
  <2>3. bytes[i + 1] \in Nat /\ bytes[i + 1] < Base
    BY <1>2, <2>1
  <2>4. b * Place(i) <= f[i + 1] /\ f[i + 1] < (b + 1) * Place(i)
    <3>1. CASE i = 0
      <4>1. f[1] = 0 * Base + b
        BY <1>1, <2>2, <3>1 DEF Prefixes, b
      <4>2. f[1] = b /\ Place(0) = 1
        BY <1>2, <4>1, PlaceFact
      <4>3. QED
        BY <1>2, <3>1, <4>2
    <3>2. CASE i # 0
      <4> DEFINE P == Place(i - 1)
      <4>1. P \in Nat /\ Place(i) = P * Base
        <5>1. i - 1 \in Nat /\ i - 1 + 1 = i
          BY <2>1, <3>2
        <5>2. QED
          BY <5>1, PlaceFact
      <4>2. b * P <= f[i] /\ f[i] < (b + 1) * P
        BY <1>4, <3>2
      <4> HIDE DEF P
      <4>3. b * P \in Nat /\ (b + 1) * P \in Nat /\ b + 1 \in Nat /\ f[i] + 1 \in Nat
        BY <1>2, <2>2, <4>1, Products
      <4>4. (b * P) * Base <= f[i] * Base /\ (f[i] + 1) * Base <= ((b + 1) * P) * Base
        <5>1. f[i] + 1 <= (b + 1) * P
          BY <2>2, <4>2, <4>3
        <5>2. QED
          BY <1>2, <2>2, <4>2, <4>3, <5>1, Products
      <4>5. /\ (b * P) * Base = b * Place(i) /\ ((b + 1) * P) * Base = (b + 1) * Place(i)
            /\ (f[i] + 1) * Base = f[i] * Base + Base
        BY <1>2, <2>2, <4>1, <4>3, Products
      <4>6. f[i] * Base \in Nat /\ b * Place(i) \in Nat /\ (b + 1) * Place(i) \in Nat
        BY <1>2, <2>1, <2>2, <4>3, Products, PlaceFact
      <4> DEFINE low == b * Place(i)
                 high == (b + 1) * Place(i)
                 shifted == f[i] * Base
      <4>7. /\ low \in Nat /\ high \in Nat /\ shifted \in Nat
            /\ low <= shifted /\ shifted + Base <= high
            /\ f[i + 1] = shifted + bytes[i + 1]
        BY <2>2, <4>4, <4>5, <4>6
      <4> HIDE DEF low, high, shifted
      <4>8. low <= f[i + 1] /\ f[i + 1] < high
        BY <1>2, <2>3, <4>7
      <4>9. QED
        BY <4>8 DEF low, high
    <3>3. QED
      BY <3>1, <3>2
  <2>5. QED
    BY <2>1, <2>4
<1> HIDE DEF S
<1>5. \A i \in 0..Len(bytes) : i \in S
  BY <1>1, <1>3, <1>4, InBytes
<1>6. Len(bytes) \in S
  BY <1>2, <1>5
<1>7. QED
  BY <1>1, <1>6 DEF S, b

\* A number is less than what a byte is worth before all of them.
LEMMA NumberBound ==
  ASSUME NEW bytes \in Seq(Byte)
  PROVE  Number(bytes) \in Nat /\ Number(bytes) < Place(Len(bytes))
<1>1. PICK f : Prefixes(f, bytes) /\ Number(bytes) = f[Len(bytes)]
  BY NumberFact
<1>2. Len(bytes) \in 0..Len(bytes)
  BY ByteFact
<1>3. QED
  BY <1>1, <1>2, PrefixBound DEF Prefixes

\* Bytes of 0 in front do not count.
LEMMA HostOrder ==
  ASSUME NEW bytes \in Seq(Byte), Len(bytes) <= WordBytes
  PROVE  ToHostOrder(bytes) = Number(bytes)
<1> DEFINE n == WordBytes - Len(bytes)
           word == [i \in 1..WordBytes |-> IF i <= n THEN 0 ELSE bytes[i - n]]
<1>1. /\ WordBytes \in Nat /\ Len(bytes) \in Nat /\ n \in Nat /\ n + Len(bytes) = WordBytes
      /\ Base \in Nat \ {0}
  BY SizeAssumption, ByteFact, PlaceFact
<1> HIDE DEF n
<1>2. word \in Seq(Byte) /\ Len(word) = WordBytes
  <2>1. ASSUME NEW i \in 1..WordBytes
        PROVE  (IF i <= n THEN 0 ELSE bytes[i - n]) \in Byte
    <3>1. 0 \in Byte
      BY <1>1 DEF Byte
    <3>2. i <= n \/ i - n \in 1..Len(bytes)
      BY <1>1
    <3>3. QED
      BY <3>1, <3>2
  <2>2. QED
    BY <1>1, <2>1
<1>3. \A i \in 1..n : word[i] = 0
  BY <1>1
<1>4. \A i \in 1..Len(bytes) : word[n + i] = bytes[i]
  <2>1. \A k \in 1..WordBytes : ~(k <= n) => word[k] = bytes[k - n]
    OBVIOUS
  <2> HIDE DEF word
  <2>2. ASSUME NEW i \in 1..Len(bytes)
        PROVE  word[n + i] = bytes[i]
    <3> DEFINE k == n + i
    <3>1. k \in 1..WordBytes /\ ~(k <= n) /\ k - n = i
      BY <1>1
    <3> HIDE DEF k
    <3>2. word[k] = bytes[i]
      BY <2>1, <3>1
    <3>3. QED
      BY <3>2 DEF k
  <2>3. QED
    BY <2>2
<1>5. ToHostOrder(bytes) = Number(word)
  BY DEF ToHostOrder, n
<1> HIDE DEF word
<1>6. PICK f : Prefixes(f, bytes) /\ Number(bytes) = f[Len(bytes)]
  BY NumberFact
<1>7. PICK g : Prefixes(g, word) /\ Number(word) = g[Len(word)]
  BY <1>2, NumberFact
<1> DEFINE S == {i \in 0..WordBytes : i <= n => g[i] = 0}
           T == {i \in 0..Len(bytes) : g[n + i] = f[i]}
<1>8. \A i \in 0..WordBytes : i \in S
  <2>1. 0 \in S
    BY <1>1, <1>7 DEF Prefixes
  <2>2. ASSUME NEW i \in 0..(WordBytes - 1), i \in S
        PROVE  i + 1 \in S
    <3>1. i + 1 \in 0..WordBytes /\ g[i + 1] = g[i] * Base + word[i + 1]
      BY <1>1, <1>2, <1>7 DEF Prefixes
    <3>2. i + 1 <= n => i <= n /\ i + 1 \in 1..n
      BY <1>1
    <3>3. i + 1 <= n => g[i + 1] = 0 * Base + 0
      BY <1>3, <2>2, <3>1, <3>2
    <3>4. QED
      BY <1>1, <3>1, <3>3
  <2> HIDE DEF S
  <2>3. QED
    BY <1>2, <1>7, <2>1, <2>2, InBytes
<1>9. \A i \in 0..Len(bytes) : i \in T
  <2>1. 0 \in T
    <3>1. n \in 0..WordBytes /\ n <= n /\ n + 0 = n
      BY <1>1
    <3>2. QED
      BY <1>1, <1>6, <1>8, <3>1 DEF Prefixes
  <2>2. ASSUME NEW i \in 0..(Len(bytes) - 1), i \in T
        PROVE  i + 1 \in T
    <3>1. /\ i + 1 \in 0..Len(bytes) /\ i + 1 \in 1..Len(bytes) /\ n + i \in 0..(WordBytes - 1)
          /\ n + (i + 1) = (n + i) + 1
      BY <1>1
    <3>2. g[(n + i) + 1] = g[n + i] * Base + word[(n + i) + 1]
      BY <1>2, <1>7, <3>1 DEF Prefixes
    <3>3. f[i + 1] = f[i] * Base + bytes[i + 1]
      BY <1>6 DEF Prefixes
    <3>4. word[(n + i) + 1] = bytes[i + 1]
      BY <1>4, <3>1
    <3>5. g[n + (i + 1)] = f[i + 1]
      BY <2>2, <3>1, <3>2, <3>3, <3>4
    <3>6. QED
      BY <3>1, <3>5
  <2> HIDE DEF T
  <2>3. QED
    BY <1>6, <2>1, <2>2, InBytes
<1>10. g[n + Len(bytes)] = f[Len(bytes)]
  BY <1>1, <1>9
<1>11. QED
  BY <1>1, <1>2, <1>5, <1>6, <1>7, <1>10

\* The bytes of a word, from the last one that counts, have its number.
LEMMA NetworkOrder ==
  ASSUME NEW size \in 0..WordBytes, NEW n \in Nat, n < Place(size)
  PROVE  /\ ToNetworkOrder(size, n) \in Seq(Byte) /\ Len(ToNetworkOrder(size, n)) = size
         /\ Number(ToNetworkOrder(size, n)) = n
<1> DEFINE bytes == ToNetworkOrder(size, n)
<1>1. WordBytes \in Nat /\ size \in Nat /\ Base \in Nat \ {0}
  BY SizeAssumption, PlaceFact
<1>2. ASSUME NEW i \in 1..size
      PROVE  WordOf(n)[WordBytes - size + i] = (n \div Place(size - i)) % Base
  <2>1. /\ WordBytes - size + i \in 1..WordBytes
        /\ WordBytes - (WordBytes - size + i) = size - i
    BY <1>1
  <2>2. WordOf(n)[WordBytes - size + i]
          = (n \div pow2[ByteBits * (WordBytes - (WordBytes - size + i))]) % Base
    BY <2>1 DEF WordOf
  <2>3. QED
    BY <2>1, <2>2 DEF Place
<1>3. bytes = [i \in 1..size |-> WordOf(n)[WordBytes - size + i]]
  BY DEF ToNetworkOrder
<1> HIDE DEF bytes
<1>4. \A i \in 1..size : bytes[i] = (n \div Place(size - i)) % Base
  BY <1>2, <1>3
<1>5. ASSUME NEW i \in 1..size
      PROVE  (n \div Place(size - i)) % Base \in Byte
  <2>1. size - i \in Nat
    BY <1>1
  <2>2. n \div Place(size - i) \in Nat
    BY <2>1, PlaceFact, Division
  <2>3. (n \div Place(size - i)) % Base \in 0..(Base - 1)
    BY <1>1, <2>2, Division
  <2>4. QED
    BY <2>3 DEF Byte
<1>6. bytes \in Seq(Byte) /\ Len(bytes) = size
  <2>1. bytes \in [1..size -> Byte]
    BY <1>3, <1>4, <1>5
  <2>2. QED
    BY <1>1, <2>1
<1>7. PICK f : Prefixes(f, bytes) /\ Number(bytes) = f[size]
  BY <1>6, NumberFact
<1> DEFINE S == {i \in 0..size : f[i] = n \div Place(size - i)}
<1>8. 0 \in S
  <2>1. size - 0 = size
    BY <1>1
  <2>2. n \div Place(size) = 0
    <3>1. Place(size) \in Nat \ {0}
      BY <1>1, PlaceFact
    <3>2. n \in 0..(Place(size) - 1) /\ n = 0 * Place(size) + n
      BY <3>1
    <3>3. QED
      BY <3>1, <3>2, Division
  <2>3. QED
    BY <1>1, <1>7, <2>1, <2>2 DEF Prefixes
<1>9. ASSUME NEW i \in 0..(size - 1), i \in S
      PROVE  i + 1 \in S
  <2> DEFINE P == Place(size - (i + 1))
  <2>1. /\ i + 1 \in 0..size /\ i + 1 \in 1..size /\ size - (i + 1) \in Nat
        /\ size - i = size - (i + 1) + 1
    BY <1>1
  <2>2. P \in Nat \ {0} /\ Place(size - i) = P * Base
    BY <2>1, PlaceFact
  <2>3. f[i + 1] = f[i] * Base + bytes[i + 1]
    BY <1>6, <1>7 DEF Prefixes
  <2>4. bytes[i + 1] = (n \div P) % Base
    BY <1>4, <2>1
  <2> HIDE DEF P
  <2>5. f[i] = (n \div P) \div Base
    <3>1. f[i] = n \div Place(size - i)
      BY <1>9
    <3>2. n \div (P * Base) = (n \div P) \div Base
      BY <1>1, <2>2, DivideTwice
    <3>3. QED
      BY <2>2, <3>1, <3>2
  <2>6. n \div P \in Nat
    BY <2>2, Division
  <2>7. n \div P = ((n \div P) \div Base) * Base + ((n \div P) % Base)
    BY <1>1, <2>6, Division
  <2>8. f[i + 1] = n \div P
    BY <2>3, <2>4, <2>5, <2>7
  <2>9. QED
    BY <2>1, <2>8 DEF P
<1> HIDE DEF S
<1>10. \A i \in 0..size : i \in S
  BY <1>6, <1>7, <1>8, <1>9, InBytes
<1>11. f[size] = n \div Place(0)
  <2>1. size \in 0..size /\ size - size = 0
    BY <1>1
  <2>2. QED
    BY <1>10, <2>1 DEF S
<1>12. n \div 1 = n
  OBVIOUS
<1>13. QED
  BY <1>6, <1>7, <1>11, <1>12, PlaceFact DEF bytes

-----------------------------------------------------------------------------

\* The bytes of a field are as many as its bits take: a last one for those
\* that do not fill a byte.
LEMMA BytesFact ==
  ASSUME NEW width \in Nat
  PROVE  /\ Bytes(width) \in Nat /\ width % ByteBits \in Nat
         /\ width % ByteBits = 0 => width = ByteBits * Bytes(width)
         /\ width % ByteBits # 0 =>
              /\ Bytes(width) # 0
              /\ width = ByteBits * (Bytes(width) - 1) + (width % ByteBits)
         /\ width <= WordBits <=> Bytes(width) <= WordBytes
<1> DEFINE q == width \div ByteBits
           r == width % ByteBits
           n == Bytes(width)
<1>1. ByteBits \in Nat \ {0} /\ WordBytes \in Nat /\ WordBits = WordBytes * ByteBits
  BY SizeAssumption DEF WordBits
<1>2. q \in Nat /\ r \in 0..(ByteBits - 1) /\ width = q * ByteBits + r
  BY <1>1, Division
<1>3. n = (width + ByteBits - 1) \div ByteBits /\ width + ByteBits - 1 \in Nat
  BY <1>1 DEF Bytes
<1> HIDE DEF q, r, n
<1>4. CASE r = 0
  <2>1. width + ByteBits - 1 = q * ByteBits + (ByteBits - 1) /\ ByteBits - 1 \in 0..(ByteBits - 1)
    BY <1>1, <1>2, <1>4
  <2>2. n = q
    BY <1>1, <1>2, <1>3, <2>1, Division
  <2>3. width = ByteBits * n /\ width = n * ByteBits
    BY <1>1, <1>2, <1>4, <2>2, Products
  <2>4. width <= WordBits <=> n <= WordBytes
    <3>1. n \in Nat /\ n * ByteBits \in Nat /\ WordBytes * ByteBits \in Nat
      BY <1>1, <1>2, <2>2, Products
    <3>2. n <= WordBytes => n * ByteBits <= WordBytes * ByteBits
      BY <1>1, <3>1, Products
    <3>3. WordBytes + 1 <= n => (WordBytes + 1) * ByteBits <= n * ByteBits
      BY <1>1, <3>1, Products
    <3>4. (WordBytes + 1) * ByteBits = WordBytes * ByteBits + ByteBits
      BY <1>1
    <3>5. QED
      BY <1>1, <2>3, <3>1, <3>2, <3>3, <3>4
  <2>5. QED
    BY <1>2, <1>4, <2>2, <2>3, <2>4 DEF r, n
<1>5. CASE r # 0
  <2>1. width + ByteBits - 1 = (q + 1) * ByteBits + (r - 1) /\ r - 1 \in 0..(ByteBits - 1)
    <3>1. (q + 1) * ByteBits = q * ByteBits + ByteBits
      BY <1>1, <1>2
    <3>2. q * ByteBits \in Nat
      BY <1>1, <1>2, Products
    <3>3. QED
      BY <1>1, <1>2, <1>5, <3>1, <3>2
  <2>2. n = q + 1 /\ q + 1 \in Nat
    <3>1. q + 1 \in Nat
      BY <1>2
    <3>2. \A p \in Nat, t \in 0..(ByteBits - 1) : width + ByteBits - 1 = p * ByteBits + t => n = p
      BY <1>1, <1>3, Division
    <3>3. QED
      BY <2>1, <3>1, <3>2
  <2>3. width = ByteBits * (n - 1) + r
    <3>1. n - 1 = q /\ q * ByteBits = ByteBits * q
      BY <1>1, <1>2, <2>2, Products
    <3>2. QED
      BY <1>2, <3>1
  <2>4. width <= WordBits <=> n <= WordBytes
    <3>1. q * ByteBits \in Nat /\ WordBytes * ByteBits \in Nat
      BY <1>1, <1>2, Products
    <3>2. q + 1 <= WordBytes => (q + 1) * ByteBits <= WordBytes * ByteBits
      BY <1>1, <1>2, <2>2, Products
    <3>3. WordBytes <= q => WordBytes * ByteBits <= q * ByteBits
      BY <1>1, <1>2, Products
    <3>4. (q + 1) * ByteBits = q * ByteBits + ByteBits
      BY <1>1, <1>2
    <3>5. QED
      BY <1>1, <1>2, <1>5, <2>2, <3>1, <3>2, <3>3, <3>4
  <2>5. n # 0
    BY <1>2, <2>2
  <2>6. QED
    BY <1>2, <1>5, <2>2, <2>3, <2>4, <2>5 DEF r, n
<1>6. QED
  BY <1>4, <1>5

\* A field's bytes have room for its bits.
LEMMA FieldBits ==
  ASSUME NEW width \in Nat
  PROVE  width <= ByteBits * Bytes(width) /\ ByteBits * Bytes(width) \in Nat
<1> DEFINE n == Bytes(width)
           r == width % ByteBits
<1>1. ByteBits \in Nat \ {0} /\ n \in Nat
  BY SizeAssumption, BytesFact
<1>2. r \in 0..(ByteBits - 1)
  BY <1>1, Division
<1>3. \/ width = ByteBits * n
      \/ n # 0 /\ width = ByteBits * (n - 1) + r
  BY BytesFact
<1> HIDE DEF n, r
<1>4. ByteBits * n \in Nat /\ (n # 0 => ByteBits * (n - 1) = ByteBits * n - ByteBits)
  BY <1>1
<1>5. QED
  BY <1>1, <1>2, <1>3, <1>4 DEF n

\* An array of a field's size has a number with as many bits if the first
\* byte has none that the field lacks.
LEMMA BytesFit ==
  ASSUME NEW width \in Nat, NEW bytes \in Seq(Byte), Len(bytes) = Bytes(width)
  PROVE  Number(bytes) < pow2[width]
           <=> (width % ByteBits # 0 => bytes[1] \div pow2[width % ByteBits] = 0)
<1> DEFINE n == Bytes(width)
           r == width % ByteBits
           b == bytes[1]
<1>1. n \in Nat /\ r \in Nat /\ ByteBits \in Nat /\ Number(bytes) \in Nat
  BY SizeAssumption, BytesFact, NumberBound
<1>2. CASE r = 0
  <2>1. pow2[width] = Place(Len(bytes))
    BY <1>2, BytesFact DEF Place
  <2>2. QED
    BY <1>2, <2>1, NumberBound
<1>3. CASE r # 0
  <2> DEFINE P == Place(n - 1)
             d == pow2[r]
             low == b * P
             high == (b + 1) * P
  <2>1. n # 0 /\ n - 1 \in Nat /\ width = ByteBits * (n - 1) + r
    <3>1. n # 0 /\ width = ByteBits * (n - 1) + r
      BY <1>3, BytesFact
    <3> HIDE DEF n
    <3>2. QED
      BY <1>1, <3>1
  <2>2. P \in Nat \ {0} /\ d \in Nat \ {0}
    BY <1>1, <2>1, PowDef, PlaceFact
  <2>3. pow2[width] = d * P
    <3>1. ByteBits * (n - 1) \in Nat
      BY <1>1, <2>1, Products
    <3>2. pow2[width] = P * d
      BY <1>1, <2>1, <3>1, PowAdd DEF Place
    <3>3. QED
      BY <2>2, <3>2, Products
  <2>4. low <= Number(bytes) /\ Number(bytes) < high
    BY <2>1, FirstByte
  <2>5. b \in Nat
    <3>1. 1 \in 1..Len(bytes)
      BY <1>1, <2>1
    <3>2. QED
      BY <3>1, ByteFact
  <2> HIDE DEF P, d, b
  <2>6. low \in Nat /\ high \in Nat /\ d * P \in Nat
    BY <2>2, <2>5, Products
  <2>7. CASE b < d
    <3>1. high <= d * P
      BY <2>2, <2>5, <2>7, Products
    <3>2. b \div d = 0
      <4>1. b = 0 * d + b /\ b \in 0..(d - 1)
        BY <2>2, <2>5, <2>7
      <4>2. QED
        BY <2>2, <2>5, <4>1, Division
    <3> HIDE DEF high, low
    <3>3. Number(bytes) < d * P
      BY <1>1, <2>4, <2>6, <3>1
    <3>4. QED
      BY <2>3, <3>2, <3>3 DEF b, d
  <2>8. CASE ~(b < d)
    <3>1. d * P <= low
      BY <2>2, <2>5, <2>8, Products
    <3>2. b \div d # 0
      <4>1. (b \div d) * d + (b % d) = b /\ b % d \in 0..(d - 1)
        BY <2>2, <2>5, Division
      <4>2. SUFFICES ASSUME b \div d = 0 PROVE FALSE
        OBVIOUS
      <4>3. b = 0 * d + (b % d)
        BY <4>1, <4>2
      <4>4. QED
        BY <2>2, <2>5, <2>8, <4>1, <4>3
    <3> HIDE DEF high, low
    <3>3. ~(Number(bytes) < d * P)
      BY <1>1, <2>4, <2>6, <3>1
    <3>4. QED
      BY <1>3, <2>3, <3>2, <3>3 DEF b, d
  <2>9. QED
    BY <2>7, <2>8
<1>4. QED
  BY <1>2, <1>3

-----------------------------------------------------------------------------

\* What an application passes: a word or an array of bytes.
IsValue(v) ==
  \E match \in MatchType :
    \/ \E n \in Word : v = WordValue(match, n)
    \/ \E a \in Array : v = BytesValue(match, a)

LEMMA ValueFact ==
  ASSUME NEW v, IsValue(v)
  PROVE  /\ v.isPointer \in BOOLEAN
         /\ v.isPointer => v.bytes \in Seq(Byte) /\ v.size = Len(v.bytes)
         /\ ~v.isPointer => v.word \in Nat /\ v.word < pow2[WordBits] /\ v.size = WordBytes
<1>1. PICK match \in MatchType : \/ \E n \in Word : v = WordValue(match, n)
                                 \/ \E a \in Array : v = BytesValue(match, a)
  BY DEF IsValue
<1>2. CASE \E n \in Word : v = WordValue(match, n)
  <2>1. PICK n \in Word : v = WordValue(match, n)
    BY <1>2
  <2>2. v.isPointer = FALSE /\ v.word = n /\ v.size = WordBytes
    BY <2>1 DEF WordValue
  <2>3. WordBits \in Nat
    BY SizeAssumption DEF WordBits
  <2>4. n \in Nat /\ n < pow2[WordBits]
    BY <2>3, PowDef DEF Word
  <2>5. QED
    BY <2>2, <2>4
<1>3. CASE \E a \in Array : v = BytesValue(match, a)
  <2>1. PICK a \in Array : v = BytesValue(match, a)
    BY <1>3
  <2>2. v.isPointer = TRUE /\ v.bytes = a /\ v.size = Len(a)
    BY <2>1 DEF BytesValue
  <2>3. PICK n \in Nat : a \in [1..n -> Byte]
    BY <2>1 DEF Array
  <2>4. a \in Seq(Byte)
    BY <2>3
  <2>5. QED
    BY <2>2, <2>4
<1>4. QED
  BY <1>1, <1>2, <1>3

\* The checks object to exactly the values that do not fit.
LEMMA VerdictFact ==
  ASSUME field.width \in Nat, NEW v, IsValue(v)
  PROVE  /\ Verdict(v) \in {"SUCCESS", "INVALID_ARG", "NOT_SUPPORTED"}
         /\ Verdict(v) = "SUCCESS" <=> Fits(v)
<1> DEFINE w == field.width
<1>1. /\ WordBytes \in Nat /\ WordBits \in Nat /\ Bytes(w) \in Nat
      /\ w <= WordBits <=> Bytes(w) <= WordBytes
  <2>1. WordBits \in Nat
    BY SizeAssumption, Products DEF WordBits
  <2>2. Bytes(w) \in Nat /\ (w <= WordBits <=> Bytes(w) <= WordBytes)
    BY BytesFact
  <2>3. QED
    BY <2>1, <2>2, SizeAssumption
<1>2. Verdict(v) \in {"SUCCESS", "INVALID_ARG", "NOT_SUPPORTED"}
  BY DEF Verdict, KeyFieldSafeGet
<1>3. CASE v.isPointer
  <2>1. v.bytes \in Seq(Byte) /\ v.size = Len(v.bytes)
    BY <1>3, ValueFact
  <2>2. FieldTypeCompatible(v.isPointer, v.size) <=> v.size = Bytes(w)
    BY <1>3 DEF FieldTypeCompatible
  <2>3. v.size = Bytes(w) => (InBounds(v) <=> Number(v.bytes) < pow2[w])
    <3>1. SUFFICES ASSUME v.size = Bytes(w)
                   PROVE  InBounds(v) <=> Number(v.bytes) < pow2[w]
      OBVIOUS
    <3>2. InBounds(v) <=> (w % ByteBits # 0 => v.bytes[1] \div pow2[w % ByteBits] = 0)
      BY <1>3, <3>1 DEF InBounds
    <3>3. QED
      BY <2>1, <3>1, <3>2, BytesFit
  <2>4. v.size = Bytes(w) =>
          (KeyFieldSafeGet(v) = "SUCCESS" <=> field.match \in {NoMatch, v.match})
    BY <1>1 DEF KeyFieldSafeGet, IsPtr
  <2>5. Fits(v) <=> /\ field.match \in {NoMatch, v.match} /\ v.size = Bytes(w)
                    /\ Number(v.bytes) < pow2[w]
    BY <1>3 DEF Fits, NumberOf
  <2>6. Verdict(v) = "SUCCESS" <=> /\ KeyFieldSafeGet(v) = "SUCCESS"
                                   /\ FieldTypeCompatible(v.isPointer, v.size) /\ InBounds(v)
    BY DEF Verdict
  <2>7. QED
    BY <1>2, <2>2, <2>3, <2>4, <2>5, <2>6
<1>4. CASE ~v.isPointer
  <2>1. v.word \in Nat /\ v.word < pow2[WordBits] /\ v.size = WordBytes
    BY <1>4, ValueFact
  <2>2. FieldTypeCompatible(v.isPointer, v.size) <=> w <= WordBits
    BY <1>4 DEF FieldTypeCompatible
  <2>3. w <= WordBits => (InBounds(v) <=> v.word < pow2[w])
    <3>1. InBounds(v) <=> (w < WordBits => v.word <= pow2[w] - 1)
      BY <1>4 DEF InBounds
    <3>2. pow2[w] \in Nat
      BY PowDef
    <3>3. w <= WordBits => w < WordBits \/ w = WordBits
      BY <1>1
    <3>4. v.word <= pow2[w] - 1 <=> v.word < pow2[w]
      BY <2>1, <3>2
    <3>5. QED
      BY <1>1, <2>1, <3>1, <3>3, <3>4
  <2>4. w <= WordBits =>
          (KeyFieldSafeGet(v) = "SUCCESS" <=> field.match \in {NoMatch, v.match})
    BY <1>1 DEF KeyFieldSafeGet, IsPtr
  <2>5. Fits(v) <=> /\ field.match \in {NoMatch, v.match} /\ w <= WordBits
                    /\ v.word < pow2[w]
    BY <1>4 DEF Fits, NumberOf
  <2>6. Verdict(v) = "SUCCESS" <=> /\ KeyFieldSafeGet(v) = "SUCCESS"
                                   /\ FieldTypeCompatible(v.isPointer, v.size) /\ InBounds(v)
    BY DEF Verdict
  <2>7. QED
    BY <1>2, <2>2, <2>3, <2>4, <2>5, <2>6
<1>5. QED
  BY <1>3, <1>4

\* What is kept has the number that was accepted.
Kept == stream # Null => stream \in Seq(Byte) /\ accepted = Number(stream)

ValuesInv == ValuesTypeOK /\ AcceptedIffFits /\ ReadsBack /\ Kept

LEMMA ValuesStart == ValuesInit => ValuesInv
<1> SUFFICES ASSUME ValuesInit PROVE ValuesInv
  OBVIOUS
<1>1. PICK type \in SchemaType, repeated \in BOOLEAN, match \in MatchType \union {NoMatch},
           n \in 0..MaxWidth :
        field = [type |-> DataTypeOf(type, repeated), width |-> FieldWidth(type, n),
                 match |-> match]
  BY DEF ValuesInit
<1>2. DataTypeOf(type, repeated) \in DataType
  BY DEF DataType
<1>3. FieldWidth(type, n) \in Nat
  <2>1. n \in Nat /\ n * ByteBits \in Nat
    BY SizeAssumption, Products
  <2>2. QED
    BY <2>1 DEF FieldWidth, SchemaType
<1>4. QED
  BY <1>1, <1>2, <1>3 DEF ValuesInit, ValuesInv, ValuesTypeOK, AcceptedIffFits, ReadsBack, Kept

\* A value that is accepted is kept whole.
LEMMA SetKeeps ==
  ASSUME ValuesInv, NEW v, IsValue(v), SetFieldValue(v)
  PROVE  ValuesInv'
<1> DEFINE w == field.width
           bytes == IF v.isPointer THEN v.bytes ELSE ToNetworkOrder(Bytes(w), v.word)
<1>1. field' = field /\ w \in Nat
  BY DEF ValuesInv, ValuesTypeOK, SetFieldValue
<1>2. sts' = Verdict(v) /\ fitted' = Fits(v) /\ out' = Null
  BY DEF SetFieldValue
<1>3. sts' \in {"SUCCESS", "INVALID_ARG", "NOT_SUPPORTED"} /\ (sts' = "SUCCESS" <=> Fits(v))
  BY <1>1, <1>2, VerdictFact
<1>4. Fits(v) \in BOOLEAN
  BY DEF Fits
<1>5. CASE sts' = "SUCCESS"
  <2>1. stream' = bytes /\ accepted' = NumberOf(v)
    BY <1>5 DEF SetFieldValue
  <2>2. bytes \in Seq(Byte) /\ Len(bytes) = Bytes(w) /\ Number(bytes) = NumberOf(v)
    <3>1. CASE v.isPointer
      BY <1>3, <1>5, <3>1, ValueFact DEF Fits, NumberOf
    <3>2. CASE ~v.isPointer
      <4>1. v.word \in Nat /\ w <= WordBits /\ v.word < pow2[w]
        BY <1>3, <1>5, <3>2, ValueFact DEF Fits, NumberOf
      <4>2. Bytes(w) \in 0..WordBytes
        <5>1. Bytes(w) \in Nat /\ Bytes(w) <= WordBytes
          BY <1>1, <4>1, BytesFact
        <5>2. QED
          BY <5>1, SizeAssumption
      <4>3. v.word < Place(Bytes(w))
        <5>1. w <= ByteBits * Bytes(w) /\ ByteBits * Bytes(w) \in Nat
          BY <1>1, FieldBits
        <5>2. pow2[w] <= Place(Bytes(w)) /\ pow2[w] \in Nat /\ Place(Bytes(w)) \in Nat
          BY <1>1, <5>1, PowGrows, PowDef DEF Place
        <5>3. QED
          BY <4>1, <5>2
      <4>4. QED
        BY <3>2, <4>1, <4>2, <4>3, NetworkOrder DEF NumberOf
    <3>3. QED
      BY <3>1, <3>2
  <2> HIDE DEF bytes
  <2>3. bytes # Null /\ NumberOf(v) \in Nat /\ NumberOf(v) # Null
    <3>1. Number(bytes) \in Nat
      BY <2>2, NumberBound
    <3>2. bytes \in Seq(Nat)
      BY <2>2, ByteFact
    <3>3. QED
      BY <2>2, <3>1, <3>2, SizeAssumption
  <2>4. \A i \in DOMAIN bytes : bytes[i] \in Byte
    BY <2>2
  <2>5. QED
    BY <1>1, <1>2, <1>3, <1>4, <1>5, <2>1, <2>2, <2>3, <2>4
       DEF ValuesInv, ValuesTypeOK, AcceptedIffFits, ReadsBack, Kept
<1>6. CASE sts' # "SUCCESS"
  <2>1. stream' = stream /\ accepted' = accepted
    BY <1>6 DEF SetFieldValue
  <2>2. QED
    BY <1>1, <1>2, <1>3, <1>4, <1>6, <2>1
       DEF ValuesInv, ValuesTypeOK, AcceptedIffFits, ReadsBack, Kept
<1>7. QED
  BY <1>5, <1>6

\* Reading gives the number that is kept.
LEMMA GetKeeps ==
  ASSUME ValuesInv, GetWord \/ GetBytes
  PROVE  ValuesInv'
<1>1. /\ stream # Null /\ field.width \in Nat
      /\ UNCHANGED <<field, stream, sts, accepted, fitted>>
      /\ stream \in Seq(Byte) /\ Len(stream) = Bytes(field.width) /\ accepted = Number(stream)
  BY DEF ValuesInv, ValuesTypeOK, Kept, GetWord, GetBytes
<1>2. out' = accepted
  <2>1. CASE GetWord
    <3>1. field.width <= WordBits /\ out' = ToHostOrder(stream)
      BY <2>1 DEF GetWord, FieldTypeCompatible
    <3>2. Len(stream) <= WordBytes
      BY <1>1, <3>1, BytesFact
    <3>3. QED
      BY <1>1, <3>1, <3>2, HostOrder
  <2>2. CASE GetBytes
    BY <1>1, <2>2 DEF GetBytes
  <2>3. QED
    BY <2>1, <2>2
<1>3. accepted \in Nat
  BY <1>1, NumberBound
<1>4. QED
  BY <1>1, <1>2, <1>3 DEF ValuesInv, ValuesTypeOK, AcceptedIffFits, ReadsBack, Kept

LEMMA ValuesStep ==
  ASSUME ValuesInv, [ValuesNext]_valueVars
  PROVE  ValuesInv'
<1>1. ASSUME NEW match \in MatchType, NEW n \in Word, SetFieldValue(WordValue(match, n))
      PROVE  ValuesInv'
  BY <1>1, SetKeeps DEF IsValue
<1>2. ASSUME NEW match \in MatchType, NEW a \in Array, SetFieldValue(BytesValue(match, a))
      PROVE  ValuesInv'
  BY <1>2, SetKeeps DEF IsValue
<1>3. CASE GetWord \/ GetBytes
  BY <1>3, GetKeeps
<1>4. CASE UNCHANGED valueVars
  BY <1>4 DEF valueVars, ValuesInv, ValuesTypeOK, AcceptedIffFits, ReadsBack, Kept
<1>5. QED
  BY <1>1, <1>2, <1>3, <1>4 DEF ValuesNext

THEOREM ValuesInductive == ValuesSpec => []ValuesInv
  BY ValuesStart, ValuesStep, PTL DEF ValuesSpec

\* The variables have their types; what is kept has the size of the field,
\* whichever way it came, for any size of bytes and words.
THEOREM ValuesTypeCorrect == ValuesSpec => []ValuesTypeOK
<1>1. ValuesInv => ValuesTypeOK
  BY DEF ValuesInv
<1>2. QED
  BY <1>1, ValuesInductive, PTL

\* The helpers accept exactly the values that fit: those with no more bits than
\* the field, for every width, and the key's match type.
THEOREM AcceptedExactly == ValuesSpec => []AcceptedIffFits
<1>1. ValuesInv => AcceptedIffFits
  BY DEF ValuesInv
<1>2. QED
  BY <1>1, ValuesInductive, PTL

\* A value is read back as it was set, through either conversion of byte order.
THEOREM ReadBack == ValuesSpec => []ReadsBack
<1>1. ValuesInv => ReadsBack
  BY DEF ValuesInv
<1>2. QED
  BY <1>1, ValuesInductive, PTL
=============================================================================
