--------------------------- MODULE NameMaps_proofs ---------------------------
(***************************************************************************)
(* Proofs about NameMaps, for every set of names, every order of the keys  *)
(* and any number of objects.  Nothing here depends on how a name is cut   *)
(* into partial names: GenerateUniqueNames is never expanded.              *)
(***************************************************************************)
EXTENDS NameMaps, TLAPS

(***************************************************************************)
(* The inductive invariant.  Seen is the part of the objects the claiming  *)
(* loop has been through.                                                  *)
(***************************************************************************)
Seen == objMap \ todo

\* What the two loops rely on while they run.
LoopInv ==
  /\ phase = "build" =>
       /\ fullMap = EmptyMap
       /\ namesToRemove = {}
       /\ \A x \in DOMAIN infoMap \ todo, y \in todo : Precedes(x, y)
       /\ objMap \subseteq DOMAIN infoMap \ todo
  /\ phase = "claim" => todo \subseteq objMap

\* The id map holds, for every built object, the first object of that id.
IdInv ==
  /\ \A i \in DOMAIN idMap : infoMap[idMap[i]] = i
  /\ \A t \in objMap :
       /\ infoMap[t] \in DOMAIN idMap
       /\ idMap[infoMap[t]] = t \/ Precedes(idMap[infoMap[t]], t)

\* While names are claimed, the map holds every claimed name with one of its
\* claimants, and namesToRemove the ones with a second claimant.
ClaimInv ==
  phase = "claim" =>
    /\ \A t \in Seen : GenerateUniqueNames(t) \subseteq DOMAIN fullMap
    /\ \A n \in DOMAIN fullMap : fullMap[n] \in Claimants(n, Seen)
    /\ namesToRemove \subseteq DOMAIN fullMap
    /\ \A n \in DOMAIN fullMap :
         n \in namesToRemove <=> \E t, u \in Claimants(n, Seen) : t # u

IInv == TypeOK /\ LoopInv /\ IdInv /\ ClaimInv /\ ResolvesUniqueClaimant

-----------------------------------------------------------------------------

LEMMA InitIInv == Init => IInv
<1> SUFFICES ASSUME Init PROVE IInv
  OBVIOUS
<1>1. TypeOK
  BY DEF Init, TypeOK, Phase, EmptyMap
<1>2. LoopInv
  BY DEF Init, LoopInv
<1>3. IdInv
  BY DEF Init, IdInv, EmptyMap
<1>4. ClaimInv /\ ResolvesUniqueClaimant
  BY DEF Init, ClaimInv, ResolvesUniqueClaimant
<1>5. QED
  BY <1>1, <1>2, <1>3, <1>4 DEF IInv

\* One turn of the building loop.
LEMMA MakeObjectIInv ==
  ASSUME IInv, NEW name \in Name, MakeObject(name)
  PROVE  IInv'
<1> USE DEF IInv
<1>0. /\ phase = "build" /\ phase' = "build"
      /\ name \in todo /\ name \in DOMAIN infoMap
      /\ infoMap[name] \in Id
      /\ \A other \in todo \ {name} : Precedes(name, other)
      /\ todo' = todo \ {name}
      /\ infoMap' = infoMap /\ fullMap' = fullMap /\ namesToRemove' = namesToRemove
  BY DEF MakeObject, IsNext, TypeOK
<1>1. /\ fullMap' = EmptyMap /\ namesToRemove' = {}
      /\ \A x \in DOMAIN infoMap' \ todo', y \in todo' : Precedes(x, y)
  BY <1>0 DEF LoopInv
<1>2. CASE UNCHANGED <<objMap, idMap>>
  <2>1. TypeOK'
    BY <1>0, <1>2 DEF TypeOK
  <2>2. LoopInv'
    BY <1>0, <1>1, <1>2 DEF LoopInv
  <2>3. IdInv'
    BY <1>0, <1>2 DEF IdInv
  <2>4. QED
    BY <1>0, <2>1, <2>2, <2>3 DEF ClaimInv, ResolvesUniqueClaimant
<1>3. CASE objMap' = objMap \union {name} /\ RegisterId(name)
  <2>1. LoopInv'
    BY <1>0, <1>1, <1>3 DEF LoopInv
  <2>2. CASE infoMap[name] \in DOMAIN idMap
    <3>1. idMap' = idMap
      BY <1>3, <2>2 DEF RegisterId
    <3>2. idMap[infoMap[name]] \in objMap
      BY <2>2 DEF TypeOK
    <3>3. Precedes(idMap[infoMap[name]], name)
      BY <1>0, <3>2 DEF LoopInv
    <3>4. TypeOK'
      BY <1>0, <1>3, <3>1, <1>1 DEF TypeOK, EmptyMap
    <3>5. IdInv'
      BY <1>0, <1>3, <2>2, <3>1, <3>3 DEF IdInv
    <3>6. QED
      BY <1>0, <2>1, <3>4, <3>5 DEF ClaimInv, ResolvesUniqueClaimant
  <2>3. CASE infoMap[name] \notin DOMAIN idMap
    <3>1. idMap' = [i \in DOMAIN idMap \union {infoMap[name]} |->
                      IF i \in DOMAIN idMap THEN idMap[i] ELSE name]
      BY <1>3, <2>3 DEF RegisterId
    <3>2. TypeOK'
      <4>1. idMap' \in [DOMAIN idMap' -> objMap']
        BY <1>3, <3>1 DEF TypeOK
      <4>2. DOMAIN idMap' \subseteq Id
        BY <1>0, <3>1 DEF TypeOK
      <4>3. fullMap' \in [DOMAIN fullMap' -> objMap']
        BY <1>1 DEF EmptyMap
      <4>4. QED
        BY <1>0, <1>3, <4>1, <4>2, <4>3 DEF TypeOK
    <3>3. \A i \in DOMAIN idMap' : infoMap'[idMap'[i]] = i
      BY <1>0, <3>1 DEF IdInv
    <3>4. \A t \in objMap' :
            /\ infoMap'[t] \in DOMAIN idMap'
            /\ idMap'[infoMap'[t]] = t \/ Precedes(idMap'[infoMap'[t]], t)
      <4>1. infoMap'[name] \in DOMAIN idMap' /\ idMap'[infoMap'[name]] = name
        BY <1>0, <2>3, <3>1
      <4>2. ASSUME NEW t \in objMap
            PROVE  /\ infoMap'[t] \in DOMAIN idMap'
                   /\ idMap'[infoMap'[t]] = t \/ Precedes(idMap'[infoMap'[t]], t)
        <5>1. /\ infoMap[t] \in DOMAIN idMap
              /\ idMap[infoMap[t]] = t \/ Precedes(idMap[infoMap[t]], t)
          BY DEF IdInv
        <5>2. infoMap[t] \in DOMAIN idMap' /\ idMap'[infoMap[t]] = idMap[infoMap[t]]
          BY <3>1, <5>1
        <5>3. QED
          BY <1>0, <5>1, <5>2
      <4>3. QED
        BY <1>3, <4>1, <4>2
    <3>5. QED
      BY <1>0, <2>1, <3>2, <3>3, <3>4 DEF IdInv, ClaimInv, ResolvesUniqueClaimant
  <2>4. QED
    BY <2>2, <2>3
<1>4. QED
  BY <1>2, <1>3 DEF MakeObject

LEMMA StartNamesIInv ==
  ASSUME IInv, StartNames
  PROVE  IInv'
<1> USE DEF IInv
<1>1. TypeOK' /\ LoopInv' /\ IdInv'
  BY DEF StartNames, TypeOK, LoopInv, IdInv, Phase
<1>2. ClaimInv'
  <2>1. Seen' = {} /\ fullMap' = EmptyMap /\ namesToRemove' = {}
    BY DEF StartNames, Seen, LoopInv
  <2>2. QED
    BY <2>1 DEF ClaimInv, EmptyMap
<1>3. ResolvesUniqueClaimant'
  BY DEF StartNames, ResolvesUniqueClaimant
<1>4. QED
  BY <1>1, <1>2, <1>3

\* One turn of the claiming loop.
LEMMA ClaimNamesIInv ==
  ASSUME IInv, NEW name \in Name, ClaimNames(name)
  PROVE  IInv'
<1> USE DEF IInv
<1> DEFINE claimed == GenerateUniqueNames(name)
           taken == claimed \intersect DOMAIN fullMap
<1>1. /\ phase = "claim" /\ phase' = "claim"
      /\ name \in todo /\ name \in objMap /\ name \in DOMAIN infoMap
      /\ todo' = todo \ {name}
      /\ namesToRemove' = namesToRemove \union taken
      /\ infoMap' = infoMap /\ objMap' = objMap /\ idMap' = idMap
  BY DEF ClaimNames, IsNext, LoopInv, TypeOK
<1>2. fullMap' = [n \in DOMAIN fullMap \union claimed |->
                    IF n \in DOMAIN fullMap THEN fullMap[n] ELSE name]
  BY DEF ClaimNames
<1>3. Seen' = Seen \union {name} /\ name \notin Seen
  BY <1>1 DEF Seen
<1>4. \A n : Claimants(n, Seen') =
               Claimants(n, Seen) \union (IF n \in claimed THEN {name} ELSE {})
  BY <1>3 DEF Claimants
<1> HIDE DEF claimed
<1>5. TypeOK'
  BY <1>1, <1>2 DEF TypeOK
<1>6. LoopInv' /\ IdInv' /\ ResolvesUniqueClaimant'
  BY <1>1 DEF LoopInv, IdInv, ResolvesUniqueClaimant
<1>7. ClaimInv'
  <2>1. \A t \in Seen' : GenerateUniqueNames(t) \subseteq DOMAIN fullMap'
    BY <1>1, <1>2, <1>3 DEF ClaimInv, claimed
  <2>2. \A n \in DOMAIN fullMap' : fullMap'[n] \in Claimants(n, Seen')
    BY <1>1, <1>2, <1>4 DEF ClaimInv
  <2>3. namesToRemove' \subseteq DOMAIN fullMap'
    BY <1>1, <1>2 DEF ClaimInv
  <2>4. ASSUME NEW n \in DOMAIN fullMap'
        PROVE  n \in namesToRemove' <=> \E t, u \in Claimants(n, Seen') : t # u
    <3>1. CASE n \in DOMAIN fullMap /\ n \in claimed
      <4>1. n \in namesToRemove'
        BY <1>1, <3>1
      <4>2. fullMap[n] \in Claimants(n, Seen) /\ fullMap[n] # name
        BY <1>1, <1>3, <3>1 DEF ClaimInv, Claimants
      <4>3. QED
        BY <1>4, <3>1, <4>1, <4>2
    <3>2. CASE n \in DOMAIN fullMap /\ n \notin claimed
      BY <1>1, <1>4, <3>2 DEF ClaimInv
    <3>3. CASE n \notin DOMAIN fullMap
      <4>1. n \in claimed /\ n \notin namesToRemove'
        BY <1>1, <1>2, <3>3 DEF ClaimInv
      <4>2. Claimants(n, Seen) = {}
        BY <1>1, <3>3 DEF ClaimInv, Claimants
      <4>3. QED
        BY <1>4, <4>1, <4>2
    <3>4. QED
      BY <3>1, <3>2, <3>3
  <2>5. QED
    BY <2>1, <2>2, <2>3, <2>4 DEF ClaimInv
<1>8. QED
  BY <1>5, <1>6, <1>7

LEMMA RemoveNamesIInv ==
  ASSUME IInv, RemoveNames
  PROVE  IInv'
<1> USE DEF IInv
<1>1. /\ phase = "claim" /\ todo = {} /\ phase' = "done"
      /\ fullMap' = [n \in DOMAIN fullMap \ namesToRemove |-> fullMap[n]]
      /\ infoMap' = infoMap /\ todo' = todo /\ objMap' = objMap /\ idMap' = idMap
  BY DEF RemoveNames
<1>2. Seen = objMap
  BY <1>1 DEF Seen
<1>3. TypeOK' /\ LoopInv' /\ IdInv' /\ ClaimInv'
  BY <1>1 DEF TypeOK, Phase, LoopInv, IdInv, ClaimInv
<1>4. ASSUME NEW n \in DOMAIN fullMap'
      PROVE  Claimants(n, objMap) = {fullMap'[n]}
  <2>1. fullMap'[n] \in Claimants(n, objMap) /\ ~ \E t, u \in Claimants(n, objMap) : t # u
    BY <1>1, <1>2 DEF ClaimInv
  <2>2. QED
    BY <2>1
<1>5. ASSUME NEW t \in objMap, NEW n \in GenerateUniqueNames(t), Claimants(n, objMap) = {t}
      PROVE  n \in DOMAIN fullMap'
  BY <1>1, <1>2, <1>5 DEF ClaimInv
<1>6. ResolvesUniqueClaimant'
  BY <1>1, <1>4, <1>5 DEF ResolvesUniqueClaimant
<1>7. QED
  BY <1>3, <1>6

LEMMA StutterIInv == IInv /\ UNCHANGED vars => IInv'
<1> SUFFICES ASSUME IInv, UNCHANGED vars PROVE IInv'
  OBVIOUS
<1> USE DEF IInv, vars
<1>1. TypeOK' /\ LoopInv' /\ IdInv' /\ ResolvesUniqueClaimant'
  BY DEF TypeOK, LoopInv, IdInv, ResolvesUniqueClaimant, Claimants
<1>2. ClaimInv'
  BY DEF ClaimInv, Claimants, Seen
<1>3. QED
  BY <1>1, <1>2

\* The strengthened invariant holds throughout the construction.
THEOREM Inductive == Spec => []IInv
<1>1. IInv /\ [Next]_vars => IInv'
  BY MakeObjectIInv, StartNamesIInv, ClaimNamesIInv, RemoveNamesIInv, StutterIInv DEF Next
<1>2. QED
  BY InitIInv, <1>1, PTL DEF Spec

-----------------------------------------------------------------------------

\* The maps hold what their types say and point only at built objects.
THEOREM TypeCorrect == Spec => []TypeOK
BY Inductive, PTL DEF IInv

\* A finished TdiInfo resolves a name exactly when one built object can be
\* meant by it, and to that object: for any schema and any key order.
THEOREM UniqueClaimant == Spec => []ResolvesUniqueClaimant
BY Inductive, PTL DEF IInv

\* An id finds the first object of that id in key order, and the id of every
\* built object finds an object.
THEOREM IdOwner == Spec => []IdBelongsToFirst
<1>1. IInv => IdBelongsToFirst
  BY DEF IInv, TypeOK, IdInv, IdBelongsToFirst, FromIdGet
<1>2. QED
  BY Inductive, <1>1, PTL

-----------------------------------------------------------------------------

(***************************************************************************)
(* Refinement: building an object is Collect (or a stutter, when the       *)
(* factory declines), claiming names is a stutter, and RemoveNames is      *)
(* Publish.                                                                *)
(***************************************************************************)

LEMMA PublishStep ==
  ASSUME IInv, IInv', RemoveNames
  PROVE  Resolution!Publish
<1>1. /\ phase = "claim" /\ phase' = "done" /\ objMap' = objMap
      /\ \A n \in DOMAIN fullMap' : Claimants(n, objMap) = {fullMap'[n]}
      /\ \A t \in objMap : \A n \in GenerateUniqueNames(t) :
           Claimants(n, objMap) = {t} => n \in DOMAIN fullMap'
      /\ fullMap' = [n \in DOMAIN fullMap' |-> fullMap'[n]]
  BY DEF IInv, RemoveNames, ResolvesUniqueClaimant
<1>2. ASSUME NEW n, NEW o \in objMap
      PROVE  Claimants(n, objMap) = {o} <=>
               \A p \in objMap : n \in GenerateUniqueNames(p) <=> p = o
  BY DEF Claimants
<1>3. DOMAIN fullMap' = Resolution!Unambiguous(objMap)
  <2>1. ASSUME NEW n \in DOMAIN fullMap'
        PROVE  n \in Resolution!Unambiguous(objMap)
    <3>1. fullMap'[n] \in objMap /\ n \in GenerateUniqueNames(fullMap'[n])
      BY <1>1 DEF Claimants
    <3>2. QED
      BY <1>1, <1>2, <3>1 DEF Resolution!Unambiguous, Resolution!AllNames
  <2>2. ASSUME NEW n \in Resolution!Unambiguous(objMap)
        PROVE  n \in DOMAIN fullMap'
    <3>1. PICK o \in objMap : \A p \in objMap : n \in GenerateUniqueNames(p) <=> p = o
      BY DEF Resolution!Unambiguous
    <3>2. QED
      BY <1>1, <1>2, <3>1
  <2>3. QED
    BY <2>1, <2>2
<1>4. ASSUME NEW n \in DOMAIN fullMap'
      PROVE  fullMap'[n] = CHOOSE o \in objMap : n \in GenerateUniqueNames(o)
  <2>1. Claimants(n, objMap) = {fullMap'[n]}
    BY <1>1
  <2>2. \A o \in objMap : n \in GenerateUniqueNames(o) <=> o = fullMap'[n]
    BY <2>1 DEF Claimants
  <2>3. fullMap'[n] \in objMap
    BY <2>1 DEF Claimants
  <2>4. QED
    BY <2>2, <2>3
<1>5. QED
  BY <1>1, <1>3, <1>4 DEF Resolution!Publish

\* The construction implements the abstract registry of unambiguous names.
THEOREM Refinement == Spec => ImplementsResolution
<1>1. Init => Resolution!Init
  BY DEF Init, Resolution!Init, EmptyMap
<1>2. IInv /\ IInv' /\ [Next]_vars => [Resolution!Next]_(Resolution!vars)
  <2> SUFFICES ASSUME IInv, IInv', [Next]_vars
               PROVE  [Resolution!Next]_(Resolution!vars)
    OBVIOUS
  <2>1. ASSUME NEW name \in Name, MakeObject(name)
        PROVE  [Resolution!Next]_(Resolution!vars)
    BY <2>1 DEF MakeObject, Resolution!Next, Resolution!Collect, Resolution!vars
  <2>2. ASSUME NEW name \in Name, ClaimNames(name)
        PROVE  UNCHANGED Resolution!vars
    BY <2>2 DEF ClaimNames, Resolution!vars
  <2>3. CASE StartNames
    BY <2>3 DEF StartNames, Resolution!vars
  <2>4. CASE RemoveNames
    BY <2>4, PublishStep DEF Resolution!Next
  <2>5. CASE UNCHANGED vars
    BY <2>5 DEF vars, Resolution!vars
  <2>6. QED
    BY <2>1, <2>2, <2>3, <2>4, <2>5 DEF Next
<1>3. QED
  BY Inductive, <1>1, <1>2, PTL DEF Spec, ImplementsResolution, Resolution!Spec
=============================================================================
