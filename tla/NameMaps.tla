------------------------------ MODULE NameMaps ------------------------------
(***************************************************************************)
(* How TdiInfo turns the objects a parser hands it into the maps behind    *)
(* tableFromNameGet and tableFromIdGet (and the same for Learn objects):   *)
(* the constructor's loop over the parser's map, which builds objects and  *)
(* registers their ids, and populateFullNameMap, which lets every object   *)
(* be found by any unambiguous partially qualified name.                   *)
(*                                                                         *)
(* A name is the sequence of its dot-separated tokens, so "pipe.SI.fwd" is *)
(* <<pipe, SI, fwd>>.  A token may be the empty string (EmptyToken): the   *)
(* schema is a text file and nothing checks how a name in it is spelt.  An *)
(* object is identified by the key it has in the parser's map.             *)
(***************************************************************************)
EXTENDS Naturals, Sequences, FiniteSets

CONSTANTS
  Token,            \* what may stand between two dots of a name
  EmptyToken,       \* the empty string
  Name,             \* the names the schema files may give to objects
  Id,               \* object ids
  MaxObjects,       \* bound of the model: objects in one schema
  Precedes(_, _)    \* the order in which std::map iterates over its keys

ASSUME NameAssumption ==
  /\ EmptyToken \in Token
  /\ Name \subseteq Seq(Token) \ {<<>>}

VARIABLES
  infoMap,          \* the parser's map: object name -> object id
  phase,            \* where the constructor is
  todo,             \* keys the running loop has not reached yet
  objMap,           \* tableMap / learnMap: the objects that were built
  idMap,            \* tableIdMap / learnIdMap: id -> object
  fullMap,          \* fullTableMap / fullLearnMap: name -> object
  namesToRemove     \* names seen for a second time

vars == <<infoMap, phase, todo, objMap, idMap, fullMap, namesToRemove>>

Phase == {"build", "claim", "done"}

EmptyMap == [x \in {} |-> x]

-----------------------------------------------------------------------------

(***************************************************************************)
(* generateUniqueNames walks the tokens from the right and keeps the last  *)
(* name it produced.  An empty last name cannot be told from "no name      *)
(* yet", so empty tokens at the end of a name are not joined to the ones   *)
(* before them.                                                            *)
(***************************************************************************)
JoinToken(token, lastName) ==
  IF lastName = <<EmptyToken>> THEN <<token>> ELSE <<token>> \o lastName

\* The name last_token holds after the walk has gone from the right end of
\* the name down to token i.
LastName(name) ==
  LET last[i \in 1..(Len(name) + 1)] ==
        IF i = Len(name) + 1
        THEN <<EmptyToken>>
        ELSE JoinToken(name[i], last[i + 1])
  IN  last

GenerateUniqueNames(name) == {LastName(name)[i] : i \in 1..Len(name)}

-----------------------------------------------------------------------------

Init ==
  /\ \E keys \in SUBSET Name :
       /\ Cardinality(keys) <= MaxObjects
       /\ infoMap \in [keys -> Id]
  /\ phase = "build"
  /\ todo = DOMAIN infoMap
  /\ objMap = {}
  /\ idMap = EmptyMap
  /\ fullMap = EmptyMap
  /\ namesToRemove = {}

\* A loop over a std::map takes the keys in order.
IsNext(name) ==
  /\ name \in todo
  /\ \A other \in todo \ {name} : Precedes(name, other)

\* Mutation: the last object of an id owns it.
RegisterId_LastWins(name) ==
  idMap' = [i \in DOMAIN idMap \union {infoMap[name]} |->
              IF i = infoMap[name] THEN name ELSE idMap[i]]

\* An id that is taken stays with its first owner.
RegisterId(name) ==
  IF infoMap[name] \in DOMAIN idMap
  THEN UNCHANGED idMap
  ELSE idMap' = [i \in DOMAIN idMap \union {infoMap[name]} |->
                   IF i \in DOMAIN idMap THEN idMap[i] ELSE name]

\* One turn of the constructor's loop.  The factory may decline to make an
\* object of a type it does not know (makeTable returns null).
MakeObject(name) ==
  /\ phase = "build"
  /\ IsNext(name)
  /\ todo' = todo \ {name}
  /\ \/ UNCHANGED <<objMap, idMap>>
     \/ /\ objMap' = objMap \union {name}
        /\ RegisterId(name)
  /\ UNCHANGED <<infoMap, phase, fullMap, namesToRemove>>

\* Mutation: names are claimed for every object of the schema, built or not.
StartNames_AllKeys ==
  /\ phase = "build"
  /\ todo = {}
  /\ phase' = "claim"
  /\ todo' = DOMAIN infoMap
  /\ UNCHANGED <<infoMap, objMap, idMap, fullMap, namesToRemove>>

\* populateFullNameMap is called on the objects that were built.
StartNames ==
  /\ phase = "build"
  /\ todo = {}
  /\ phase' = "claim"
  /\ todo' = objMap
  /\ UNCHANGED <<infoMap, objMap, idMap, fullMap, namesToRemove>>

\* Mutation: the name is dropped at once instead of being remembered, so a
\* third claimant finds it free.
ClaimNames_EraseAtOnce(name) ==
  LET claimed == GenerateUniqueNames(name)
      taken == claimed \intersect DOMAIN fullMap
  IN  /\ phase = "claim"
      /\ IsNext(name)
      /\ todo' = todo \ {name}
      /\ fullMap' = [n \in (DOMAIN fullMap \union claimed) \ taken |->
                       IF n \in DOMAIN fullMap THEN fullMap[n] ELSE name]
      /\ UNCHANGED <<infoMap, phase, objMap, idMap, namesToRemove>>

\* One object's names: those nobody has claimed go to it, the others are
\* remembered as ambiguous.
ClaimNames(name) ==
  LET claimed == GenerateUniqueNames(name)
      taken == claimed \intersect DOMAIN fullMap
  IN  /\ phase = "claim"
      /\ IsNext(name)
      /\ todo' = todo \ {name}
      /\ fullMap' = [n \in DOMAIN fullMap \union claimed |->
                       IF n \in DOMAIN fullMap THEN fullMap[n] ELSE name]
      /\ namesToRemove' = namesToRemove \union taken
      /\ UNCHANGED <<infoMap, phase, objMap, idMap>>

\* Mutation: the ambiguous names stay with their first claimant.
RemoveNames_Kept ==
  /\ phase = "claim"
  /\ todo = {}
  /\ phase' = "done"
  /\ UNCHANGED <<infoMap, todo, objMap, idMap, fullMap, namesToRemove>>

\* The ambiguous names leave the map, and the object is complete.
RemoveNames ==
  /\ phase = "claim"
  /\ todo = {}
  /\ phase' = "done"
  /\ fullMap' = [n \in DOMAIN fullMap \ namesToRemove |-> fullMap[n]]
  /\ UNCHANGED <<infoMap, todo, objMap, idMap, namesToRemove>>

Next ==
  \/ \E name \in Name : MakeObject(name)
  \/ StartNames
  \/ \E name \in Name : ClaimNames(name)
  \/ RemoveNames

Spec == Init /\ [][Next]_vars

-----------------------------------------------------------------------------

\* The objects among S that claim a name.
Claimants(n, S) == {t \in S : n \in GenerateUniqueNames(t)}

\* What tableFromNameGet and learnFromNameGet answer.  (The former first looks
\* into invalid_table_names and would answer INVALID_ARG for a name in it; that
\* set is private to TdiInfo, and nothing ever puts a name into it.)
FromNameGet(n) ==
  IF n \in DOMAIN fullMap
  THEN [status |-> "SUCCESS", obj |-> fullMap[n]]
  ELSE [status |-> "OBJECT_NOT_FOUND", obj |-> <<>>]

\* What tableFromIdGet and learnFromIdGet answer.
FromIdGet(id) ==
  IF id \in DOMAIN idMap
  THEN [status |-> "SUCCESS", obj |-> idMap[id]]
  ELSE [status |-> "OBJECT_NOT_FOUND", obj |-> <<>>]

-----------------------------------------------------------------------------

(***************************************************************************)
(* Properties.                                                             *)
(***************************************************************************)

\* Every map holds what its C++ type says, and points only at built objects.
TypeOK ==
  /\ DOMAIN infoMap \subseteq Name
  /\ infoMap \in [DOMAIN infoMap -> Id]
  /\ phase \in Phase
  /\ todo \subseteq DOMAIN infoMap
  /\ objMap \subseteq DOMAIN infoMap
  /\ DOMAIN idMap \subseteq Id
  /\ idMap \in [DOMAIN idMap -> objMap]
  /\ fullMap \in [DOMAIN fullMap -> objMap]

\* Once the constructor is through, a name finds an object exactly when that
\* object is the only built one the name can stand for: whatever the order
\* of the keys, however many objects share the name, and whatever names the
\* objects that could not be built would have had.
ResolvesUniqueClaimant ==
  phase = "done" =>
    /\ \A n \in DOMAIN fullMap : Claimants(n, objMap) = {fullMap[n]}
    /\ \A t \in objMap : \A n \in GenerateUniqueNames(t) :
         Claimants(n, objMap) = {t} => n \in DOMAIN fullMap

\* Every built object's id finds an object with that id, the first of them
\* in key order; later objects that repeat the id stay reachable by name only.
IdBelongsToFirst ==
  phase # "build" =>
    \A t \in objMap :
      LET owner == FromIdGet(infoMap[t]).obj
      IN  /\ owner \in objMap
          /\ infoMap[owner] = infoMap[t]
          /\ owner = t \/ Precedes(owner, t)

-----------------------------------------------------------------------------

(***************************************************************************)
(* What TdiInfo promises, without the loops: see NameResolution.           *)
(***************************************************************************)
Resolution ==
  INSTANCE NameResolution WITH
    Object <- Name,
    NamesOf <- GenerateUniqueNames,
    built <- objMap,
    published <- phase = "done",
    resolve <- IF phase = "done" THEN fullMap ELSE EmptyMap

\* The constructor implements the abstract registry: objects are built one
\* at a time and then all names become visible at once, already unambiguous.
ImplementsResolution == Resolution!Spec
=============================================================================
