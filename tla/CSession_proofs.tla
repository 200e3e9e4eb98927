--------------------------- MODULE CSession_proofs ---------------------------
(***************************************************************************)
(* Proofs about CSession, for any number of threads, sessions and          *)
(* addresses.                                                              *)
(***************************************************************************)
EXTENDS CSession, TLAPS

\* Every session somebody may come back to has been given an address, so
\* that the next one created is none of them.
Placed ==
  /\ \A s \in Held \union usable \union destroyed : addrOf[s] \in Addr
  /\ \A t \in Thread : arg[t] # NoSession => addrOf[arg[t]] \in Addr

\* The sessions whose entry in the map somebody relies on.
Entries ==
  /\ \A s \in usable : Registered(s)
  /\ \A t \in Thread :
       pc[t] \in {"operate", "destroy", "remove"} => arg[t] \in Session /\ Registered(arg[t])
  /\ \A t \in Thread : pc[t] = "created" => ref[t] \in Session /\ Registered(ref[t])

\* A session on its way into the map is not there yet.
Inserting ==
  \A t \in Thread :
    pc[t] = "insert" =>
      ref[t] \in Session /\ \A a \in DOMAIN stateMap : stateMap[a] # ref[t]

\* Who may be busy with one session at a time: creators and destroyers are
\* alone with it, an operation leaves it usable.
Exclusive ==
  /\ usable \intersect destroyed = {}
  /\ \A t \in Thread :
       pc[t] \in {"insert", "created"} =>
         /\ ref[t] \notin usable \union destroyed
         /\ \A u \in Thread : u # t /\ pc[u] \in {"insert", "created"} => ref[u] # ref[t]
         /\ \A u \in Thread : pc[u] \in {"destroy", "remove"} => arg[u] # ref[t]
  /\ \A t \in Thread : pc[t] = "operate" => arg[t] \in usable
  /\ \A t \in Thread :
       pc[t] \in {"destroy", "remove"} =>
         /\ arg[t] \notin usable \union destroyed
         /\ \A u \in Thread : u # t => ~Touches(u, arg[t])

\* A learn call's handle was usable when it began; since then its session
\* may at most have been destroyed.
Learning ==
  \A t \in Thread :
    pc[t] \in {"lookup", "learn"} =>
      \/ arg[t] \in usable \union destroyed
      \/ \E u \in Thread : pc[u] \in {"destroy", "remove"} /\ arg[u] = arg[t]

IInv ==
  /\ TypeOK
  /\ AddressesDistinct
  /\ Placed
  /\ Entries
  /\ Inserting
  /\ Exclusive
  /\ NoEntryLeftBehind
  /\ Learning
  /\ LearnFindsSession

-----------------------------------------------------------------------------

\* What it takes to be held.
LEMMA HeldBy ==
  ASSUME NEW s
  PROVE  s \in Held <=>
           /\ s # NoSession
           /\ \/ \E a \in DOMAIN stateMap : stateMap[a] = s
              \/ \E t \in Thread : ref[t] = s
              \/ s \in learnRefs
BY DEF Held

\* The same after a step.
LEMMA HeldByNext ==
  ASSUME NEW s
  PROVE  s \in Held' <=>
           /\ s # NoSession
           /\ \/ \E a \in DOMAIN stateMap' : stateMap'[a] = s
              \/ \E t \in Thread : ref'[t] = s
              \/ s \in learnRefs'
BY DEF Held

LEMMA InitIInv == Init => IInv
<1>1. SUFFICES ASSUME Init PROVE IInv
  OBVIOUS
<1>2. Held = {}
  BY <1>1 DEF Init, Held, EmptyMap
<1>3. DOMAIN stateMap = {}
  BY <1>1 DEF Init, EmptyMap
<1>4. TypeOK
  BY <1>1, <1>3 DEF Init, TypeOK, PC, EmptyMap
<1>5. QED
  BY <1>1, <1>2, <1>3, <1>4
  DEF Init, IInv, AddressesDistinct, Placed, Entries, Inserting, Exclusive,
      NoEntryLeftBehind, Learning, LearnFindsSession

-----------------------------------------------------------------------------

\* A new session is none of those known, and its place was free.
LEMMA CreateSessionIInv ==
  ASSUME IInv, NEW t \in Thread, NEW s \in Session, NEW a \in Addr, CreateSession(t, s, a)
  PROVE  IInv'
<1> USE NullAssumption
<1>1. TypeOK'
  BY DEF IInv, TypeOK, CreateSession, PC
<1>2. /\ s \notin Held \union usable \union destroyed
      /\ \A u \in Thread : arg[u] # s /\ ref[u] # s
      /\ \A b \in DOMAIN stateMap : stateMap[b] # s
  BY HeldBy DEF IInv, Placed, CreateSession, TypeOK
<1>3. Held' \subseteq Held \union {s}
  BY HeldBy, HeldByNext DEF CreateSession, IInv, TypeOK
<1>4. \A r \in Session : addrOf'[r] = IF r = s THEN a ELSE addrOf[r]
  BY DEF CreateSession, IInv, TypeOK
<1>5. Held \subseteq Session
  BY DEF Held, IInv, TypeOK
<1>6. AddressesDistinct'
  <2>1. \A r, q \in Held' : addrOf'[r] = addrOf'[q] => r = q
    BY <1>2, <1>3, <1>4, <1>5 DEF IInv, AddressesDistinct, CreateSession
  <2>2. \A b \in DOMAIN stateMap' : addrOf'[stateMap'[b]] = b
    BY <1>2, <1>4 DEF IInv, AddressesDistinct, CreateSession, TypeOK
  <2>3. QED
    BY <2>1, <2>2 DEF AddressesDistinct
<1>7. Placed'
  BY <1>2, <1>3, <1>4, <1>5 DEF IInv, Placed, CreateSession, TypeOK
<1>8. \A r \in Session : Registered(r) => Registered(r)'
  BY <1>2, <1>4 DEF CreateSession, Registered, IInv, TypeOK
<1>9. Entries'
  BY <1>8 DEF IInv, Entries, CreateSession, TypeOK
<1>10. Inserting'
  BY <1>2 DEF IInv, Inserting, CreateSession, TypeOK
<1>11. Exclusive'
  BY <1>2 DEF IInv, Exclusive, Touches, CreateSession, TypeOK
<1>12. NoEntryLeftBehind'
  BY <1>2 DEF IInv, NoEntryLeftBehind, CreateSession, TypeOK
<1>13. Learning' /\ LearnFindsSession'
  BY <1>2 DEF IInv, Learning, LearnFindsSession, CreateSession, TypeOK
<1>14. QED
  BY <1>1, <1>6, <1>7, <1>9, <1>10, <1>11, <1>12, <1>13 DEF IInv

\* insertShared never finds the address taken.
LEMMA InsertSharedIInv ==
  ASSUME IInv, NEW t \in Thread, InsertShared(t)
  PROVE  IInv'
<1> USE NullAssumption
<1> DEFINE s == ref[t]
<1> DEFINE a == addrOf[s]
<1>1. s \in Session /\ s \in Held /\ a \in Addr
  BY HeldBy DEF IInv, Inserting, InsertShared, Placed
<1>2. a \notin DOMAIN stateMap
  <2>1. SUFFICES ASSUME a \in DOMAIN stateMap PROVE FALSE
    OBVIOUS
  <2>2. stateMap[a] \in Held /\ addrOf[stateMap[a]] = a
    BY <2>1, HeldBy DEF IInv, AddressesDistinct, TypeOK
  <2>3. stateMap[a] = s
    BY <1>1, <2>2 DEF IInv, AddressesDistinct
  <2>4. QED
    BY <2>1, <2>3 DEF IInv, Inserting, InsertShared
<1>3. /\ DOMAIN stateMap' = DOMAIN stateMap \union {a}
      /\ stateMap'[a] = s
      /\ \A b \in DOMAIN stateMap : stateMap'[b] = stateMap[b]
  BY <1>2 DEF InsertShared
<1>4. TypeOK'
  BY <1>1, <1>2, <1>3 DEF IInv, TypeOK, InsertShared, PC
<1>5. Held' = Held
  <2>1. \A r : r \in Held' <=> r \in Held
    BY <1>1, <1>2, <1>3, HeldBy, HeldByNext DEF InsertShared
  <2>2. QED
    BY <2>1
<1>6. AddressesDistinct'
  BY <1>3, <1>5 DEF IInv, AddressesDistinct, InsertShared
<1>7. Placed'
  BY <1>5 DEF IInv, Placed, InsertShared
<1>8. \A r \in Session : Registered(r) => Registered(r)'
  BY <1>3 DEF InsertShared, Registered
<1>9. Entries'
  BY <1>1, <1>3, <1>8 DEF IInv, Entries, InsertShared, TypeOK, Registered
<1>10. Inserting'
  BY <1>1, <1>3 DEF IInv, Inserting, InsertShared, TypeOK, Exclusive
<1>11. Exclusive'
  <2>1. /\ UNCHANGED <<arg, ref, usable, destroyed>>
        /\ pc[t] = "insert" /\ pc'[t] = "created"
        /\ \A u \in Thread : u # t => pc'[u] = pc[u]
    BY DEF IInv, InsertShared, TypeOK
  <2>2. Exclusive
    BY DEF IInv
  <2>3. \A u \in Thread : /\ pc'[u] = "operate" <=> pc[u] = "operate"
                          /\ pc'[u] \in {"destroy", "remove"} <=> pc[u] \in {"destroy", "remove"}
                          /\ pc'[u] \in {"insert", "created"} <=> pc[u] \in {"insert", "created"}
    BY <2>1
  <2>4. \A u \in Thread : \A r : Touches(u, r)' <=> Touches(u, r)
    BY <2>1, <2>3 DEF Touches
  <2>5. QED
    BY <2>1, <2>2, <2>3, <2>4 DEF Exclusive
<1>12. NoEntryLeftBehind'
  <2>1. /\ UNCHANGED <<arg, ref, usable>>
        /\ pc[t] = "insert" /\ pc'[t] = "created"
        /\ \A u \in Thread : u # t => pc'[u] = pc[u]
    BY DEF IInv, InsertShared, TypeOK
  <2>2. NoEntryLeftBehind
    BY DEF IInv
  <2>3. QED
    BY <1>3, <2>1, <2>2 DEF NoEntryLeftBehind
<1>13. Learning' /\ LearnFindsSession'
  BY DEF IInv, Learning, LearnFindsSession, InsertShared, TypeOK
<1>14. QED
  BY <1>4, <1>6, <1>7, <1>9, <1>10, <1>11, <1>12, <1>13 DEF IInv

LEMMA ReturnCreateIInv ==
  ASSUME IInv, NEW t \in Thread, ReturnCreate(t)
  PROVE  IInv'
<1> USE NullAssumption
<1>1. ref[t] \in Session /\ Registered(ref[t]) /\ ref[t] \in Held
  BY HeldBy DEF IInv, Entries, ReturnCreate
<1>2. TypeOK'
  BY <1>1 DEF IInv, TypeOK, ReturnCreate, PC
<1>3. Held' \subseteq Held
  BY HeldBy, HeldByNext DEF ReturnCreate, IInv, TypeOK
<1>4. AddressesDistinct' /\ Placed'
  BY <1>1, <1>3 DEF IInv, AddressesDistinct, Placed, ReturnCreate
<1>5. Entries'
  BY <1>1 DEF IInv, Entries, Registered, ReturnCreate, TypeOK
<1>6. Inserting'
  BY DEF IInv, Inserting, ReturnCreate, TypeOK
<1>7. Exclusive'
  BY DEF IInv, Exclusive, Touches, ReturnCreate, TypeOK
<1>8. NoEntryLeftBehind'
  BY DEF IInv, NoEntryLeftBehind, ReturnCreate, TypeOK
<1>9. Learning' /\ LearnFindsSession'
  BY DEF IInv, Learning, LearnFindsSession, ReturnCreate, TypeOK
<1>10. QED
  BY <1>2, <1>4, <1>5, <1>6, <1>7, <1>8, <1>9 DEF IInv

\* The steps that leave the map, the shared_ptrs and the addresses alone:
\* what is held, where, and what is registered stays as it was.
LEMMA QuietStep ==
  ASSUME IInv, UNCHANGED <<ref, addrOf, stateMap, learnRefs>>
  PROVE  /\ Held' = Held
         /\ AddressesDistinct'
         /\ \A s : Registered(s)' <=> Registered(s)
BY DEF Held, IInv, AddressesDistinct, Registered

LEMMA OperationIInv ==
  ASSUME IInv, NEW t \in Thread,
         EndOperation(t) \/ \E s \in Session : BeginOperation(t, s)
  PROVE  IInv'
<1> USE NullAssumption
<1>1. CASE EndOperation(t)
  <2>1. TypeOK'
    BY <1>1 DEF IInv, TypeOK, EndOperation, PC
  <2>2. Held' = Held /\ AddressesDistinct' /\ \A s : Registered(s)' <=> Registered(s)
    BY <1>1, QuietStep DEF EndOperation
  <2>3. Placed' /\ Entries' /\ Inserting'
    BY <1>1, <2>2 DEF IInv, Placed, Entries, Inserting, EndOperation, TypeOK
  <2>4. Exclusive'
    BY <1>1 DEF IInv, Exclusive, Touches, EndOperation, TypeOK
  <2>5. NoEntryLeftBehind' /\ Learning' /\ LearnFindsSession'
    BY <1>1 DEF IInv, NoEntryLeftBehind, Learning, LearnFindsSession, EndOperation, TypeOK
  <2>6. QED
    BY <2>1, <2>2, <2>3, <2>4, <2>5 DEF IInv
<1>2. ASSUME NEW s \in Session, BeginOperation(t, s)
      PROVE  IInv'
  <2>1. TypeOK'
    BY <1>2 DEF IInv, TypeOK, BeginOperation, PC
  <2>2. Held' = Held /\ AddressesDistinct' /\ \A r : Registered(r)' <=> Registered(r)
    BY <1>2, QuietStep DEF BeginOperation
  <2>3. Placed' /\ Entries' /\ Inserting'
    BY <1>2, <2>2 DEF IInv, Placed, Entries, Inserting, BeginOperation, TypeOK
  <2>4. Exclusive'
    BY <1>2 DEF IInv, Exclusive, Touches, BeginOperation, TypeOK
  <2>5. NoEntryLeftBehind' /\ Learning' /\ LearnFindsSession'
    BY <1>2 DEF IInv, NoEntryLeftBehind, Learning, LearnFindsSession, BeginOperation, TypeOK
  <2>6. QED
    BY <2>1, <2>2, <2>3, <2>4, <2>5 DEF IInv
<1>3. QED
  BY <1>1, <1>2

LEMMA IsValidIInv ==
  ASSUME IInv, NEW s \in Session, NEW v \in BOOLEAN, IsValid(s, v)
  PROVE  IInv'
<1>1. TypeOK'
  BY DEF IInv, TypeOK, IsValid
<1>2. Held' = Held /\ AddressesDistinct' /\ \A r : Registered(r)' <=> Registered(r)
  BY QuietStep DEF IsValid
<1>3. Placed' /\ Entries' /\ Inserting' /\ Exclusive'
  BY <1>2 DEF IInv, Placed, Entries, Inserting, Exclusive, Touches, IsValid
<1>4. NoEntryLeftBehind' /\ Learning' /\ LearnFindsSession'
  BY DEF IInv, NoEntryLeftBehind, Learning, LearnFindsSession, IsValid
<1>5. QED
  BY <1>1, <1>2, <1>3, <1>4 DEF IInv

LEMMA BeginDestroyIInv ==
  ASSUME IInv, NEW t \in Thread, NEW s \in Session, BeginDestroy(t, s)
  PROVE  IInv'
<1> USE NullAssumption
<1>1. TypeOK'
  BY DEF IInv, TypeOK, BeginDestroy, PC
<1>2. Held' = Held /\ AddressesDistinct' /\ \A r : Registered(r)' <=> Registered(r)
  BY QuietStep DEF BeginDestroy
<1>3. Placed' /\ Entries' /\ Inserting'
  BY <1>2 DEF IInv, Placed, Entries, Inserting, BeginDestroy, TypeOK
<1>4. Exclusive'
  BY DEF IInv, Exclusive, Touches, BeginDestroy, TypeOK
<1>5. NoEntryLeftBehind'
  BY DEF IInv, NoEntryLeftBehind, BeginDestroy, TypeOK
<1>6. Learning' /\ LearnFindsSession'
  BY DEF IInv, Learning, LearnFindsSession, BeginDestroy, TypeOK
<1>7. QED
  BY <1>1, <1>2, <1>3, <1>4, <1>5, <1>6 DEF IInv

LEMMA DestroyFailsIInv ==
  ASSUME IInv, NEW t \in Thread, DestroyFails(t)
  PROVE  IInv'
<1> USE NullAssumption
<1>1. arg[t] \in Session /\ Registered(arg[t]) /\ addrOf[arg[t]] \in Addr
  BY DEF IInv, Entries, Placed, DestroyFails
<1>2. TypeOK'
  BY <1>1 DEF IInv, TypeOK, DestroyFails, PC
<1>3. Held' = Held /\ AddressesDistinct' /\ \A r : Registered(r)' <=> Registered(r)
  BY QuietStep DEF DestroyFails
<1>4. Placed' /\ Entries' /\ Inserting'
  BY <1>1, <1>3 DEF IInv, Placed, Entries, Inserting, DestroyFails, TypeOK
<1>5. Exclusive'
  BY <1>1 DEF IInv, Exclusive, Touches, DestroyFails, TypeOK
<1>6. NoEntryLeftBehind'
  BY DEF IInv, NoEntryLeftBehind, DestroyFails, TypeOK
<1>7. Learning' /\ LearnFindsSession'
  BY DEF IInv, Learning, LearnFindsSession, DestroyFails, TypeOK
<1>8. QED
  BY <1>2, <1>3, <1>4, <1>5, <1>6, <1>7 DEF IInv

LEMMA DestroySucceedsIInv ==
  ASSUME IInv, NEW t \in Thread, DestroySucceeds(t)
  PROVE  IInv'
<1>1. TypeOK'
  BY DEF IInv, TypeOK, DestroySucceeds, PC
<1>2. Held' = Held /\ AddressesDistinct' /\ \A r : Registered(r)' <=> Registered(r)
  BY QuietStep DEF DestroySucceeds
<1>3. Placed' /\ Entries' /\ Inserting'
  BY <1>2 DEF IInv, Placed, Entries, Inserting, DestroySucceeds, TypeOK
<1>4. Exclusive'
  BY DEF IInv, Exclusive, Touches, DestroySucceeds, TypeOK
<1>5. NoEntryLeftBehind' /\ Learning' /\ LearnFindsSession'
  BY DEF IInv, NoEntryLeftBehind, Learning, LearnFindsSession, DestroySucceeds, TypeOK
<1>6. QED
  BY <1>1, <1>2, <1>3, <1>4, <1>5 DEF IInv

\* Only the entry of the session destroyed goes.
LEMMA RemoveSharedIInv ==
  ASSUME IInv, NEW t \in Thread, RemoveShared(t)
  PROVE  IInv'
<1> USE NullAssumption
<1> DEFINE s == arg[t]
<1>1. /\ s \in Session /\ Registered(s) /\ addrOf[s] \in Addr
      /\ s \notin usable \union destroyed
  BY DEF IInv, Entries, Placed, Exclusive, RemoveShared
<1>2. /\ DOMAIN stateMap' = DOMAIN stateMap \ {addrOf[s]}
      /\ \A a \in DOMAIN stateMap' : stateMap'[a] = stateMap[a]
  BY DEF RemoveShared
<1>3. TypeOK'
  BY <1>1, <1>2 DEF IInv, TypeOK, RemoveShared, PC
<1>4. Held' \subseteq Held
  BY <1>2, HeldBy, HeldByNext DEF RemoveShared
<1>5. AddressesDistinct'
  BY <1>2, <1>4 DEF IInv, AddressesDistinct, RemoveShared
<1>6. Placed'
  BY <1>1, <1>4 DEF IInv, Placed, RemoveShared, TypeOK
<1>7. \A r \in Session : Registered(r) /\ r # s => Registered(r)'
  BY <1>1, <1>2 DEF RemoveShared, Registered
<1>8. Entries'
  BY <1>1, <1>7 DEF IInv, Entries, Exclusive, Touches, RemoveShared, TypeOK
<1>9. Inserting'
  BY <1>2 DEF IInv, Inserting, RemoveShared, TypeOK
<1>10. Exclusive'
  BY <1>1 DEF IInv, Exclusive, Touches, RemoveShared, TypeOK
<1>11. NoEntryLeftBehind'
  <2>1. SUFFICES ASSUME NEW a \in DOMAIN stateMap'
                 PROVE  \/ stateMap'[a] \in usable'
                        \/ \E u \in Thread : pc'[u] = "created" /\ ref'[u] = stateMap'[a]
                        \/ \E u \in Thread : pc'[u] \in {"destroy", "remove"} /\ arg'[u] = stateMap'[a]
    BY DEF NoEntryLeftBehind
  <2>2. a \in DOMAIN stateMap /\ stateMap'[a] = stateMap[a] /\ stateMap[a] # s
    BY <1>2, <2>1 DEF IInv, AddressesDistinct
  <2>3. QED
    BY <2>2 DEF IInv, NoEntryLeftBehind, RemoveShared, TypeOK
<1>12. Learning' /\ LearnFindsSession'
  BY DEF IInv, Learning, LearnFindsSession, RemoveShared, TypeOK
<1>13. QED
  BY <1>3, <1>5, <1>6, <1>8, <1>9, <1>10, <1>11, <1>12 DEF IInv

LEMMA BeginLearnIInv ==
  ASSUME IInv, NEW t \in Thread, NEW s \in Session, BeginLearn(t, s)
  PROVE  IInv'
<1> USE NullAssumption
<1>1. TypeOK'
  BY DEF IInv, TypeOK, BeginLearn, PC
<1>2. Held' = Held /\ AddressesDistinct' /\ \A r : Registered(r)' <=> Registered(r)
  BY QuietStep DEF BeginLearn
<1>3. Placed' /\ Entries' /\ Inserting'
  BY <1>2 DEF IInv, Placed, Entries, Inserting, BeginLearn, TypeOK
<1>4. Exclusive'
  BY DEF IInv, Exclusive, Touches, BeginLearn, TypeOK
<1>5. NoEntryLeftBehind' /\ Learning' /\ LearnFindsSession'
  BY DEF IInv, NoEntryLeftBehind, Learning, LearnFindsSession, BeginLearn, TypeOK
<1>6. QED
  BY <1>1, <1>2, <1>3, <1>4, <1>5 DEF IInv

\* What the map gives is already held, and is the caller's own session if
\* that has not been destroyed.
LEMMA GetSharedPtrIInv ==
  ASSUME IInv, NEW t \in Thread, GetSharedPtr(t)
  PROVE  IInv'
<1> USE NullAssumption
<1>1. ref'[t] \in Session \union {NoSession} /\ (ref'[t] # NoSession => ref'[t] \in Held)
  BY HeldBy DEF IInv, TypeOK, GetSharedPtr
<1>2. TypeOK'
  BY <1>1 DEF IInv, TypeOK, GetSharedPtr, PC
<1>3. Held' \subseteq Held
  BY <1>1, HeldBy, HeldByNext DEF GetSharedPtr, IInv, TypeOK
<1>4. AddressesDistinct' /\ Placed'
  BY <1>3 DEF IInv, AddressesDistinct, Placed, GetSharedPtr
<1>5. Entries' /\ Inserting'
  <2>1. /\ UNCHANGED <<arg, addrOf, stateMap, usable>>
        /\ pc[t] = "lookup" /\ pc'[t] = "learn"
        /\ \A u \in Thread : u # t => pc'[u] = pc[u] /\ ref'[u] = ref[u]
    BY DEF IInv, GetSharedPtr, TypeOK
  <2>2. Entries /\ Inserting
    BY DEF IInv
  <2>3. Entries'
    BY <2>1, <2>2 DEF Entries, Registered
  <2>4. Inserting'
    BY <2>1, <2>2 DEF Inserting
  <2>5. QED
    BY <2>3, <2>4
<1>6. Exclusive'
  <2>1. /\ UNCHANGED <<arg, usable, destroyed>>
        /\ pc[t] = "lookup" /\ pc'[t] = "learn"
        /\ \A u \in Thread : u # t => pc'[u] = pc[u] /\ ref'[u] = ref[u]
    BY DEF IInv, GetSharedPtr, TypeOK
  <2>2. \A u \in Thread : pc'[u] # pc[u] => u = t
    BY <2>1
  <2>3. \A u \in Thread : \A r : Touches(u, r)' <=> Touches(u, r)
    BY <2>1 DEF Touches
  <2>4. Exclusive
    BY DEF IInv
  <2>5. QED
    BY <2>1, <2>3, <2>4 DEF Exclusive
<1>7. NoEntryLeftBehind' /\ Learning'
  BY DEF IInv, NoEntryLeftBehind, Learning, GetSharedPtr, TypeOK
<1>8. arg[t] \notin destroyed => Registered(arg[t])
  BY DEF IInv, Learning, Entries, GetSharedPtr
<1>9. LearnFindsSession'
  BY <1>8 DEF IInv, LearnFindsSession, Registered, GetSharedPtr, TypeOK
<1>10. QED
  BY <1>2, <1>4, <1>5, <1>6, <1>7, <1>9 DEF IInv

LEMMA FinishLearnIInv ==
  ASSUME IInv, NEW t \in Thread, FinishLearn(t)
  PROVE  IInv'
<1> USE NullAssumption
<1>1. learnRefs' \subseteq learnRefs \union {ref[t]} /\ NoSession \notin learnRefs'
  BY DEF FinishLearn
<1>2. TypeOK'
  BY <1>1 DEF IInv, TypeOK, FinishLearn, PC
<1>3. Held' \subseteq Held
  BY <1>1, HeldBy, HeldByNext DEF FinishLearn, IInv, TypeOK
<1>4. AddressesDistinct' /\ Placed'
  BY <1>3 DEF IInv, AddressesDistinct, Placed, FinishLearn, TypeOK
<1>5. Entries' /\ Inserting'
  BY DEF IInv, Entries, Registered, Inserting, FinishLearn, TypeOK
<1>6. Exclusive'
  BY DEF IInv, Exclusive, Touches, FinishLearn, TypeOK
<1>7. NoEntryLeftBehind' /\ Learning' /\ LearnFindsSession'
  BY DEF IInv, NoEntryLeftBehind, Learning, LearnFindsSession, FinishLearn, TypeOK
<1>8. QED
  BY <1>2, <1>4, <1>5, <1>6, <1>7 DEF IInv

LEMMA StutterIInv ==
  ASSUME IInv, UNCHANGED vars
  PROVE  IInv'
BY DEF vars, IInv, TypeOK, AddressesDistinct, Held, Placed, Entries, Registered, Inserting,
       Exclusive, Touches, NoEntryLeftBehind, Learning, LearnFindsSession

\* The inductive invariant holds of every behaviour.
THEOREM Inductive == Spec => []IInv
<1>1. ASSUME IInv, [Next]_vars
      PROVE  IInv'
  BY <1>1, CreateSessionIInv, InsertSharedIInv, ReturnCreateIInv, OperationIInv, IsValidIInv,
     BeginDestroyIInv, DestroyFailsIInv, DestroySucceedsIInv, RemoveSharedIInv,
     BeginLearnIInv, GetSharedPtrIInv, FinishLearnIInv, StutterIInv
  DEF Next, Step
<1>2. QED
  BY <1>1, InitIInv, PTL DEF Spec

-----------------------------------------------------------------------------

\* Every variable has its type; no entry of the map is null.
THEOREM TypeCorrect == Spec => []TypeOK
<1>1. IInv => TypeOK
  BY DEF IInv
<1>2. QED
  BY <1>1, Inductive, PTL

\* A handle in use leads to the session it was created for.
THEOREM HandlesLead == Spec => []HandleIsSession
<1>1. ASSUME IInv
      PROVE  HandleIsSession
  <2>1. SUFFICES ASSUME NEW s \in Session, s \in usable \/ \E t \in Thread : Touches(t, s)
                 PROVE  Registered(s) /\ s \in Held
    BY DEF HandleIsSession
  <2>2. Registered(s)
    BY <1>1, <2>1 DEF IInv, Entries, Touches
  <2>3. s \in Held
    BY <2>2, HeldBy, NullAssumption DEF Registered
  <2>4. QED
    BY <2>2, <2>3
<1>2. QED
  BY <1>1, Inductive, PTL

\* Session objects never share an address.
THEOREM DistinctAddresses == Spec => []AddressesDistinct
<1>1. IInv => AddressesDistinct
  BY DEF IInv
<1>2. QED
  BY <1>1, Inductive, PTL

\* Destroy leaves no entry behind.
THEOREM NothingLeftBehind == Spec => []NoEntryLeftBehind
<1>1. IInv => NoEntryLeftBehind
  BY DEF IInv
<1>2. QED
  BY <1>1, Inductive, PTL

\* A learn call finds its own session unless that has been destroyed.
THEOREM LearnsOwnSession == Spec => []LearnFindsSession
<1>1. IInv => LearnFindsSession
  BY DEF IInv
<1>2. QED
  BY <1>1, Inductive, PTL
=============================================================================
