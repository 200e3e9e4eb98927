---------------------------- MODULE PyTable_proofs ----------------------------
(***************************************************************************)
(* Proofs about PyTable, for any entries, pages and addresses.  The        *)
(* invariant says of each place in a call which handles the call has and   *)
(* what they lead to: until the table is asked, those of its plan that     *)
(* have been made (OwnInv, TodoInv, KeyInv), in a dump the page in hand and the    *)
(* key it goes on from (PageInv), between calls none (IdleInv).  That a    *)
(* dump is whole rests on two more parts: what has been passed is in order *)
(* and ends before the page to come (OrderInv), and every entry up to the  *)
(* key the dump goes on from has been passed (WholeInv).                   *)
(***************************************************************************)
EXTENDS PyTable, FiniteSetTheorems, SequenceTheorems, TLAPS

\* The functions that fill the key they make, and those that let the driver
\* fill it.
FillsKey == {"add", "mod", "del", "handle", "get"}
AsksForKey == {"delByHandle", "getByHandle", "key", "dump"}

\* Where a call is while it has its handles in its own variables.
Calling == {"make", "found", "answered", "first"}
Paging == {"next", "nextN", "page"}

Types ==
  /\ entries \subseteq Key
  /\ obj \in [Handle -> Object \union {Null}]
  /\ sts \in Status
  /\ call \in [fn : Function, entry : Key \union {Null}]
  /\ commands \in Commands
  /\ at \in {"idle"} \union Calling \union Paging
  /\ todo \in Seq(Step)
  /\ own \in [Kind -> Handle \union {Null}]
  /\ keys \in Seq(Handle) /\ datas \in Seq(Handle)
  /\ prev \in Handle \union {Null}
  /\ outcome \in {"ok", "unlisted", "early", "refused", "unread", "unfound"}
  /\ leaked \subseteq Kind
  /\ shown \in Seq(Key)
  /\ stood \subseteq Key
  /\ cut \in BOOLEAN

\* Between calls nothing is held.
IdleInv ==
  at = "idle" =>
    /\ Live = {}
    /\ own = NoneOwned
    /\ keys = <<>> /\ datas = <<>> /\ prev = Null

\* What a call is about, and where it may be.
CallInv ==
  /\ at # "idle" /\ Fn \in OfEntry => call.entry \in Key
  /\ at = "found" => Fn = "delByHandle"
  /\ at = "answered" => Fn # "dump"
  /\ at \in {"first"} \union Paging => Fn = "dump"
  /\ at # "make" => todo = <<>>

\* What has been made is what the call has, each handle under its kind.
OwnInv ==
  at \in Calling =>
    /\ Owned(Kind) = Live
    /\ \A kind \in Kind : own[kind] # Null => obj[own[kind]].kind = kind
    /\ keys = <<>> /\ datas = <<>> /\ prev = Null
    /\ leaked = {} /\ shown = <<>>

\* What is still to be made has not been made, and is of different kinds.
TodoInv ==
  /\ \A i \in 1..Len(todo) : own[KindOf(todo[i])] = Null
  /\ \A i \in 1..Len(todo) : todo[i] = "key" => Fn \in FillsKey
  /\ \A i \in 1..Len(todo) : todo[i] = "emptyKey" => Fn \in AsksForKey
  /\ \A i \in 1..Len(todo) : Fn = "dump" => todo[i] \notin {"target", "operations"}
  /\ \A i, j \in 1..Len(todo) : i # j => KindOf(todo[i]) # KindOf(todo[j])

\* The step for this kind is over, if there is one.
Past(kind) == \A i \in 1..Len(todo) : KindOf(todo[i]) # kind

\* The handles a call cannot do without, and those a dump has no use for.
KeyInv ==
  at \in Calling =>
    /\ Past("key") /\ Fn \in FillsKey \union AsksForKey => own["key"] # Null
    /\ Past("key") /\ Fn \in FillsKey => obj[own["key"]].entry \in Key
    /\ Past("data") /\ Fn = "dump" => own["data"] # Null
    /\ Fn = "dump" => own["target"] = Null /\ own["operations"] = Null

\* The page in hand.
PageInv ==
  at \in Paging =>
    /\ own = NoneOwned
    /\ prev \in Live /\ obj[prev].kind = "key" /\ obj[prev].entry \in Key
    /\ Len(datas) = Len(keys) /\ Len(keys) <= Page
    /\ \A i \in 1..Len(keys) : /\ keys[i] \in Live /\ obj[keys[i]].kind = "key"
                               /\ datas[i] \in Live /\ obj[datas[i]].kind = "data"
    /\ \A i, j \in 1..Len(keys) : i # j => keys[i] # keys[j] /\ datas[i] # datas[j]
    /\ \A i \in 1..Len(keys) : keys[i] = prev => i = 1
    /\ at = "next" =>
         /\ Live = {prev} \union Range(keys) \union Range(datas)
         /\ Len(keys) = 0 \/ (Len(keys) = 1 /\ keys[1] = prev)
    /\ at = "nextN" =>
         /\ Len(keys) = Page
         /\ \A i \in 1..Len(keys) : keys[i] # prev => obj[keys[i]].entry = Null
    /\ at = "page" =>
         /\ \A i \in 1..Len(keys) :
              obj[keys[i]].entry \in Key /\ (keys[i] # prev => obj[prev].entry < obj[keys[i]].entry)
         /\ \A i, j \in 1..Len(keys) : i < j => obj[keys[i]].entry < obj[keys[j]].entry

\* What has been printed is in order, and ends where the page goes on.
OrderInv ==
  /\ \A i, j \in 1..Len(shown) : i < j => shown[i] < shown[j]
  /\ at \in Paging =>
       /\ \A i \in 1..Len(shown) : shown[i] <= obj[prev].entry
       /\ \A i \in 1..Len(keys) : keys[i] = prev => shown = <<>>

\* An entry has been printed, or is in the page in hand.
Passed(k) ==
  \/ \E i \in 1..Len(shown) : shown[i] = k
  \/ \E i \in 1..Len(keys) : obj[keys[i]].entry = k

WholeInv ==
  /\ Fn = "dump" => stood \subseteq entries
  /\ at = "first" /\ sts = "success" =>
       /\ obj[own["key"]].entry \in Key
       /\ ~cut => /\ obj[own["key"]].entry \in entries
                  /\ \A k \in stood : obj[own["key"]].entry <= k
  /\ at \in Paging /\ ~cut =>
       /\ obj[Mark].entry \in entries
       /\ \A k \in stood : k <= obj[Mark].entry => Passed(k)
  /\ at = "page" /\ ~cut /\ "get_next_n" \in commands /\ PageRead /\ Len(keys) < Page =>
       \A k \in stood : Passed(k)

PyInv ==
  /\ Types /\ IdleInv /\ CallInv /\ OwnInv /\ TodoInv /\ KeyInv /\ PageInv
  /\ OrderInv /\ WholeInv /\ DumpIsWhole

-----------------------------------------------------------------------------

(***************************************************************************)
(* Places in a set of numbers, and in arrays.                              *)
(***************************************************************************)

\* The elements of a set have its places, in order, and fill them.
LEMMA Places ==
  ASSUME NEW S \in SUBSET Nat, IsFiniteSet(S)
  PROVE  /\ Cardinality(S) \in Nat
         /\ \A k \in S : Place(S, k) \in 1..Cardinality(S)
         /\ \A k, l \in S : k < l => Place(S, k) < Place(S, l)
         /\ \A i \in 1..Cardinality(S) : \E k \in S : Place(S, k) = i
<1> DEFINE Below(k) == {l \in S : l < k}
<1> DEFINE place == [k \in S |-> Place(S, k)]
<1>1. Cardinality(S) \in Nat
  BY FS_CardinalityType
<1>2. ASSUME NEW k \in S
      PROVE  Place(S, k) \in 1..Cardinality(S)
  <2>1. Below(k) \in SUBSET S /\ Below(k) # S
    OBVIOUS
  <2>2. /\ IsFiniteSet(Below(k)) /\ Cardinality(Below(k)) <= Cardinality(S)
        /\ Cardinality(Below(k)) # Cardinality(S)
    BY <2>1, FS_Subset
  <2>3. Cardinality(Below(k)) \in Nat
    BY <2>2, FS_CardinalityType
  <2>4. QED
    BY <1>1, <2>2, <2>3 DEF Place
<1>3. ASSUME NEW k \in S, NEW l \in S, k < l
      PROVE  Place(S, k) < Place(S, l)
  <2>1. /\ Below(l) \in SUBSET S /\ Below(k) \in SUBSET Below(l)
        /\ k \in Below(l) /\ k \notin Below(k)
    <3>1. k \in Nat /\ l \in Nat
      OBVIOUS
    <3>2. \A i \in S : i < k => i < l
      BY <1>3, <3>1
    <3>3. Below(l) \subseteq S /\ Below(k) \subseteq Below(l)
      BY <3>2
    <3>4. k \in Below(l) /\ k \notin Below(k)
      BY <1>3, <3>1
    <3>5. QED
      BY <3>3, <3>4
  <2>2. IsFiniteSet(Below(l))
    BY <2>1, FS_Subset
  <2>3. /\ IsFiniteSet(Below(k)) /\ Cardinality(Below(k)) <= Cardinality(Below(l))
        /\ Cardinality(Below(k)) # Cardinality(Below(l))
    BY <2>1, <2>2, FS_Subset
  <2>4. Cardinality(Below(k)) \in Nat /\ Cardinality(Below(l)) \in Nat
    BY <2>2, <2>3, FS_CardinalityType
  <2>5. QED
    BY <2>3, <2>4 DEF Place
<1>4. \A i \in 1..Cardinality(S) : \E k \in S : Place(S, k) = i
  <2>1. place \in [S -> 1..Cardinality(S)]
    BY <1>2
  <2>2. ASSUME NEW k \in S, NEW l \in S, place[k] = place[l]
        PROVE  k = l
    <3>1. Place(S, k) = Place(S, l) /\ Place(S, k) \in Int
      BY <1>2, <2>2
    <3>2. ~(k < l) /\ ~(l < k)
      BY <1>3, <3>1
    <3>3. QED
      BY <3>2
  <2>3. place \in Injection(S, 1..Cardinality(S))
    BY <2>1, <2>2 DEF Injection, IsInjective
  <2>4. /\ IsFiniteSet(1..Cardinality(S))
        /\ Cardinality(1..Cardinality(S)) = Cardinality(S)
    BY <1>1, FS_Interval
  <2>5. place \in Surjection(S, 1..Cardinality(S))
    BY <2>3, <2>4, FS_Injection
  <2>6. QED
    BY <2>5 DEF Surjection
<1>5. QED
  BY <1>1, <1>2, <1>3, <1>4

\* The first n elements of a set come before the others, and are all there
\* are if they are fewer than n.
LEMMA Firsts ==
  ASSUME NEW S \in SUBSET Nat, IsFiniteSet(S), NEW n \in Nat
  PROVE  /\ FirstOf(S, n) \in SUBSET S /\ IsFiniteSet(FirstOf(S, n))
         /\ Cardinality(FirstOf(S, n)) \in 0..n
         /\ Cardinality(FirstOf(S, n)) < n => FirstOf(S, n) = S
         /\ \A k \in S : \A l \in FirstOf(S, n) : k <= l => k \in FirstOf(S, n)
<1> DEFINE F == FirstOf(S, n)
<1>1. F \in SUBSET S
  BY DEF FirstOf
<1>2. IsFiniteSet(F) /\ F \in SUBSET Nat
  BY <1>1, FS_Subset
<1> DEFINE s == Cardinality(S)
<1>0. /\ s \in Nat
      /\ \A k \in S : Place(S, k) \in 1..s
      /\ \A k, l \in S : k < l => Place(S, k) < Place(S, l)
      /\ \A i \in 1..s : \E k \in S : Place(S, k) = i
  BY Places
<1>3. \A k \in S : k \in F <=> Place(S, k) <= n
  <2>1. ASSUME NEW k \in S
        PROVE  k \in F <=> Place(S, k) <= n
    <3> DEFINE lower == Cardinality({l \in S : l < k})
    <3>1. Place(S, k) = lower + 1 /\ (k \in F <=> lower < n)
      BY DEF Place, FirstOf
    <3>2. lower \in Nat
      BY FS_Subset, FS_CardinalityType
    <3> HIDE DEF lower
    <3>3. QED
      BY <3>1, <3>2
  <2>2. QED
    BY <2>1
<1> HIDE DEF F, s
<1>4. \A k \in S : \A l \in F : k <= l => k \in F
  <2>1. ASSUME NEW k \in S, NEW l \in F, k <= l
        PROVE  Place(S, k) <= Place(S, l)
    <3>1. l \in S /\ k \in Nat /\ l \in Nat
      BY <1>1
    <3>2. k = l \/ k < l
      BY <2>1, <3>1
    <3>3. QED
      BY <1>0, <3>1, <3>2
  <2>2. QED
    BY <1>0, <1>1, <1>3, <2>1
<1>5. \A k \in F : Place(F, k) = Place(S, k)
  <2>1. ASSUME NEW k \in F
        PROVE  {l \in F : l < k} = {l \in S : l < k}
    <3>1. ASSUME NEW l \in S, l < k
          PROVE  l \in F
      <4>1. l \in Nat /\ k \in Nat
        BY <1>1
      <4>2. l <= k
        BY <3>1, <4>1
      <4>3. QED
        BY <1>4, <4>2
    <3>2. QED
      BY <1>1, <3>1
  <2>2. QED
    BY <2>1 DEF Place
<1> DEFINE c == Cardinality(F)
<1> HIDE DEF c
<1>6. /\ c \in Nat
      /\ \A k \in F : Place(F, k) \in 1..c
      /\ \A i \in 1..c : \E k \in F : Place(F, k) = i
  BY <1>2, Places DEF c
<1>7. c <= n
  <2>1. CASE c = 0
    BY <2>1
  <2>2. CASE c # 0
    <3>1. PICK k \in F : Place(F, k) = c
      BY <1>6, <2>2
    <3>2. QED
      BY <1>1, <1>3, <1>5, <3>1
  <2>3. QED
    BY <2>1, <2>2
<1>8. ASSUME c < n, NEW k \in S
      PROVE  k \in F
  <2>1. SUFFICES ASSUME k \notin F PROVE FALSE
    OBVIOUS
  <2>2. Place(S, k) \in 1..s /\ Place(S, k) > n
    BY <1>0, <1>3, <2>1
  <2>3. c + 1 \in 1..s
    BY <1>0, <1>6, <1>8, <2>2
  <2>4. PICK l \in S : Place(S, l) = c + 1
    BY <1>0, <2>3
  <2>5. l \in F
    BY <1>3, <1>6, <1>8, <2>4
  <2>6. QED
    BY <1>5, <1>6, <2>4, <2>5
<1>9. QED
  <2>1. c \in 0..n
    BY <1>6, <1>7
  <2>2. c < n => F = S
    BY <1>1, <1>8
  <2>3. QED
    BY <1>1, <1>2, <1>4, <2>1, <2>2 DEF F, c

\* The spare names are different ones.
LEMMA Spares ==
  ASSUME NEW n \in Nat, Cardinality(Handle \ (Live \union Held)) >= n
  PROVE  /\ \A i \in 1..n : Spare[i] \in Handle \ (Live \union Held)
         /\ \A i, j \in 1..n : i # j => Spare[i] # Spare[j]
<1> DEFINE S == Handle \ (Live \union Held)
<1>1. S \in SUBSET Nat /\ IsFiniteSet(S)
  BY EntryAssumption, FS_Subset
<1> HIDE DEF S
<1>2. Cardinality(S) \in Nat /\ 1..n \subseteq 1..Cardinality(S)
  <2>1. Cardinality(S) \in Nat
    BY <1>1, FS_CardinalityType
  <2>2. Cardinality(S) >= n
    BY DEF S
  <2>3. QED
    BY <2>1, <2>2
<1>3. ASSUME NEW i \in 1..n
      PROVE  Spare[i] \in S /\ Place(S, Spare[i]) = i
  <2> DEFINE choice(j) == CHOOSE h \in S : Place(S, h) = j
  <2>1. Spare = [j \in 1..Cardinality(S) |-> choice(j)]
    BY DEF Spare, S
  <2>2. choice(i) \in S /\ Place(S, choice(i)) = i
    BY <1>1, <1>2, Places
  <2> HIDE DEF choice
  <2>3. Spare[i] = choice(i)
    BY <1>2, <2>1
  <2>4. QED
    BY <2>2, <2>3
<1>4. QED
  BY <1>3 DEF S

-----------------------------------------------------------------------------

(***************************************************************************)
(* The ways out of a call.                                                 *)
(***************************************************************************)

Outcome == {"ok", "unlisted", "early", "refused", "unread", "unfound"}

\* A call that ends leaves nothing behind.
LEMMA Ends ==
  ASSUME PyInv,
         NEW how \in Outcome, NEW o \in [Handle -> Object \union {Null}], NEW kept,
         End(how, o, kept),
         shown' \in Seq(Key),
         \A i, j \in 1..Len(shown') : i < j => shown'[i] < shown'[j],
         Fn = "dump" /\ how = "ok" /\ "get_next_n" \in commands /\ ~cut
           => stood \subseteq Range(shown')
  PROVE  PyInv'
<1> USE DEF Outcome
<1>1. /\ at' = "idle" /\ outcome' = how /\ todo' = <<>> /\ own' = NoneOwned
      /\ keys' = <<>> /\ datas' = <<>> /\ prev' = Null
      /\ entries' = entries /\ sts' = sts /\ call' = call /\ commands' = commands
      /\ stood' = stood /\ cut' = cut
      /\ obj' = [h \in Handle |-> Null]
  BY DEF End, Keep, callVars, history
<1>2. leaked' \subseteq Kind
  <2> DEFINE q == [h \in Handle |-> IF h \in kept THEN Null ELSE o[h]]
  <2>1. leaked' = leaked \union {q[h].kind : h \in {g \in Handle \ {} : q[g] # Null}}
    BY DEF End, Keep
  <2>2. \A h \in Handle : q[h] # Null => q[h] \in Object
    OBVIOUS
  <2> HIDE DEF q
  <2>3. \A h \in Handle : q[h] # Null => q[h].kind \in Kind
    BY <2>2 DEF Object
  <2>4. leaked \subseteq Kind
    BY DEF PyInv, Types
  <2>5. QED
    BY <2>1, <2>3, <2>4
<1>3. Types'
  <2>1. NoneOwned \in [Kind -> Handle \union {Null}]
    BY DEF NoneOwned
  <2>2. obj' \in [Handle -> Object \union {Null}]
    BY <1>1
  <2>3. QED
    BY <1>1, <1>2, <2>1, <2>2 DEF PyInv, Types
<1>4. IdleInv' /\ CallInv' /\ OwnInv' /\ TodoInv' /\ KeyInv' /\ PageInv' /\ OrderInv'
  <2>1. IdleInv'
    BY <1>1 DEF IdleInv, Live
  <2>2. CallInv' /\ OwnInv' /\ TodoInv' /\ KeyInv' /\ PageInv'
    BY <1>1 DEF CallInv, OwnInv, TodoInv, KeyInv, PageInv, Calling, Paging
  <2>3. OrderInv'
    BY <1>1 DEF OrderInv, Paging
  <2>4. QED
    BY <2>1, <2>2, <2>3
<1>5. WholeInv'
  BY <1>1 DEF PyInv, WholeInv, Paging, Fn
<1>6. DumpIsWhole'
  BY <1>1 DEF DumpIsWhole, Fn
<1>7. QED
  BY <1>3, <1>4, <1>5, <1>6 DEF PyInv

\* The calls that end early, or print nothing.
LEMMA EndsEarly ==
  ASSUME PyInv,
         NEW how \in Outcome \ {"ok"}, NEW o \in [Handle -> Object \union {Null}], NEW kept,
         End(how, o, kept), UNCHANGED shown
  PROVE  PyInv'
<1>1. shown' \in Seq(Key) /\ \A i, j \in 1..Len(shown') : i < j => shown'[i] < shown'[j]
  BY DEF PyInv, Types, OrderInv
<1>2. QED
  BY <1>1, Ends

\* What objects there may be after an object has been made, or some have been
\* given back.
LEMMA ObjectTypes ==
  ASSUME PyInv
  PROVE  /\ obj \in [Handle -> Object \union {Null}]
         /\ \A S : Freed(S) \in [Handle -> Object \union {Null}]
         /\ \A h \in Handle : \A kind \in Kind : \A k \in Key \union {Null} :
              Made(h, kind, k) \in [Handle -> Object \union {Null}]
<1>1. obj \in [Handle -> Object \union {Null}]
  BY DEF PyInv, Types
<1>2. \A S : Freed(S) \in [Handle -> Object \union {Null}]
  BY <1>1 DEF Freed
<1>3. ASSUME NEW h \in Handle, NEW kind \in Kind, NEW k \in Key \union {Null}
      PROVE  Made(h, kind, k) \in [Handle -> Object \union {Null}]
  <2>1. [kind |-> kind, entry |-> k] \in Object
    BY DEF Object
  <2>2. QED
    BY <1>1, <2>1 DEF Made
<1>4. QED
  BY <1>1, <1>2, <1>3

LEMMA NotListedKeeps == ASSUME PyInv, NotListed PROVE PyInv'
BY EndsEarly, ObjectTypes DEF NotListed, Outcome

LEMMA MakeFailsKeeps == ASSUME PyInv, NEW step \in Step, MakeFails(step) PROVE PyInv'
BY EndsEarly, ObjectTypes DEF MakeFails, Outcome

LEMMA GiveUpKeeps == ASSUME PyInv, GiveUp PROVE PyInv'
BY EndsEarly, ObjectTypes DEF GiveUp, Outcome

LEMMA NotCountedKeeps == ASSUME PyInv, NotCounted PROVE PyInv'
BY EndsEarly, ObjectTypes DEF NotCounted, Outcome

LEMMA NoSetterKeeps == ASSUME PyInv, NoSetter PROVE PyInv'
BY EndsEarly, ObjectTypes DEF NoSetter, Outcome

LEMMA KeyNotFoundKeeps == ASSUME PyInv, KeyNotFound PROVE PyInv'
BY EndsEarly, ObjectTypes DEF KeyNotFound, Outcome

LEMMA ReadFailsKeeps == ASSUME PyInv, ReadFails PROVE PyInv'
BY EndsEarly, ObjectTypes DEF ReadFails, Outcome

LEMMA ShowPageFailsKeeps == ASSUME PyInv, ShowPageFails PROVE PyInv'
BY EndsEarly, ObjectTypes DEF ShowPageFails, Outcome

LEMMA NoFirstKeeps == ASSUME PyInv, NoFirst PROVE PyInv'
BY EndsEarly, ObjectTypes DEF NoFirst, Outcome

LEMMA NextFailsKeeps == ASSUME PyInv, NextFails PROVE PyInv'
BY EndsEarly, ObjectTypes DEF NextFails, Outcome

LEMMA FinishKeeps == ASSUME PyInv, Finish PROVE PyInv'
<1> DEFINE how == IF sts = "success" THEN "ok" ELSE "refused"
<1> DEFINE kept == IF sts = "success" /\ Fn = "key" THEN Owned({"target"}) ELSE {}
<1>1. End(how, Freed(Returned), kept) /\ UNCHANGED shown
  BY DEF Finish
<1> HIDE DEF kept
<1>2. shown' \in Seq(Key) /\ \A i, j \in 1..Len(shown') : i < j => shown'[i] < shown'[j]
  BY <1>1 DEF PyInv, Types, OrderInv
<1>3. at = "answered" /\ Fn # "dump"
  BY DEF Finish, PyInv, CallInv
<1>4. Freed(Returned) \in [Handle -> Object \union {Null}]
  BY ObjectTypes
<1>5. how \in Outcome
  BY DEF Outcome
<1> HIDE DEF how
<1>6. QED
  BY <1>1, <1>2, <1>3, <1>4, <1>5, Ends

\* All that has stood has been printed.
LEMMA EndOfTableKeeps == ASSUME PyInv, EndOfTable PROVE PyInv'
<1>1. End("ok", Freed({prev}), {}) /\ UNCHANGED shown /\ at = "page" /\ PageRead /\ keys = <<>>
  BY DEF EndOfTable, PageRead
<1>2. shown' \in Seq(Key) /\ \A i, j \in 1..Len(shown') : i < j => shown'[i] < shown'[j]
  BY <1>1 DEF PyInv, Types, OrderInv
<1>3. ASSUME ~cut, "get_next_n" \in commands
      PROVE  stood \subseteq Range(shown')
  <2>1. Len(keys) = 0 /\ 0 < Page /\ shown \in Seq(Key)
    BY <1>1, PageAssumption DEF PyInv, Types
  <2>2. \A k \in stood : Passed(k)
    BY <1>1, <1>3, <2>1 DEF PyInv, WholeInv
  <2>3. QED
    BY <1>1, <2>1, <2>2 DEF Passed, Range
<1>4. QED
  BY <1>1, <1>2, <1>3, Ends, ObjectTypes DEF Outcome

-----------------------------------------------------------------------------

(***************************************************************************)
(* A call begins.                                                          *)
(***************************************************************************)

LEMMA InitKeeps == ASSUME Init PROVE PyInv
<1>1. Types
  <2>1. obj \in [Handle -> Object \union {Null}] /\ own \in [Kind -> Handle \union {Null}]
    BY DEF Init, NoneOwned
  <2>2. entries \subseteq Key /\ stood \subseteq Key /\ sts \in Status
    BY DEF Init, Status
  <2>3. call \in [fn : Function, entry : Key \union {Null}]
    BY DEF Init, Function
  <2>4. /\ at = "idle" /\ outcome = "ok" /\ leaked = {} /\ cut = FALSE
        /\ todo = <<>> /\ keys = <<>> /\ datas = <<>> /\ shown = <<>> /\ prev = Null
        /\ commands \in Commands
    BY DEF Init
  <2>5. /\ todo \in Seq(Step) /\ keys \in Seq(Handle) /\ datas \in Seq(Handle)
        /\ shown \in Seq(Key)
    BY <2>4
  <2>6. /\ prev \in Handle \union {Null} /\ leaked \subseteq Kind /\ cut \in BOOLEAN
        /\ at \in {"idle"} \union Calling \union Paging
        /\ outcome \in {"ok", "unlisted", "early", "refused", "unread", "unfound"}
    BY <2>4
  <2>7. QED
    BY <2>1, <2>2, <2>3, <2>4, <2>5, <2>6 DEF Types
<1>2. IdleInv /\ CallInv /\ OwnInv /\ TodoInv /\ KeyInv /\ PageInv /\ OrderInv
  <2>1. IdleInv
    BY DEF Init, IdleInv, Live
  <2>2. CallInv /\ OwnInv /\ TodoInv /\ KeyInv /\ PageInv
    BY DEF Init, CallInv, OwnInv, TodoInv, KeyInv, PageInv, Calling, Paging
  <2>3. OrderInv
    BY DEF Init, OrderInv, Paging
  <2>4. QED
    BY <2>1, <2>2, <2>3
<1>3. WholeInv /\ DumpIsWhole
  BY DEF Init, WholeInv, DumpIsWhole, Paging, Fn
<1>4. QED
  BY <1>1, <1>2, <1>3 DEF PyInv

\* A plan has steps of different kinds, and makes what the call will need.
LEMMA Plans ==
  ASSUME NEW fn \in Function
  PROVE  /\ Plan(fn) \in Seq(Step)
         /\ \A i \in 1..Len(Plan(fn)) : Plan(fn)[i] = "key" => fn \in FillsKey
         /\ \A i \in 1..Len(Plan(fn)) : Plan(fn)[i] = "emptyKey" => fn \in AsksForKey
         /\ \A i \in 1..Len(Plan(fn)) :
              fn = "dump" => Plan(fn)[i] \notin {"target", "operations"}
         /\ \A i, j \in 1..Len(Plan(fn)) : i # j => KindOf(Plan(fn)[i]) # KindOf(Plan(fn)[j])
         /\ fn \in FillsKey \union AsksForKey =>
              \E i \in 1..Len(Plan(fn)) : KindOf(Plan(fn)[i]) = "key"
         /\ fn = "dump" => \E i \in 1..Len(Plan(fn)) : KindOf(Plan(fn)[i]) = "data"
<1> DEFINE plan == Plan(fn)
<1> USE DEF Step
<1> HIDE DEF plan
<1>1. CASE fn \in {"add", "mod"}
  <2>1. plan = <<"key", "data", "flags">>
    BY <1>1 DEF Plan, plan
  <2>2. plan \in Seq(Step) /\ Len(plan) = 3
        /\ plan[1] = "key" /\ plan[2] = "data" /\ plan[3] = "flags"
    BY <2>1
  <2>3. \A i \in 1..3 : i \in {1, 2, 3}
    OBVIOUS
  <2>4. QED
    BY <1>1, <2>2, <2>3 DEF KindOf, FillsKey, AsksForKey, plan
<1>2. CASE fn \in {"del", "handle"}
  <2>1. plan = <<"key">>
    BY <1>2 DEF Plan, plan
  <2>2. plan \in Seq(Step) /\ Len(plan) = 1 /\ plan[1] = "key"
    BY <2>1
  <2>3. \A i \in 1..1 : i \in {1}
    OBVIOUS
  <2>4. QED
    BY <1>2, <2>2, <2>3 DEF KindOf, FillsKey, AsksForKey, plan
<1>3. CASE fn = "delByHandle"
  <2>1. plan = <<"emptyKey">>
    BY <1>3 DEF Plan, plan
  <2>2. plan \in Seq(Step) /\ Len(plan) = 1 /\ plan[1] = "emptyKey"
    BY <2>1
  <2>3. \A i \in 1..1 : i \in {1}
    OBVIOUS
  <2>4. QED
    BY <1>3, <2>2, <2>3 DEF KindOf, FillsKey, AsksForKey, plan
<1>4. CASE fn = "get"
  <2>1. plan = <<"emptyData", "flags", "key">>
    BY <1>4 DEF Plan, plan
  <2>2. plan \in Seq(Step) /\ Len(plan) = 3
        /\ plan[1] = "emptyData" /\ plan[2] = "flags" /\ plan[3] = "key"
    BY <2>1
  <2>3. \A i \in 1..3 : i \in {1, 2, 3}
    OBVIOUS
  <2>4. QED
    BY <1>4, <2>2, <2>3 DEF KindOf, FillsKey, AsksForKey, plan
<1>5. CASE fn = "getByHandle"
  <2>1. plan = <<"emptyData", "flags", "emptyKey">>
    BY <1>5 DEF Plan, plan
  <2>2. plan \in Seq(Step) /\ Len(plan) = 3
        /\ plan[1] = "emptyData" /\ plan[2] = "flags" /\ plan[3] = "emptyKey"
    BY <2>1
  <2>3. \A i \in 1..3 : i \in {1, 2, 3}
    OBVIOUS
  <2>4. QED
    BY <1>5, <2>2, <2>3 DEF KindOf, FillsKey, AsksForKey, plan
<1>6. CASE fn = "key"
  <2>1. plan = <<"emptyKey", "target">>
    BY <1>6 DEF Plan, plan
  <2>2. plan \in Seq(Step) /\ Len(plan) = 2 /\ plan[1] = "emptyKey" /\ plan[2] = "target"
    BY <2>1
  <2>3. \A i \in 1..2 : i \in {1, 2}
    OBVIOUS
  <2>4. QED
    BY <1>6, <2>2, <2>3 DEF KindOf, FillsKey, AsksForKey, plan
<1>7. CASE fn = "dump"
  <2>1. plan = <<"emptyKey", "emptyData", "flags">>
    BY <1>7 DEF Plan, plan
  <2>2. plan \in Seq(Step) /\ Len(plan) = 3
        /\ plan[1] = "emptyKey" /\ plan[2] = "emptyData" /\ plan[3] = "flags"
    BY <2>1
  <2>3. \A i \in 1..3 : i \in {1, 2, 3}
    OBVIOUS
  <2>4. QED
    BY <1>7, <2>2, <2>3 DEF KindOf, FillsKey, AsksForKey, plan
<1>8. CASE fn = "usage"
  <2>1. plan = <<"flags">>
    BY <1>8 DEF Plan, plan
  <2>2. plan \in Seq(Step) /\ Len(plan) = 1 /\ plan[1] = "flags"
    BY <2>1
  <2>3. \A i \in 1..1 : i \in {1}
    OBVIOUS
  <2>4. QED
    BY <1>8, <2>2, <2>3 DEF KindOf, FillsKey, AsksForKey, plan
<1>9. CASE fn = "default"
  <2>1. plan = <<"data">>
    BY <1>9 DEF Plan, plan
  <2>2. plan \in Seq(Step) /\ Len(plan) = 1 /\ plan[1] = "data"
    BY <2>1
  <2>3. \A i \in 1..1 : i \in {1}
    OBVIOUS
  <2>4. QED
    BY <1>9, <2>2, <2>3 DEF KindOf, FillsKey, AsksForKey, plan
<1>10. CASE fn = "getDefault"
  <2>1. plan = <<"emptyData", "flags">>
    BY <1>10 DEF Plan, plan
  <2>2. plan \in Seq(Step) /\ Len(plan) = 2 /\ plan[1] = "emptyData" /\ plan[2] = "flags"
    BY <2>1
  <2>3. \A i \in 1..2 : i \in {1, 2}
    OBVIOUS
  <2>4. QED
    BY <1>10, <2>2, <2>3 DEF KindOf, FillsKey, AsksForKey, plan
<1>11. CASE fn = "operation"
  <2>1. plan = <<"operations">>
    BY <1>11 DEF Plan, plan
  <2>2. plan \in Seq(Step) /\ Len(plan) = 1 /\ plan[1] = "operations"
    BY <2>1
  <2>3. \A i \in 1..1 : i \in {1}
    OBVIOUS
  <2>4. QED
    BY <1>11, <2>2, <2>3 DEF KindOf, FillsKey, AsksForKey, plan
<1>12. CASE fn = "clear"
  <2>1. plan = <<>>
    BY <1>12 DEF Plan, plan
  <2>2. plan \in Seq(Step) /\ Len(plan) = 0
    BY <2>1
  <2>3. \A i \in 1..0 : FALSE
    OBVIOUS
  <2>4. QED
    BY <1>12, <2>2, <2>3 DEF KindOf, FillsKey, AsksForKey, plan
<1>13. QED
  BY <1>1, <1>2, <1>3, <1>4, <1>5, <1>6, <1>7, <1>8, <1>9, <1>10, <1>11, <1>12 DEF Function

LEMMA KindsOfSteps == \A step \in Step : KindOf(step) \in Kind
BY DEF Step, KindOf, Kind

LEMMA BeginKeeps ==
  ASSUME PyInv, NEW fn \in Function, NEW k \in Key \union {Null}, Begin(fn, k)
  PROVE  PyInv'
<1>1. /\ call' = [fn |-> fn, entry |-> k] /\ Fn' = fn /\ call'.entry = k
      /\ at' = "make" /\ todo' = Plan(fn) /\ leaked' = {} /\ shown' = <<>>
      /\ stood' = entries /\ cut' = FALSE /\ sts' = "success" /\ outcome' = "ok"
      /\ entries' = entries /\ obj' = obj /\ commands' = commands /\ own' = own
      /\ keys' = keys /\ datas' = datas /\ prev' = prev
  BY DEF Begin, pageVars, Fn
<1>2. /\ Live = {} /\ own = NoneOwned /\ keys = <<>> /\ datas = <<>> /\ prev = Null
  BY DEF Begin, PyInv, IdleInv
<1>3. Types'
  <2>1. Types
    BY DEF PyInv
  <2>2. call' \in [fn : Function, entry : Key \union {Null}] /\ todo' \in Seq(Step)
    BY <1>1, Plans
  <2>3. /\ entries \subseteq Key /\ leaked' \subseteq Kind /\ shown' \in Seq(Key)
        /\ sts' \in Status /\ at' \in Calling
    BY <1>1, <2>1 DEF Types, Status, Calling
  <2>4. QED
    BY <1>1, <2>1, <2>2, <2>3 DEF Types
<1>4. IdleInv' /\ CallInv' /\ PageInv' /\ OrderInv'
  <2>1. k # Null <=> fn \in OfEntry
    BY DEF Begin
  <2>2. IdleInv' /\ CallInv' /\ PageInv'
    BY <1>1, <2>1 DEF IdleInv, CallInv, PageInv, Paging
  <2>3. OrderInv'
    BY <1>1 DEF OrderInv, Paging
  <2>4. QED
    BY <2>2, <2>3
<1>5. OwnInv'
  <2>1. Owned(Kind)' = {} /\ Live' = {}
    BY <1>1, <1>2 DEF Owned, NoneOwned, Live
  <2>2. \A kind \in Kind : own'[kind] = Null
    BY <1>1, <1>2 DEF NoneOwned
  <2>3. QED
    BY <1>1, <1>2, <2>1, <2>2 DEF OwnInv
<1>6. TodoInv'
  <2>1. \A i \in 1..Len(Plan(fn)) : own'[KindOf(Plan(fn)[i])] = Null
    BY <1>1, <1>2, Plans, KindsOfSteps, ElementOfSeq DEF NoneOwned
  <2>2. QED
    BY <1>1, <2>1, Plans DEF TodoInv
<1>7. KeyInv'
  <2>1. fn \in FillsKey \union AsksForKey => ~Past("key")'
    BY <1>1, Plans DEF Past
  <2>2. fn = "dump" => ~Past("data")'
    BY <1>1, Plans DEF Past
  <2>3. own'["target"] = Null /\ own'["operations"] = Null
    BY <1>1, <1>2 DEF NoneOwned, Kind
  <2>4. QED
    BY <1>1, <2>1, <2>2, <2>3 DEF KeyInv
<1>8. WholeInv' /\ DumpIsWhole'
  BY <1>1 DEF WholeInv, DumpIsWhole, Paging
<1>9. QED
  BY <1>3, <1>4, <1>5, <1>6, <1>7, <1>8 DEF PyInv

\* An object is made under a name nobody has.
LEMMA Room ==
  ASSUME PyInv, at \in Calling, NEW kind \in Kind, own[kind] = Null
  PROVE  Spare[1] \in Handle /\ obj[Spare[1]] = Null
<1> DEFINE others == Kind \ {kind}
<1> DEFINE image == [other \in others |-> own[other]]
<1> DEFINE taken == {own[other] : other \in others}
<1>1. Live \union Held = Live
  <2>1. Owned(Kind) = Live /\ keys = <<>> /\ datas = <<>> /\ prev = Null
    BY DEF PyInv, OwnInv
  <2>2. Range(keys) = {} /\ Range(datas) = {}
    BY <2>1 DEF Range
  <2>3. QED
    BY <2>1, <2>2 DEF Held
<1>2. IsFiniteSet(others) /\ Cardinality(others) = 4
  <2> DEFINE one == {"key"}
  <2> DEFINE two == one \union {"data"}
  <2> DEFINE three == two \union {"flags"}
  <2> DEFINE four == three \union {"target"}
  <2>1. \A S, x : IsFiniteSet(S) /\ x \notin S =>
               IsFiniteSet(S \union {x}) /\ Cardinality(S \union {x}) = Cardinality(S) + 1
    BY FS_AddElement
  <2>2. /\ "data" \notin one /\ "flags" \notin two /\ "target" \notin three
        /\ "operations" \notin four /\ Kind = four \union {"operations"}
    BY DEF Kind
  <2>3. IsFiniteSet(one) /\ Cardinality(one) = 1
    BY FS_Singleton
  <2> HIDE DEF one
  <2>4. IsFiniteSet(two) /\ Cardinality(two) = 2
    BY <2>1, <2>2, <2>3
  <2> HIDE DEF two
  <2>5. IsFiniteSet(three) /\ Cardinality(three) = 3
    BY <2>1, <2>2, <2>4
  <2> HIDE DEF three
  <2>6. IsFiniteSet(four) /\ Cardinality(four) = 4
    BY <2>1, <2>2, <2>5
  <2> HIDE DEF four
  <2>7. IsFiniteSet(Kind) /\ Cardinality(Kind) = 5
    BY <2>1, <2>2, <2>6
  <2>8. QED
    BY <2>7, FS_RemoveElement
<1>3. IsFiniteSet(taken) /\ Cardinality(taken) <= 4 /\ Cardinality(taken) \in Nat
  <2>1. image \in Surjection(others, taken)
    BY DEF Surjection
  <2>2. IsFiniteSet(taken) /\ Cardinality(taken) <= Cardinality(others)
    BY <1>2, <2>1, FS_Surjection
  <2>3. QED
    BY <1>2, <2>2, FS_CardinalityType
<1>4. Live \subseteq taken
  <2>1. Live = Owned(Kind)
    BY DEF PyInv, OwnInv
  <2>2. QED
    BY <2>1 DEF Owned
<1>5. Handle \ Live # {}
  <2>1. SUFFICES ASSUME Handle \subseteq taken PROVE FALSE
    BY <1>4
  <2>2. Cardinality(Handle) <= Cardinality(taken)
    BY <1>3, <2>1, FS_Subset
  <2>3. Cardinality(Handle) \in Nat
    BY EntryAssumption, FS_CardinalityType
  <2>4. Page \in Nat /\ Page >= 2 /\ Cardinality(Handle) >= 2 * Page + 1
    BY PageAssumption, HandleAssumption
  <2>5. 2 * Page >= 4
    BY <2>4
  <2>6. QED
    BY <1>3, <2>2, <2>3, <2>4, <2>5
<1>6. Cardinality(Handle \ Live) >= 1
  <2>1. IsFiniteSet(Handle \ Live)
    BY EntryAssumption, FS_Subset
  <2>2. Cardinality(Handle \ Live) \in Nat /\ Cardinality(Handle \ Live) # 0
    BY <1>5, <2>1, FS_EmptySet, FS_CardinalityType
  <2>3. QED
    BY <2>2
<1>7. Spare[1] \in Handle \ Live
  <2>1. \A i \in 1..1 : Spare[i] \in Handle \ (Live \union Held)
    BY <1>1, <1>6, Spares
  <2>2. QED
    BY <1>1, <2>1
<1>8. QED
  BY <1>7 DEF Live

\* What a step makes is of its kind, and a filled key names the entry.
LEMMA ObjectOfStep ==
  ASSUME PyInv, NEW step \in Step, NEW h
  PROVE  /\ MadeIn(step, h) = Made(h, KindOf(step), IF step = "key" THEN call.entry ELSE Null)
         /\ MadeIn(step, h) \in [Handle -> Object \union {Null}]
<1> DEFINE entry == IF step = "key" THEN call.entry ELSE Null
<1>1. MadeIn(step, h) = Made(h, KindOf(step), entry)
  <2> USE DEF MadeIn, KindOf, KeySetValue, KeyAllocate, DataSetValue, DataAllocate, FlagsCreate,
          TargetCreate, OperationsAllocate
  <2>1. CASE step \in {"key", "emptyKey"}
    BY <2>1
  <2>2. CASE step \in {"data", "emptyData"}
    BY <2>2
  <2>3. CASE step \in {"flags", "target", "operations"}
    BY <2>3
  <2>4. QED
    BY <2>1, <2>2, <2>3 DEF Step
<1>2. [kind |-> KindOf(step), entry |-> entry] \in Object
  <2>1. entry \in Key \union {Null}
    BY DEF PyInv, Types
  <2>2. QED
    BY <2>1, KindsOfSteps DEF Object
<1>3. Made(h, KindOf(step), entry) \in [Handle -> Object \union {Null}]
  BY <1>2, ObjectTypes DEF Made
<1>4. QED
  BY <1>1, <1>3

LEMMA FillFailsKeeps == ASSUME PyInv, NEW step \in Step, FillFails(step) PROVE PyInv'
BY EndsEarly, ObjectOfStep DEF FillFails, Outcome

\* The step that is over is not among those to come.
LEMMA Steps ==
  ASSUME PyInv, todo # <<>>, todo' = Tail(todo)
  PROVE  /\ todo' \in Seq(Step) /\ Head(todo) \in Step
         /\ own[KindOf(Head(todo))] = Null
         /\ \A i \in 1..Len(todo') : i + 1 \in 1..Len(todo) /\ todo'[i] = todo[i + 1]
         /\ \A i \in 1..Len(todo') : KindOf(todo'[i]) # KindOf(Head(todo))
         /\ \A kind \in Kind : Past(kind)' => Past(kind) \/ kind = KindOf(Head(todo))
<1>1. todo \in Seq(Step)
  BY DEF PyInv, Types
<1>2. /\ todo' \in Seq(Step) /\ Head(todo) \in Step /\ Head(todo) = todo[1]
      /\ Len(todo) \in Nat /\ Len(todo) >= 1 /\ Len(todo') = Len(todo) - 1
      /\ \A i \in 1..Len(todo') : todo'[i] = todo[i + 1]
  BY <1>1
<1>3. \A i \in 1..Len(todo') : i + 1 \in 1..Len(todo) /\ i + 1 # 1
  BY <1>2
<1>4. \A i \in 1..Len(todo') : KindOf(todo'[i]) # KindOf(Head(todo))
  BY <1>2, <1>3 DEF PyInv, TodoInv
<1>5. ASSUME NEW kind \in Kind, Past(kind)', kind # KindOf(Head(todo))
      PROVE  Past(kind)
  <2>1. ASSUME NEW i \in 1..Len(todo)
        PROVE  KindOf(todo[i]) # kind
    <3>1. CASE i = 1
      BY <1>2, <1>5, <3>1
    <3>2. CASE i # 1
      <4>1. i - 1 \in 1..Len(todo') /\ todo'[i - 1] = todo[i]
        BY <1>2, <3>2
      <4>2. QED
        BY <1>5, <4>1 DEF Past
    <3>3. QED
      BY <3>1, <3>2
  <2>2. QED
    BY <2>1 DEF Past
<1>6. own[KindOf(Head(todo))] = Null
  BY <1>2 DEF PyInv, TodoInv
<1>7. QED
  BY <1>2, <1>3, <1>4, <1>5, <1>6

LEMMA MakeKeeps == ASSUME PyInv, NEW step \in Step, Make(step) PROVE PyInv'
<1> DEFINE h == Spare[1]
<1> DEFINE kind == KindOf(step)
<1> DEFINE object == [kind |-> kind, entry |-> IF step = "key" THEN call.entry ELSE Null]
<1>1. /\ at = "make" /\ at' = "make" /\ at \in Calling /\ todo # <<>> /\ Head(todo) = step
      /\ todo' = Tail(todo) /\ call' = call /\ commands' = commands /\ Fn' = Fn
      /\ entries' = entries /\ sts' = sts /\ leaked' = leaked /\ shown' = shown
      /\ keys' = keys /\ datas' = datas /\ prev' = prev /\ outcome' = outcome
      /\ stood' = stood /\ cut' = cut
  BY DEF Make, Making, Goto, callVars, pageVars, history, Fn, Calling
<1>2. kind \in Kind /\ own[kind] = Null
  BY <1>1, KindsOfSteps, Steps
<1>3. h \in Handle /\ obj[h] = Null
  BY <1>1, <1>2, Room
<1>4. /\ obj \in [Handle -> Object \union {Null}] /\ own \in [Kind -> Handle \union {Null}]
      /\ own' = [own EXCEPT ![kind] = h] /\ obj' = [obj EXCEPT ![h] = object]
  BY ObjectOfStep DEF PyInv, Types, Make, Made
<1>5. object \in Object /\ object # Null /\ object.kind = kind
  <2>1. object \in Object
    BY <1>2 DEF Object, PyInv, Types
  <2>2. QED
    BY <2>1, ObjectAssumption
<1> HIDE DEF h, kind
<1>6. Types'
  <2>1. /\ todo' \in Seq(Step) /\ own' \in [Kind -> Handle \union {Null}]
        /\ obj' \in [Handle -> Object \union {Null}]
    BY <1>1, <1>2, <1>3, <1>4, <1>5, Steps
  <2>2. QED
    BY <1>1, <2>1 DEF PyInv, Types
<1>7. Live' = Live \union {h}
  BY <1>3, <1>4, <1>5 DEF Live
<1>8. /\ Owned(Kind) = Live
      /\ \A other \in Kind : own[other] # Null => own[other] \in Live
      /\ \A other \in Kind : own[other] # Null => obj[own[other]].kind = other
  BY <1>1 DEF PyInv, OwnInv, Owned
<1>9. h # Null /\ h \notin Live
  BY <1>3, EntryAssumption DEF Live
<1>10. \A other \in Kind : own[other] # Null =>
         own'[other] = own[other] /\ obj'[own'[other]] = obj[own[other]]
  BY <1>2, <1>4, <1>8, <1>9 DEF Live
<1>11. own'[kind] = h /\ obj'[h] = object
  BY <1>2, <1>3, <1>4
<1>12. \A other \in Kind \ {kind} : own'[other] = own[other]
  BY <1>4
<1>13. OwnInv'
  <2>1. Owned(Kind)' = Live'
    <3>1. Owned(Kind)' = {own'[other] : other \in Kind} \ {Null}
      BY DEF Owned
    <3>2. Owned(Kind) = {own[other] : other \in Kind} \ {Null}
      BY DEF Owned
    <3>3. \A x \in Owned(Kind)' : x \in Owned(Kind) \/ x = h
      BY <1>11, <1>12, <3>1, <3>2
    <3>4. h \in Owned(Kind)' /\ \A x \in Owned(Kind) : x \in Owned(Kind)'
      BY <1>2, <1>9, <1>10, <1>11, <3>1, <3>2
    <3>5. QED
      BY <1>7, <1>8, <3>3, <3>4
  <2>2. ASSUME NEW other \in Kind, own'[other] # Null
        PROVE  obj'[own'[other]].kind = other
    <3>1. CASE other = kind
      BY <1>5, <1>11, <3>1
    <3>2. CASE other # kind
      BY <1>8, <1>10, <1>12, <2>2, <3>2
    <3>3. QED
      BY <3>1, <3>2
  <2>3. keys = <<>> /\ datas = <<>> /\ prev = Null /\ leaked = {} /\ shown = <<>>
    BY <1>1 DEF PyInv, OwnInv
  <2>4. QED
    BY <1>1, <2>1, <2>2, <2>3 DEF OwnInv
<1>14. TodoInv'
  <2>1. \A i \in 1..Len(todo') :
          /\ i + 1 \in 1..Len(todo) /\ todo'[i] = todo[i + 1] /\ KindOf(todo'[i]) # kind
          /\ KindOf(todo'[i]) \in Kind
    BY <1>1, Steps, KindsOfSteps, ElementOfSeq DEF kind
  <2>2. \A i \in 1..Len(todo') : own'[KindOf(todo'[i])] = Null
    BY <1>12, <2>1 DEF PyInv, TodoInv
  <2>3. \A i, j \in 1..Len(todo') : i # j => i + 1 # j + 1
    OBVIOUS
  <2>4. \A i, j \in 1..Len(todo') : i # j => KindOf(todo'[i]) # KindOf(todo'[j])
    BY <2>1, <2>3 DEF PyInv, TodoInv
  <2>5. /\ \A i \in 1..Len(todo') : todo'[i] = "key" => Fn \in FillsKey
        /\ \A i \in 1..Len(todo') : todo'[i] = "emptyKey" => Fn \in AsksForKey
        /\ \A i \in 1..Len(todo') : Fn = "dump" => todo'[i] \notin {"target", "operations"}
    BY <2>1 DEF PyInv, TodoInv
  <2>6. QED
    BY <1>1, <2>2, <2>4, <2>5 DEF TodoInv
<1>15. /\ Len(todo) >= 1 /\ Len(todo) \in Nat /\ todo[1] = step
  BY <1>1 DEF PyInv, Types
<1>16. KeyInv'
  <2>0. {"key", "data", "target", "operations"} \subseteq Kind
    BY DEF Kind
  <2>1. \A other \in Kind : Past(other)' => Past(other) \/ other = kind
    BY <1>1, Steps DEF kind
  <2>2. Past("key")' /\ Fn \in FillsKey \union AsksForKey => own'["key"] # Null
    BY <1>1, <1>9, <1>10, <1>11, <2>0, <2>1 DEF PyInv, KeyInv
  <2>3. ASSUME Past("key")', Fn \in FillsKey
        PROVE  obj'[own'["key"]].entry \in Key
    <3>1. CASE kind = "key"
      <4>1. step \in {"key", "emptyKey"}
        BY <3>1 DEF kind, KindOf
      <4>2. step # "emptyKey"
        BY <1>15, <2>3 DEF PyInv, TodoInv, FillsKey, AsksForKey
      <4>3. call.entry \in Key
        BY <1>1, <2>3 DEF PyInv, CallInv, FillsKey, OfEntry
      <4>4. QED
        BY <1>11, <3>1, <4>1, <4>2, <4>3
    <3>2. CASE kind # "key"
      <4>1. own["key"] # Null /\ obj[own["key"]].entry \in Key
        BY <1>1, <2>0, <2>1, <2>3, <3>2 DEF PyInv, KeyInv
      <4>2. QED
        BY <1>10, <2>0, <4>1
    <3>3. QED
      BY <3>1, <3>2
  <2>4. Past("data")' /\ Fn = "dump" => own'["data"] # Null
    BY <1>1, <1>9, <1>10, <1>11, <2>0, <2>1 DEF PyInv, KeyInv
  <2>5. Fn = "dump" => kind \notin {"target", "operations"}
    <3>1. Fn = "dump" => step \notin {"target", "operations"}
      BY <1>15 DEF PyInv, TodoInv
    <3>2. QED
      BY <3>1 DEF kind, KindOf
  <2>6. Fn = "dump" => own'["target"] = Null /\ own'["operations"] = Null
    BY <1>1, <1>12, <2>0, <2>5 DEF PyInv, KeyInv
  <2>7. QED
    BY <1>1, <2>2, <2>3, <2>4, <2>6 DEF KeyInv
<1>17. IdleInv' /\ CallInv' /\ PageInv' /\ OrderInv' /\ WholeInv'
  <2>1. IdleInv' /\ PageInv'
    BY <1>1 DEF IdleInv, PageInv, Paging
  <2>2. CallInv'
    BY <1>1 DEF PyInv, CallInv, Paging
  <2>3. OrderInv'
    BY <1>1 DEF PyInv, OrderInv, Paging
  <2>4. WholeInv'
    BY <1>1 DEF PyInv, WholeInv, Paging
  <2>5. QED
    BY <2>1, <2>2, <2>3, <2>4
<1>18. DumpIsWhole'
  BY <1>1 DEF PyInv, DumpIsWhole
<1>19. QED
  BY <1>6, <1>13, <1>14, <1>16, <1>17, <1>18 DEF PyInv

\* The call has no data then, and none to come.
LEMMA DataFailsKeeps == ASSUME PyInv, DataFails PROVE PyInv'
<1>1. /\ at = "make" /\ at' = "make" /\ at \in Calling /\ todo # <<>> /\ Head(todo) = "data"
      /\ Fn \in {"add", "mod"}
      /\ todo' = Tail(todo) /\ call' = call /\ commands' = commands /\ Fn' = Fn
      /\ entries' = entries /\ sts' = sts /\ leaked' = leaked /\ shown' = shown
      /\ keys' = keys /\ datas' = datas /\ prev' = prev /\ outcome' = outcome
      /\ stood' = stood /\ cut' = cut /\ own' = own /\ obj' = obj
  BY DEF DataFails, Making, Goto, callVars, pageVars, history, Fn, Calling
<1>2. Types'
  <2>1. todo' \in Seq(Step)
    BY <1>1, Steps
  <2>2. QED
    BY <1>1, <2>1 DEF PyInv, Types
<1>3. TodoInv'
  <2>1. \A i \in 1..Len(todo') : i + 1 \in 1..Len(todo) /\ todo'[i] = todo[i + 1]
    BY <1>1, Steps
  <2>2. \A i, j \in 1..Len(todo') : i # j => i + 1 # j + 1
    OBVIOUS
  <2>3. QED
    BY <1>1, <2>1, <2>2 DEF PyInv, TodoInv
<1>4. KeyInv'
  <2>1. Past("key")' => Past("key")
    BY <1>1, Steps DEF KindOf, Kind
  <2>2. QED
    BY <1>1, <2>1 DEF PyInv, KeyInv
<1>5. IdleInv' /\ CallInv' /\ PageInv' /\ OrderInv' /\ WholeInv'
  <2>1. IdleInv' /\ PageInv'
    BY <1>1 DEF IdleInv, PageInv, Paging
  <2>2. CallInv'
    BY <1>1 DEF PyInv, CallInv, Paging
  <2>3. OrderInv'
    BY <1>1 DEF PyInv, OrderInv, Paging
  <2>4. WholeInv'
    BY <1>1 DEF PyInv, WholeInv, Paging
  <2>5. QED
    BY <2>1, <2>2, <2>3, <2>4
<1>6. OwnInv'
  <2>1. Owned(Kind)' = Owned(Kind) /\ Live' = Live
    BY <1>1 DEF Owned, Live
  <2>2. QED
    BY <1>1, <2>1 DEF PyInv, OwnInv
<1>7. DumpIsWhole'
  BY <1>1 DEF PyInv, DumpIsWhole
<1>8. QED
  BY <1>2, <1>3, <1>4, <1>5, <1>6, <1>7 DEF PyInv

-----------------------------------------------------------------------------

(***************************************************************************)
(* The call asks the table.                                                *)
(***************************************************************************)

\* An operation leaves the call its handles, and may fill its key.
LEMMA Asks ==
  ASSUME PyInv, at \in Calling, todo = <<>>,
         entries' \subseteq Key, sts' \in Status,
         obj' = obj \/ (own["key"] # Null /\ \E k \in Key : Filled(own["key"], k)),
         at' \in Calling,
         at' = "found" => Fn = "delByHandle",
         at' = "answered" => Fn # "dump",
         at' = "first" => Fn = "dump",
         Fn = "dump" => stood \subseteq entries',
         at' = "first" /\ sts' = "success" =>
           /\ obj'[own["key"]].entry \in Key /\ obj'[own["key"]].entry \in entries'
           /\ \A k \in stood : obj'[own["key"]].entry <= k,
         UNCHANGED <<todo, own, pageVars, leaked, shown, callVars, outcome, history>>
  PROVE  PyInv'
<1>1. /\ todo' = <<>> /\ own' = own /\ keys' = keys /\ datas' = datas /\ prev' = prev
      /\ leaked' = leaked /\ shown' = shown /\ call' = call /\ commands' = commands
      /\ outcome' = outcome /\ stood' = stood /\ cut' = cut /\ Fn' = Fn
  BY DEF pageVars, callVars, history, Fn
<1>2. /\ obj \in [Handle -> Object \union {Null}] /\ own \in [Kind -> Handle \union {Null}]
      /\ Owned(Kind) = Live
      /\ \A kind \in Kind : own[kind] # Null => own[kind] \in Live
  BY DEF PyInv, Types, OwnInv, Owned
<1>3. /\ obj' \in [Handle -> Object \union {Null}]
      /\ Live' = Live
      /\ \A h \in Live : obj'[h].kind = obj[h].kind
      /\ \A h \in Live : obj[h].entry \in Key => obj'[h].entry \in Key
  <2>1. CASE obj' = obj
    BY <1>2, <2>1 DEF Live
  <2>2. CASE own["key"] # Null /\ \E k \in Key : Filled(own["key"], k)
    <3> DEFINE h == own["key"]
    <3>1. PICK k \in Key : obj' = [obj EXCEPT ![h].entry = k]
      BY <2>2 DEF Filled
    <3>2. h \in Live /\ h \in Handle /\ obj[h] \in Object
      BY <1>2, <2>2 DEF Live, Kind
    <3> HIDE DEF h
    <3>3. [obj[h] EXCEPT !.entry = k] \in Object
      BY <3>2 DEF Object
    <3>4. /\ [obj[h] EXCEPT !.entry = k].kind = obj[h].kind
          /\ [obj[h] EXCEPT !.entry = k].entry = k
          /\ [obj[h] EXCEPT !.entry = k] # Null
      BY <3>2, <3>3, ObjectAssumption DEF Object
    <3>5. obj' = [g \in Handle |-> IF g = h THEN [obj[h] EXCEPT !.entry = k] ELSE obj[g]]
      BY <1>2, <3>1
    <3>6. obj' \in [Handle -> Object \union {Null}]
      BY <1>2, <3>3, <3>5
    <3>7. Live' = Live
      BY <3>2, <3>4, <3>5 DEF Live
    <3>8. \A g \in Live : obj'[g].kind = obj[g].kind
      BY <3>4, <3>5 DEF Live
    <3>9. \A g \in Live : obj[g].entry \in Key => obj'[g].entry \in Key
      BY <3>4, <3>5 DEF Live
    <3>10. QED
      BY <3>6, <3>7, <3>8, <3>9
  <2>3. QED
    BY <2>1, <2>2
<1>4. Types'
  <2>1. at' \in {"idle"} \union Calling \union Paging /\ todo' \in Seq(Step)
    BY <1>1
  <2>2. QED
    BY <1>1, <1>3, <2>1 DEF PyInv, Types
<1>5. IdleInv' /\ CallInv' /\ TodoInv' /\ PageInv'
  <2>1. IdleInv' /\ PageInv'
    BY DEF IdleInv, PageInv, Calling, Paging
  <2>2. CallInv'
    BY <1>1 DEF PyInv, CallInv, Calling, Paging
  <2>3. TodoInv'
    BY <1>1 DEF TodoInv
  <2>4. QED
    BY <2>1, <2>2, <2>3
<1>6. OwnInv'
  <2>1. Owned(Kind)' = Owned(Kind)
    BY <1>1 DEF Owned
  <2>2. \A kind \in Kind : own[kind] # Null => obj'[own[kind]].kind = kind
    BY <1>2, <1>3 DEF PyInv, OwnInv
  <2>3. keys = <<>> /\ datas = <<>> /\ prev = Null /\ leaked = {} /\ shown = <<>>
    BY DEF PyInv, OwnInv
  <2>4. QED
    BY <1>1, <1>2, <1>3, <2>1, <2>2, <2>3 DEF OwnInv
<1>7. KeyInv'
  <2>1. \A kind : Past(kind)' = Past(kind)
    BY <1>1 DEF Past
  <2>2. FillsKey \subseteq FillsKey \union AsksForKey /\ "key" \in Kind
    BY DEF Kind
  <2>3. Past("key") /\ Fn \in FillsKey => obj'[own["key"]].entry \in Key
    BY <1>2, <1>3, <2>2 DEF PyInv, KeyInv
  <2>4. QED
    BY <1>1, <2>1, <2>3 DEF PyInv, KeyInv
<1>8. OrderInv' /\ WholeInv' /\ DumpIsWhole'
  <2>1. OrderInv'
    BY <1>1 DEF PyInv, OrderInv, Calling, Paging
  <2>2. WholeInv'
    BY <1>1 DEF WholeInv, Calling, Paging
  <2>3. DumpIsWhole'
    BY <1>1 DEF PyInv, DumpIsWhole, Calling
  <2>4. QED
    BY <2>1, <2>2, <2>3
<1>9. QED
  BY <1>4, <1>5, <1>6, <1>7, <1>8 DEF PyInv

\* What the operations on single entries, and on all of them, may do.
LEMMA Operations ==
  ASSUME entries \subseteq Key, NEW key,
         NEW k \in Key
  PROVE  /\ obj[key].entry \in Key /\ EntryAdd(key)
              => entries' \subseteq Key /\ sts' \in Status /\ obj' = obj
         /\ EntryMod(key) \/ EntryDel(key) \/ EntryGet(key) \/ EntryHandleGet(key)
            \/ Clear \/ TableWide
              => entries' \subseteq Key /\ sts' \in Status /\ obj' = obj
         /\ EntryGetByHandle(k, key) \/ EntryKeyGet(k, key)
              => /\ entries' \subseteq Key /\ sts' \in Status
                 /\ obj' = obj \/ Filled(key, k)
<1> USE DEF Refuses, NotFound, Succeeds, Status
<1>1. obj[key].entry \in Key /\ EntryAdd(key)
        => entries' \subseteq Key /\ sts' \in Status /\ obj' = obj
  BY DEF EntryAdd
<1>2. EntryMod(key) => entries' \subseteq Key /\ sts' \in Status /\ obj' = obj
  BY DEF EntryMod
<1>3. EntryDel(key) => entries' \subseteq Key /\ sts' \in Status /\ obj' = obj
  BY DEF EntryDel
<1>4. Clear \/ TableWide => entries' \subseteq Key /\ sts' \in Status /\ obj' = obj
  BY DEF Clear, TableWide
<1>5. EntryGetByHandle(k, key)
        => entries' \subseteq Key /\ sts' \in Status /\ (obj' = obj \/ Filled(key, k))
  BY DEF EntryGetByHandle
<1>6. QED
  BY <1>1, <1>2, <1>3, <1>4, <1>5 DEF EntryGet, EntryHandleGet, EntryKeyGet

\* The key of a call whose plan is done.
LEMMA KeyAtHand ==
  ASSUME PyInv, at \in Calling, todo = <<>>
  PROVE  /\ Fn \in FillsKey \union AsksForKey => own["key"] # Null
         /\ Fn \in FillsKey => obj[own["key"]].entry \in Key
         /\ Fn \in OfEntry => call.entry \in Key
<1>1. Past("key")
  BY DEF Past
<1>2. QED
  BY <1>1 DEF PyInv, KeyInv, CallInv, Calling

LEMMA AskKeeps == ASSUME PyInv, Ask PROVE PyInv'
<1>1. /\ at' = "answered" /\ at' \in Calling
      /\ UNCHANGED <<todo, own, pageVars, leaked, shown, callVars, outcome, history>>
  BY DEF Ask, Goto, Calling
<1>2. /\ at \in Calling /\ todo = <<>> /\ Fn # "dump"
      /\ Fn \in {"getByHandle", "key"} => Fn \in AsksForKey /\ Fn \in OfEntry
      /\ Fn = "add" => Fn \in FillsKey
  <2>1. at = "found" => todo = <<>>
    BY DEF PyInv, CallInv
  <2>2. QED
    BY <2>1 DEF Ask, Ready, Calling, AsksForKey, OfEntry, FillsKey
<1>3. /\ entries' \subseteq Key /\ sts' \in Status
      /\ obj' = obj \/ (own["key"] # Null /\ \E k \in Key : Filled(own["key"], k))
  <2>0. entries \subseteq Key
    BY DEF PyInv, Types
  <2> DEFINE key == own["key"]
  <2>1. CASE Fn = "add" /\ EntryAdd(key)
    <3>1. obj[key].entry \in Key
      BY <1>2, <2>1, KeyAtHand
    <3>2. QED
      BY <2>0, <2>1, <3>1, Operations
  <2>2. CASE EntryMod(key) \/ EntryDel(key) \/ EntryGet(key) \/ EntryHandleGet(key)
             \/ Clear \/ TableWide
    BY <2>0, <2>2 DEF EntryMod, EntryDel, EntryGet, EntryHandleGet, Clear, TableWide, Refuses,
       NotFound, Succeeds, Status
  <2>3. CASE /\ Fn \in {"getByHandle", "key"}
             /\ EntryGetByHandle(call.entry, key) \/ EntryKeyGet(call.entry, key)
    <3>1. key # Null /\ call.entry \in Key
      BY <1>2, <2>3, KeyAtHand
    <3>2. QED
      BY <2>0, <2>3, <3>1, Operations
  <2>4. QED
    BY <2>1, <2>2, <2>3 DEF Ask, Ready
<1>4. QED
  BY <1>1, <1>2, <1>3, Asks

LEMMA FindKeyKeeps == ASSUME PyInv, FindKey PROVE PyInv'
<1>1. /\ at \in Calling /\ todo = <<>> /\ Fn = "delByHandle" /\ at' = "found" /\ at' \in Calling
      /\ UNCHANGED <<todo, own, pageVars, leaked, shown, callVars, outcome, history>>
      /\ EntryKeyGet(call.entry, own["key"])
  BY DEF FindKey, Ready, Goto, Calling
<1>2. own["key"] # Null /\ call.entry \in Key
  BY <1>1, KeyAtHand DEF AsksForKey, OfEntry
<1>3. /\ entries' \subseteq Key /\ sts' \in Status
      /\ obj' = obj \/ (own["key"] # Null /\ \E k \in Key : Filled(own["key"], k))
  <2>1. entries \subseteq Key
    BY DEF PyInv, Types
  <2>2. QED
    BY <1>1, <1>2, <2>1, Operations
<1>4. QED
  BY <1>1, <1>3, Asks

\* A set of entries has a first one.
LEMMA LowestIsFirst ==
  ASSUME NEW S \in SUBSET Key, S # {}
  PROVE  Lowest(S) \in S /\ \A k \in S : Lowest(S) <= k
<1>1. S \in SUBSET Nat /\ IsFiniteSet(S)
  BY EntryAssumption, FS_Subset
<1>2. Cardinality(S) \in Nat /\ Cardinality(S) # 0
  BY <1>1, FS_CardinalityType, FS_EmptySet
<1>3. /\ \A k \in S : Place(S, k) \in 1..Cardinality(S)
      /\ \A k, l \in S : k < l => Place(S, k) < Place(S, l)
      /\ \A i \in 1..Cardinality(S) : \E k \in S : Place(S, k) = i
  BY <1>1, Places
<1>4. PICK k \in S : Place(S, k) = 1
  BY <1>2, <1>3
<1>5. \A l \in S : k <= l
  <2>1. ASSUME NEW l \in S
        PROVE  ~(l < k)
    <3>1. Place(S, l) \in 1..Cardinality(S)
      BY <1>3
    <3>2. ~(Place(S, l) < 1)
      BY <1>2, <3>1
    <3>3. QED
      BY <1>3, <1>4, <3>2
  <2>2. QED
    BY <1>1, <2>1
<1>6. QED
  BY <1>5 DEF Lowest

LEMMA FirstKeeps == ASSUME PyInv, First PROVE PyInv'
<1>1. /\ at \in Calling /\ todo = <<>> /\ Fn = "dump" /\ at' = "first" /\ at' \in Calling
      /\ UNCHANGED <<todo, own, pageVars, leaked, shown, callVars, outcome, history>>
      /\ EntryGetFirst(own["key"])
  BY DEF First, Ready, Goto, Calling
<1>2. own["key"] \in Handle /\ own["key"] # Null /\ obj[own["key"]] \in Object
  <2>1. own["key"] # Null
    BY <1>1, KeyAtHand DEF AsksForKey
  <2>2. own["key"] \in Live
    BY <1>1, <2>1 DEF PyInv, OwnInv, Owned, Kind
  <2>3. QED
    BY <2>1, <2>2 DEF PyInv, Types, Live
<1>3. entries \subseteq Key /\ stood \subseteq entries
  BY <1>1 DEF PyInv, Types, WholeInv
<1>4. entries' = entries /\ sts' \in Status
  BY <1>1 DEF EntryGetFirst, Refuses, NotFound, Succeeds, Status
<1>5. CASE sts' = "success"
  <2>1. entries # {} /\ Filled(own["key"], Lowest(entries))
    BY <1>1, <1>5 DEF EntryGetFirst, Refuses, NotFound
  <2>2. Lowest(entries) \in entries /\ \A k \in entries : Lowest(entries) <= k
    BY <1>3, <2>1, LowestIsFirst
  <2>3. obj'[own["key"]].entry = Lowest(entries)
    <3>1. obj \in [Handle -> Object \union {Null}]
      BY DEF PyInv, Types
    <3>2. QED
      BY <1>2, <2>1, <3>1 DEF Filled, Object
  <2>4. \E k \in Key : Filled(own["key"], k)
    BY <1>3, <2>1, <2>2
  <2>5. QED
    BY <1>1, <1>2, <1>3, <1>4, <2>2, <2>3, <2>4, Asks
<1>6. CASE sts' # "success"
  <2>1. obj' = obj
    BY <1>1, <1>6 DEF EntryGetFirst, Refuses, NotFound, Succeeds
  <2>2. QED
    BY <1>1, <1>3, <1>4, <1>6, <2>1, Asks
<1>7. QED
  BY <1>5, <1>6

-----------------------------------------------------------------------------

(***************************************************************************)
(* dump.                                                                   *)
(***************************************************************************)

\* The first page starts with the first entry.
LEMMA FirstPageKeeps == ASSUME PyInv, FirstPage PROVE PyInv'
<1> DEFINE key == own["key"]
<1> DEFINE data == own["data"]
<1>1. /\ at = "first" /\ at \in Calling /\ sts = "success" /\ at' = "next" /\ Fn = "dump"
      /\ keys' = <<key>> /\ datas' = <<data>> /\ prev' = key
      /\ leaked' = leaked \union {"flags"} /\ obj' = Freed(Owned({"flags"}))
      /\ own' = NoneOwned /\ entries' = entries /\ sts' = sts /\ todo' = todo /\ shown' = shown
      /\ call' = call /\ commands' = commands /\ Fn' = Fn /\ outcome' = outcome
      /\ stood' = stood /\ cut' = cut
  BY DEF FirstPage, Goto, callVars, history, Fn, Calling, PyInv, CallInv
<1>2. /\ obj \in [Handle -> Object \union {Null}] /\ own \in [Kind -> Handle \union {Null}]
      /\ {"key", "data", "flags", "target", "operations"} = Kind
  BY DEF PyInv, Types, Kind
<1>3. todo = <<>> /\ shown = <<>> /\ leaked = {}
  BY <1>1 DEF PyInv, CallInv, OwnInv
<1>4. /\ key # Null /\ data # Null /\ own["target"] = Null /\ own["operations"] = Null
      /\ obj[key].entry \in Key
  <2>1. Past("key") /\ Past("data")
    BY <1>3 DEF Past
  <2>2. Fn \in FillsKey \union AsksForKey
    BY <1>1 DEF AsksForKey
  <2>3. obj[key].entry \in Key
    BY <1>1 DEF PyInv, WholeInv
  <2>4. QED
    BY <1>1, <2>1, <2>2, <2>3 DEF PyInv, KeyInv
<1>5. /\ Owned(Kind) = Live
      /\ obj[key].kind = "key" /\ obj[data].kind = "data"
      /\ own["flags"] # Null => obj[own["flags"]].kind = "flags"
  BY <1>1, <1>2, <1>4 DEF PyInv, OwnInv
<1>6. /\ key \in Live /\ data \in Live /\ key # own["flags"] /\ data # own["flags"]
      /\ key \in Handle /\ data \in Handle
  <2>1. key \in Live /\ data \in Live
    BY <1>2, <1>4, <1>5 DEF Owned
  <2>2. key # own["flags"] /\ data # own["flags"]
    BY <1>4, <1>5
  <2>3. QED
    BY <2>1, <2>2 DEF Live
<1>7. /\ \A h \in Handle : obj'[h] = IF h = own["flags"] THEN Null ELSE obj[h]
      /\ obj' \in [Handle -> Object \union {Null}]
  <2>1. \A h \in Handle : h \in Owned({"flags"}) <=> h = own["flags"]
    BY EntryAssumption DEF Owned
  <2>2. QED
    BY <1>1, <1>2, <2>1, ObjectTypes DEF Freed
<1>8. /\ key \in Live' /\ data \in Live' /\ obj'[key] = obj[key] /\ obj'[data] = obj[data]
  BY <1>6, <1>7 DEF Live
<1>9. Live' = {key} \union {data}
  <2>1. ASSUME NEW h \in Live'
        PROVE  h \in {key, data}
    <3>1. h \in Live /\ h # own["flags"]
      BY <1>7 DEF Live
    <3>2. PICK kind \in Kind : h = own[kind] /\ h # Null
      BY <1>5, <3>1 DEF Owned
    <3>3. kind \in {"key", "data"}
      BY <1>2, <1>4, <3>1, <3>2
    <3>4. QED
      BY <3>2, <3>3
  <2>2. QED
    BY <1>8, <2>1
<1> HIDE DEF key, data
<1>10. /\ Len(keys') = 1 /\ Len(datas') = 1 /\ keys'[1] = key /\ datas'[1] = data
       /\ keys' \in Seq(Handle) /\ datas' \in Seq(Handle) /\ keys' # <<>>
       /\ \A i \in 1..1 : i = 1
  BY <1>1, <1>6
<1>11. Types'
  <2>1. own' \in [Kind -> Handle \union {Null}]
    BY <1>1 DEF NoneOwned
  <2>2. leaked' \subseteq Kind
    BY <1>1, <1>2, <1>3
  <2>3. prev' \in Handle \union {Null} /\ at' \in {"idle"} \union Calling \union Paging
    BY <1>1, <1>6 DEF Paging
  <2>4. QED
    BY <1>1, <1>7, <1>10, <2>1, <2>2, <2>3 DEF PyInv, Types
<1>12. IdleInv' /\ CallInv' /\ OwnInv' /\ TodoInv' /\ KeyInv'
  <2>1. IdleInv' /\ OwnInv' /\ KeyInv'
    BY <1>1 DEF IdleInv, OwnInv, KeyInv, Calling
  <2>2. CallInv'
    BY <1>1, <1>3 DEF PyInv, CallInv
  <2>3. TodoInv'
    BY <1>1, <1>3 DEF TodoInv
  <2>4. QED
    BY <2>1, <2>2, <2>3
<1>13. PageInv'
  <2>1. Range(keys') = {key} /\ Range(datas') = {data}
    BY <1>10 DEF Range
  <2>2. 1 <= Page
    BY PageAssumption
  <2>3. QED
    BY <1>1, <1>4, <1>5, <1>8, <1>9, <1>10, <2>1, <2>2 DEF PageInv, Paging
<1>14. OrderInv'
  BY <1>1, <1>3 DEF OrderInv
<1>15. WholeInv'
  <2>1. stood \subseteq entries /\ stood \subseteq Key /\ Key \subseteq Nat
    BY <1>1, EntryAssumption DEF PyInv, Types, WholeInv
  <2>2. Mark' = key
    BY <1>1 DEF Mark
  <2>3. ~cut => obj[key].entry \in entries /\ \A k \in stood : obj[key].entry <= k
    BY <1>1 DEF PyInv, WholeInv, key
  <2>4. ASSUME NEW k \in stood, obj[key].entry <= k, k <= obj[key].entry
        PROVE  Passed(k)'
    <3>1. k \in Nat /\ obj[key].entry \in Nat
      BY <1>4, <2>1 DEF key
    <3>2. k = obj[key].entry
      BY <2>4, <3>1
    <3>3. obj'[keys'[1]].entry = k
      BY <1>8, <1>10, <3>2
    <3>4. QED
      BY <1>10, <3>3 DEF Passed
  <2>5. QED
    BY <1>1, <1>8, <2>1, <2>2, <2>3, <2>4 DEF WholeInv
<1>16. DumpIsWhole'
  BY <1>1, <1>3 DEF DumpIsWhole
<1>17. QED
  BY <1>11, <1>12, <1>13, <1>14, <1>15, <1>16 DEF PyInv

\* New keys and data have their kinds, and name no entry.
LEMMA Pages ==
  ASSUME PyInv, NEW newKeys, NEW newData
  PROVE  /\ WithPage(newKeys, newData) \in [Handle -> Object \union {Null}]
         /\ \A h \in Handle : WithPage(newKeys, newData)[h] =
              IF h \in newKeys THEN [kind |-> "key", entry |-> Null]
              ELSE IF h \in newData THEN [kind |-> "data", entry |-> Null] ELSE obj[h]
<1>1. obj \in [Handle -> Object \union {Null}]
  BY DEF PyInv, Types
<1>2. \A h \in Handle : /\ KeyAllocate(h)[h] = [kind |-> "key", entry |-> Null]
                        /\ DataAllocate(h)[h] = [kind |-> "data", entry |-> Null]
  BY <1>1 DEF KeyAllocate, DataAllocate, Made
<1>3. \A h \in Handle : WithPage(newKeys, newData)[h] =
         IF h \in newKeys THEN [kind |-> "key", entry |-> Null]
         ELSE IF h \in newData THEN [kind |-> "data", entry |-> Null] ELSE obj[h]
  BY <1>2 DEF WithPage
<1>4. /\ [kind |-> "key", entry |-> Null] \in Object
      /\ [kind |-> "data", entry |-> Null] \in Object
  BY DEF Object, Kind
<1>5. \A h \in Handle : WithPage(newKeys, newData)[h] \in Object \union {Null}
  BY <1>1, <1>3, <1>4
<1>6. WithPage(newKeys, newData) \in [Handle -> Object \union {Null}]
  BY <1>5 DEF WithPage
<1>7. QED
  BY <1>3, <1>6

LEMMA MakePageFailsKeeps == ASSUME PyInv, MakePageFails PROVE PyInv'
<1>1. PICK n \in 0..(Page - Len(keys) - 1) : \E m \in {n, n + 1} :
        End("early", WithPage(Range(SubSeq(Spare, 1, m)), Range(SubSeq(Spare, m + 1, m + n))), {})
  BY DEF MakePageFails
<1>2. PICK m \in {n, n + 1} :
        End("early", WithPage(Range(SubSeq(Spare, 1, m)), Range(SubSeq(Spare, m + 1, m + n))), {})
  BY <1>1
<1> DEFINE o == WithPage(Range(SubSeq(Spare, 1, m)), Range(SubSeq(Spare, m + 1, m + n)))
<1>3. o \in [Handle -> Object \union {Null}] /\ End("early", o, {}) /\ UNCHANGED shown
  BY <1>2, Pages DEF MakePageFails
<1> HIDE DEF o
<1>4. QED
  BY <1>3, EndsEarly DEF Outcome

\* There are names for the rest of a page of keys, and as many data.
LEMMA RoomForPage ==
  ASSUME PyInv, at = "next"
  PROVE  /\ Len(keys) \in {0, 1}
         /\ \A i \in 1..(2 * (Page - Len(keys))) :
              Spare[i] \in Handle /\ obj[Spare[i]] = Null
         /\ \A i, j \in 1..(2 * (Page - Len(keys))) : i # j => Spare[i] # Spare[j]
<1> DEFINE n == Page - Len(keys)
<1> DEFINE S == Handle \ Live
<1>1. /\ own = NoneOwned /\ prev \in Live /\ Len(datas) = Len(keys)
      /\ keys \in Seq(Handle) /\ datas \in Seq(Handle)
      /\ Live = {prev} \union Range(keys) \union Range(datas)
      /\ Len(keys) = 0 \/ (Len(keys) = 1 /\ keys[1] = prev)
  BY DEF PyInv, Types, PageInv, Paging
<1>2. Live \union Held = Live
  <2>1. Owned(Kind) = {}
    BY <1>1 DEF Owned, NoneOwned
  <2>2. QED
    BY <1>1, <2>1 DEF Held
<1>3. /\ Page \in Nat /\ Page >= 2 /\ Cardinality(Handle) \in Nat
      /\ Cardinality(Handle) >= 2 * Page + 1
  BY PageAssumption, HandleAssumption, EntryAssumption, FS_CardinalityType
<1>4. n \in Nat /\ IsFiniteSet(Live) /\ Cardinality(Live) <= 1 + Len(keys)
  <2>1. CASE Len(keys) = 0
    <3>1. Live = {prev}
      BY <1>1, <2>1 DEF Range
    <3>2. IsFiniteSet(Live) /\ Cardinality(Live) = 1
      BY <3>1, FS_Singleton
    <3>3. n \in Nat /\ 1 + Len(keys) = 1
      BY <1>3, <2>1
    <3> HIDE DEF n
    <3>4. Cardinality(Live) <= 1 + Len(keys)
      BY <3>2, <3>3
    <3>5. QED
      BY <3>2, <3>3, <3>4
  <2>2. CASE Len(keys) = 1 /\ keys[1] = prev
    <3>1. Range(keys) = {prev} /\ Range(datas) = {datas[1]}
      BY <1>1, <2>2 DEF Range
    <3>2. Live = {prev} \union {datas[1]}
      BY <1>1, <3>1
    <3>3. IsFiniteSet({prev}) /\ Cardinality({prev}) = 1
      BY FS_Singleton
    <3>4. /\ IsFiniteSet({prev} \union {datas[1]})
          /\ Cardinality({prev} \union {datas[1]}) = 1 \/
             Cardinality({prev} \union {datas[1]}) = 1 + 1
      BY <3>3, FS_AddElement
    <3>5. Cardinality(Live) \in {1, 2} /\ IsFiniteSet(Live)
      BY <3>2, <3>4
    <3>6. n \in Nat /\ 1 + Len(keys) = 2
      BY <1>3, <2>2
    <3> HIDE DEF n
    <3>7. Cardinality(Live) <= 1 + Len(keys)
      BY <3>5, <3>6
    <3>8. QED
      BY <3>5, <3>6, <3>7
  <2>3. QED
    BY <1>1, <2>1, <2>2
<1>5. Cardinality(S) >= 2 * n
  <2> DEFINE size == Cardinality(Handle)
  <2> DEFINE live == Cardinality(Live)
  <2> DEFINE spare == Cardinality(S)
  <2>1. Handle \cap Live = Live
    BY DEF Live
  <2>2. spare = size - live
    <3>1. Cardinality(Handle \ Live) = Cardinality(Handle) - Cardinality(Handle \cap Live)
      BY EntryAssumption, FS_Difference
    <3>2. QED
      BY <2>1, <3>1
  <2>3. live \in Nat /\ live <= 1 + Len(keys) /\ size \in Nat /\ size >= 2 * Page + 1
    BY <1>3, <1>4, FS_CardinalityType
  <2> HIDE DEF size, live, spare
  <2>4. spare >= 2 * Page - Len(keys)
    BY <1>1, <1>3, <2>2, <2>3
  <2>5. 2 * Page - Len(keys) >= 2 * n
    <3>1. Len(keys) \in Nat
      BY <1>1
    <3>2. 2 * (Page - Len(keys)) = 2 * Page - 2 * Len(keys)
      BY <1>3, <3>1
    <3>3. QED
      BY <1>3, <3>1, <3>2
  <2>6. spare \in Int /\ 2 * n \in Int /\ 2 * Page - Len(keys) \in Int
    BY <1>1, <1>3, <1>4, <2>2, <2>3
  <2>7. spare >= 2 * n
    BY <2>4, <2>5, <2>6
  <2>8. QED
    BY <2>7 DEF spare
<1>6. 2 * n \in Nat
  BY <1>4
<1> HIDE DEF n
<1>7. /\ \A i \in 1..(2 * n) : Spare[i] \in S
      /\ \A i, j \in 1..(2 * n) : i # j => Spare[i] # Spare[j]
  BY <1>2, <1>5, <1>6, Spares
<1>8. QED
  BY <1>1, <1>7 DEF n, Live

LEMMA MakePageKeeps == ASSUME PyInv, MakePage PROVE PyInv' /\ obj'[prev] = obj[prev]
<1> DEFINE n == Page - Len(keys)
<1> DEFINE new == SubSeq(Spare, 1, n)
<1> DEFINE newData == SubSeq(Spare, n + 1, 2 * n)
<1>1. /\ at = "next" /\ at' = "nextN" /\ Fn = "dump" /\ Fn' = Fn
      /\ obj' = WithPage(Range(new), Range(newData))
      /\ keys' = keys \o new /\ datas' = datas \o newData
      /\ entries' = entries /\ sts' = sts /\ todo' = todo /\ own' = own /\ prev' = prev
      /\ leaked' = leaked /\ shown' = shown /\ call' = call /\ commands' = commands
      /\ outcome' = outcome /\ stood' = stood /\ cut' = cut /\ todo = <<>>
  BY DEF MakePage, Goto, callVars, history, Fn, PyInv, CallInv, Paging
<1>2. /\ own = NoneOwned
      /\ prev \in Live /\ obj[prev].kind = "key" /\ obj[prev].entry \in Key
      /\ Len(datas) = Len(keys)
      /\ \A i \in 1..Len(keys) : /\ keys[i] \in Live /\ obj[keys[i]].kind = "key"
                                 /\ datas[i] \in Live /\ obj[datas[i]].kind = "data"
      /\ \A i, j \in 1..Len(keys) : i # j => keys[i] # keys[j] /\ datas[i] # datas[j]
      /\ Len(keys) = 0 \/ (Len(keys) = 1 /\ keys[1] = prev)
  BY <1>1 DEF PyInv, PageInv, Paging
<1>3. /\ Len(keys) \in {0, 1} /\ Page \in Nat /\ Page >= 2 /\ n \in Nat /\ 2 * n \in Nat
      /\ n + 1 \in Int /\ Len(keys) + n = Page
      /\ keys \in Seq(Handle) /\ datas \in Seq(Handle)
  <2>1. keys \in Seq(Handle) /\ datas \in Seq(Handle)
    BY DEF PyInv, Types
  <2>2. Len(keys) \in {0, 1}
    BY <1>2
  <2>3. Page \in Nat /\ Page >= 2
    BY PageAssumption
  <2>4. n \in Nat /\ 2 * n \in Nat /\ n + 1 \in Int /\ Len(keys) + n = Page
    <3>1. CASE Len(keys) = 0
      BY <2>3, <3>1
    <3>2. CASE Len(keys) = 1
      BY <2>3, <3>2
    <3>3. QED
      BY <2>2, <3>1, <3>2
  <2> HIDE DEF n
  <2>5. QED
    BY <2>1, <2>2, <2>3, <2>4
<1> HIDE DEF n
<1>4. /\ \A i \in 1..(2 * n) : Spare[i] \in Handle /\ obj[Spare[i]] = Null
      /\ \A i, j \in 1..(2 * n) : i # j => Spare[i] # Spare[j]
  BY <1>1, RoomForPage DEF n
<1>5. /\ \A i \in 1..n : i \in 1..(2 * n)
      /\ \A i \in 1..n : n + i \in 1..(2 * n)
      /\ \A i \in (n + 1)..(2 * n) : i \in 1..(2 * n)
      /\ 2 * n - (n + 1) + 1 = n
  BY <1>3
<1>6. /\ new \in Seq(Handle) /\ Len(new) = n /\ \A i \in 1..n : new[i] = Spare[i]
  <2>1. \A i \in 1..n : Spare[i] \in Handle
    BY <1>4, <1>5
  <2>2. /\ new \in Seq(Handle) /\ Len(new) = IF 1 <= n THEN n - 1 + 1 ELSE 0
        /\ \A i \in 1..(n - 1 + 1) : new[i] = Spare[1 + i - 1]
    BY <1>3, <2>1, SubSeqProperties
  <2> HIDE DEF new
  <2>3. Len(new) = n /\ n - 1 + 1 = n
    BY <1>3, <2>2
  <2>4. \A i \in 1..n : 1 + i - 1 = i
    BY <1>3
  <2>5. QED
    BY <2>2, <2>3, <2>4
<1>7. /\ newData \in Seq(Handle) /\ Len(newData) = n /\ \A i \in 1..n : newData[i] = Spare[n + i]
  <2>1. \A i \in (n + 1)..(2 * n) : Spare[i] \in Handle
    BY <1>4, <1>5
  <2>2. /\ newData \in Seq(Handle)
        /\ Len(newData) = IF n + 1 <= 2 * n THEN 2 * n - (n + 1) + 1 ELSE 0
        /\ \A i \in 1..(2 * n - (n + 1) + 1) : newData[i] = Spare[(n + 1) + i - 1]
    BY <1>3, <2>1, SubSeqProperties
  <2> HIDE DEF newData
  <2>3. Len(newData) = n
    BY <1>3, <1>5, <2>2
  <2>4. \A i \in 1..n : (n + 1) + i - 1 = n + i
    BY <1>3
  <2>5. QED
    BY <1>5, <2>2, <2>3, <2>4
<1> HIDE DEF new, newData
<1>8. /\ \A i \in 1..n : new[i] \in Handle /\ obj[new[i]] = Null
      /\ \A i \in 1..n : newData[i] \in Handle /\ obj[newData[i]] = Null
      /\ \A i, j \in 1..n : i # j => new[i] # new[j] /\ newData[i] # newData[j]
      /\ \A i, j \in 1..n : new[i] # newData[j]
  <2>1. ASSUME NEW i \in 1..n
        PROVE  /\ new[i] \in Handle /\ obj[new[i]] = Null
               /\ newData[i] \in Handle /\ obj[newData[i]] = Null
    <3>1. new[i] = Spare[i] /\ newData[i] = Spare[n + i]
      BY <1>6, <1>7
    <3>2. i \in 1..(2 * n) /\ n + i \in 1..(2 * n)
      BY <1>5
    <3>3. QED
      BY <1>4, <3>1, <3>2
  <2>2. ASSUME NEW i \in 1..n, NEW j \in 1..n
        PROVE  /\ i # j => new[i] # new[j] /\ newData[i] # newData[j]
               /\ new[i] # newData[j]
    <3>1. /\ new[i] = Spare[i] /\ newData[i] = Spare[n + i]
          /\ new[j] = Spare[j] /\ newData[j] = Spare[n + j]
      BY <1>6, <1>7
    <3>2. /\ i \in 1..(2 * n) /\ n + i \in 1..(2 * n)
          /\ j \in 1..(2 * n) /\ n + j \in 1..(2 * n)
      BY <1>5
    <3>3. (i # j => n + i # n + j) /\ i # n + j
      BY <1>3
    <3>4. i # j => new[i] # new[j]
      BY <1>4, <3>1, <3>2
    <3>5. i # j => newData[i] # newData[j]
      BY <1>4, <3>1, <3>2, <3>3
    <3>6. new[i] # newData[j]
      BY <1>4, <3>1, <3>2, <3>3
    <3>7. QED
      BY <3>4, <3>5, <3>6
  <2>3. QED
    BY <2>1, <2>2
<1>9. Range(new) = {new[i] : i \in 1..n} /\ Range(newData) = {newData[i] : i \in 1..n}
  <2>1. DOMAIN new = 1..n /\ DOMAIN newData = 1..n
    BY <1>6, <1>7
  <2>2. QED
    BY <2>1 DEF Range
<1>10. \A h \in Handle : obj'[h] =
         IF h \in Range(new) THEN [kind |-> "key", entry |-> Null]
         ELSE IF h \in Range(newData) THEN [kind |-> "data", entry |-> Null] ELSE obj[h]
  BY <1>1, Pages
<1>11. obj' \in [Handle -> Object \union {Null}]
  BY <1>1, Pages
<1>12. /\ [kind |-> "key", entry |-> Null] # Null /\ [kind |-> "data", entry |-> Null] # Null
  <2>1. /\ [kind |-> "key", entry |-> Null] \in Object
        /\ [kind |-> "data", entry |-> Null] \in Object
    BY DEF Object, Kind
  <2>2. QED
    BY <2>1, ObjectAssumption
<1>13. \A h \in Live : h \in Live' /\ obj'[h] = obj[h]
  BY <1>8, <1>9, <1>10 DEF Live
<1>14. /\ \A i \in 1..n : /\ new[i] \in Live' /\ obj'[new[i]].kind = "key"
                          /\ obj'[new[i]].entry = Null
       /\ \A i \in 1..n : newData[i] \in Live' /\ obj'[newData[i]].kind = "data"
  <2>1. \A i \in 1..n : /\ obj'[new[i]] = [kind |-> "key", entry |-> Null]
                        /\ new[i] \in Handle
    BY <1>8, <1>9, <1>10
  <2>2. \A i \in 1..n : /\ obj'[newData[i]] = [kind |-> "data", entry |-> Null]
                        /\ newData[i] \in Handle
    BY <1>8, <1>9, <1>10
  <2>3. QED
    BY <1>12, <2>1, <2>2 DEF Live
<1>15. /\ keys' \in Seq(Handle) /\ Len(keys') = Page
       /\ datas' \in Seq(Handle) /\ Len(datas') = Page
       /\ \A i \in 1..Page : keys'[i] = IF i <= Len(keys) THEN keys[i] ELSE new[i - Len(keys)]
       /\ \A i \in 1..Page :
            datas'[i] = IF i <= Len(keys) THEN datas[i] ELSE newData[i - Len(keys)]
  <2>1. /\ keys \o new \in Seq(Handle) /\ Len(keys \o new) = Len(keys) + Len(new)
        /\ \A i \in 1..(Len(keys) + Len(new)) : (keys \o new)[i] =
             IF i <= Len(keys) THEN keys[i] ELSE new[i - Len(keys)]
    BY <1>3, <1>6, ConcatProperties
  <2>2. /\ datas \o newData \in Seq(Handle) /\ Len(datas \o newData) = Len(datas) + Len(newData)
        /\ \A i \in 1..(Len(datas) + Len(newData)) : (datas \o newData)[i] =
             IF i <= Len(datas) THEN datas[i] ELSE newData[i - Len(datas)]
    BY <1>3, <1>7, ConcatProperties
  <2>3. Len(keys) + Len(new) = Page /\ Len(datas) + Len(newData) = Page
    BY <1>2, <1>3, <1>6, <1>7
  <2>4. Len(datas) = Len(keys)
    BY <1>2
  <2>5. QED
    BY <1>1, <2>1, <2>2, <2>3, <2>4
<1>16. \A i \in 1..Page : \/ i <= Len(keys) /\ i \in 1..Len(keys)
                          \/ ~(i <= Len(keys)) /\ i - Len(keys) \in 1..n
  BY <1>3
<1>17. Types'
  <2>1. at' \in {"idle"} \union Calling \union Paging
    BY <1>1 DEF Paging
  <2>2. QED
    BY <1>1, <1>11, <1>15, <2>1 DEF PyInv, Types
<1>18. IdleInv' /\ CallInv' /\ OwnInv' /\ TodoInv' /\ KeyInv'
  <2>1. IdleInv' /\ OwnInv' /\ KeyInv'
    BY <1>1 DEF IdleInv, OwnInv, KeyInv, Calling
  <2>2. CallInv'
    BY <1>1 DEF PyInv, CallInv
  <2>3. TodoInv'
    BY <1>1 DEF TodoInv
  <2>4. QED
    BY <2>1, <2>2, <2>3
<1>19. PageInv'
  <2>1. prev' \in Live' /\ obj'[prev'].kind = "key" /\ obj'[prev'].entry \in Key
    BY <1>1, <1>2, <1>13
  <2>2. ASSUME NEW i \in 1..Page
        PROVE  /\ keys'[i] \in Live' /\ obj'[keys'[i]].kind = "key"
               /\ datas'[i] \in Live' /\ obj'[datas'[i]].kind = "data"
               /\ keys'[i] = prev => i = 1
               /\ keys'[i] # prev => obj'[keys'[i]].entry = Null
    <3>1. CASE i <= Len(keys) /\ i \in 1..Len(keys)
      <4>1. keys'[i] = keys[i] /\ datas'[i] = datas[i] /\ i = 1
        BY <1>3, <1>15, <3>1
      <4>2. keys[1] = prev
        BY <1>2, <3>1, <4>1
      <4>3. QED
        BY <1>2, <1>13, <3>1, <4>1, <4>2
    <3>2. CASE ~(i <= Len(keys)) /\ i - Len(keys) \in 1..n
      <4>1. keys'[i] = new[i - Len(keys)] /\ datas'[i] = newData[i - Len(keys)]
        BY <1>15, <3>2
      <4>2. keys'[i] # prev
        BY <1>2, <1>8, <3>2, <4>1 DEF Live
      <4>3. QED
        BY <1>14, <3>2, <4>1, <4>2
    <3>3. QED
      BY <1>16, <3>1, <3>2
  <2>3. ASSUME NEW i \in 1..Page, NEW j \in 1..Page, i # j
        PROVE  keys'[i] # keys'[j] /\ datas'[i] # datas'[j]
    <3>1. CASE i <= Len(keys) /\ j <= Len(keys)
      <4>1. i \in 1..Len(keys) /\ j \in 1..Len(keys)
        BY <1>16, <3>1
      <4>2. QED
        BY <1>2, <1>15, <2>3, <3>1, <4>1
    <3>2. CASE i <= Len(keys) /\ ~(j <= Len(keys))
      <4>1. keys'[i] \in Live /\ datas'[i] \in Live
        BY <1>2, <1>15, <1>16, <3>2
      <4>2. obj[keys'[j]] = Null /\ obj[datas'[j]] = Null
        <5>1. /\ j - Len(keys) \in 1..n
              /\ keys'[j] = new[j - Len(keys)] /\ datas'[j] = newData[j - Len(keys)]
          BY <1>15, <1>16, <3>2
        <5>2. QED
          BY <1>8, <5>1
      <4>3. QED
        BY <4>1, <4>2 DEF Live
    <3>3. CASE ~(i <= Len(keys)) /\ j <= Len(keys)
      <4>1. keys'[j] \in Live /\ datas'[j] \in Live
        BY <1>2, <1>15, <1>16, <3>3
      <4>2. obj[keys'[i]] = Null /\ obj[datas'[i]] = Null
        <5>1. /\ i - Len(keys) \in 1..n
              /\ keys'[i] = new[i - Len(keys)] /\ datas'[i] = newData[i - Len(keys)]
          BY <1>15, <1>16, <3>3
        <5>2. QED
          BY <1>8, <5>1
      <4>3. QED
        BY <4>1, <4>2 DEF Live
    <3>4. CASE ~(i <= Len(keys)) /\ ~(j <= Len(keys))
      <4>1. /\ keys'[i] = new[i - Len(keys)] /\ datas'[i] = newData[i - Len(keys)]
            /\ keys'[j] = new[j - Len(keys)] /\ datas'[j] = newData[j - Len(keys)]
            /\ i - Len(keys) \in 1..n /\ j - Len(keys) \in 1..n
        BY <1>15, <1>16, <3>4
      <4>2. i - Len(keys) # j - Len(keys)
        BY <1>3, <2>3
      <4>3. QED
        BY <1>8, <4>1, <4>2
    <3>5. QED
      BY <3>1, <3>2, <3>3, <3>4
  <2>4. Len(keys') <= Page /\ Len(datas') = Len(keys')
    BY <1>3, <1>15
  <2>5. own' = NoneOwned /\ prev' = prev /\ at' = "nextN" /\ Len(keys') = Page
    BY <1>1, <1>2, <1>15
  <2>6. /\ \A i \in 1..Len(keys') : /\ keys'[i] \in Live' /\ obj'[keys'[i]].kind = "key"
                                    /\ datas'[i] \in Live' /\ obj'[datas'[i]].kind = "data"
        /\ \A i \in 1..Len(keys') : keys'[i] = prev' => i = 1
        /\ \A i \in 1..Len(keys') : keys'[i] # prev' => obj'[keys'[i]].entry = Null
    BY <2>2, <2>5
  <2>7. \A i, j \in 1..Len(keys') : i # j => keys'[i] # keys'[j] /\ datas'[i] # datas'[j]
    BY <2>3, <2>5
  <2>8. QED
    BY <2>1, <2>4, <2>5, <2>6, <2>7 DEF PageInv
<1>20. OrderInv'
  <2>1. obj'[prev] = obj[prev]
    BY <1>2, <1>13
  <2>2. ASSUME NEW i \in 1..Page, keys'[i] = prev
        PROVE  shown = <<>>
    <3>1. CASE i <= Len(keys)
      BY <1>1, <1>15, <1>16, <2>2, <3>1 DEF PyInv, OrderInv, Paging
    <3>2. CASE ~(i <= Len(keys))
      BY <1>2, <1>8, <1>15, <1>16, <2>2, <3>2 DEF Live
    <3>3. QED
      BY <3>1, <3>2
  <2>3. QED
    BY <1>1, <1>15, <2>1, <2>2 DEF PyInv, OrderInv, Paging
<1>21. WholeInv'
  <2>1. Mark = prev /\ Mark' = prev /\ obj'[prev] = obj[prev]
    BY <1>1, <1>2, <1>13 DEF Mark
  <2>2. ASSUME NEW k, Passed(k)
        PROVE  Passed(k)'
    <3>1. CASE \E i \in 1..Len(shown) : shown[i] = k
      BY <1>1, <3>1 DEF Passed
    <3>2. CASE \E i \in 1..Len(keys) : obj[keys[i]].entry = k
      <4>1. PICK i \in 1..Len(keys) : obj[keys[i]].entry = k
        BY <3>2
      <4>2. i \in 1..Len(keys') /\ keys'[i] = keys[i]
        BY <1>3, <1>15
      <4>3. obj'[keys'[i]].entry = k
        BY <1>2, <1>13, <4>1, <4>2
      <4>4. QED
        BY <4>2, <4>3 DEF Passed
    <3>3. QED
      BY <2>2, <3>1, <3>2 DEF Passed
  <2>3. /\ Fn = "dump" => stood \subseteq entries
        /\ ~cut => /\ obj[prev].entry \in entries
                   /\ \A k \in stood : k <= obj[prev].entry => Passed(k)
    BY <1>1, <2>1 DEF PyInv, WholeInv, Paging
  <2>4. QED
    BY <1>1, <2>1, <2>2, <2>3 DEF WholeInv
<1>22. DumpIsWhole'
  BY <1>1 DEF PyInv, DumpIsWhole
<1>23. QED
  BY <1>2, <1>13, <1>17, <1>18, <1>19, <1>20, <1>21, <1>22 DEF PyInv

LEMMA NoNextNKeeps == ASSUME PyInv, NoNextN PROVE PyInv'
<1>1. /\ at = "next" /\ at' = "page" /\ "get_next_n" \notin commands /\ Fn = "dump" /\ Fn' = Fn
      /\ entries' = entries /\ obj' = obj /\ sts' = sts /\ todo' = todo /\ own' = own
      /\ keys' = keys /\ datas' = datas /\ prev' = prev /\ leaked' = leaked /\ shown' = shown
      /\ call' = call /\ commands' = commands /\ outcome' = outcome /\ stood' = stood
      /\ cut' = cut /\ todo = <<>>
  BY DEF NoNextN, Goto, callVars, pageVars, history, Fn, PyInv, CallInv, Paging
<1>2. /\ Live' = Live /\ keys \in Seq(Handle)
      /\ prev \in Live /\ obj[prev].entry \in Key
      /\ Len(keys) = 0 \/ (Len(keys) = 1 /\ keys[1] = prev)
  BY <1>1 DEF PyInv, Types, PageInv, Paging, Live
<1>3. Types'
  BY <1>1 DEF PyInv, Types, Paging
<1>4. IdleInv' /\ CallInv' /\ OwnInv' /\ TodoInv' /\ KeyInv'
  <2>1. IdleInv' /\ OwnInv' /\ KeyInv'
    BY <1>1 DEF IdleInv, OwnInv, KeyInv, Calling
  <2>2. CallInv'
    BY <1>1 DEF PyInv, CallInv
  <2>3. TodoInv'
    BY <1>1 DEF TodoInv
  <2>4. QED
    BY <2>1, <2>2, <2>3
<1>5. PageInv'
  <2>1. ASSUME NEW i \in 1..Len(keys)
        PROVE  keys[i] = prev /\ i = 1
    <3>1. CASE Len(keys) = 0
      BY <3>1
    <3>2. CASE Len(keys) = 1 /\ keys[1] = prev
      BY <3>2
    <3>3. QED
      BY <1>2, <3>1, <3>2
  <2>2. \A i, j \in 1..Len(keys) : ~(i < j)
    BY <2>1
  <2>3. QED
    BY <1>1, <1>2, <2>1, <2>2 DEF PyInv, PageInv, Paging
<1>6. OrderInv'
  BY <1>1 DEF PyInv, OrderInv, Paging
<1>7. WholeInv'
  <2>1. Mark = prev
    BY <1>1 DEF Mark
  <2>2. Mark' = prev
    BY <1>1, <1>2 DEF Mark, Last
  <2>3. \A k : Passed(k)' = Passed(k)
    BY <1>1 DEF Passed
  <2>4. /\ Fn = "dump" => stood \subseteq entries
        /\ ~cut => /\ obj[prev].entry \in entries
                   /\ \A k \in stood : k <= obj[prev].entry => Passed(k)
    BY <1>1, <2>1 DEF PyInv, WholeInv, Paging
  <2>5. QED
    BY <1>1, <2>2, <2>3, <2>4 DEF WholeInv
<1>8. DumpIsWhole'
  BY <1>1 DEF PyInv, DumpIsWhole
<1>9. QED
  BY <1>3, <1>4, <1>5, <1>6, <1>7, <1>8 DEF PyInv

\* What is printed goes on from what has been printed, in order, up to the
\* last key of the page.
LEMMA Prints ==
  ASSUME PyInv, at = "page", keys # <<>>,
         shown' = shown \o [i \in 1..Len(keys) |-> KeyGetValue(keys[i])]
  PROVE  /\ shown' \in Seq(Key)
         /\ \A i, j \in 1..Len(shown') : i < j => shown'[i] < shown'[j]
         /\ \A i \in 1..Len(shown') : shown'[i] <= obj[keys[Len(keys)]].entry
         /\ \A k : Passed(k) => \E i \in 1..Len(shown') : shown'[i] = k
<1> DEFINE n == Len(shown)
<1> DEFINE page == [i \in 1..Len(keys) |-> KeyGetValue(keys[i])]
<1> DEFINE entry(i) == obj[keys[i]].entry
<1>1. /\ shown \in Seq(Key) /\ keys \in Seq(Handle) /\ n \in Nat
      /\ Len(keys) \in Nat /\ Len(keys) >= 1
  BY DEF PyInv, Types
<1>2. /\ obj[prev].entry \in Key
      /\ \A i \in 1..Len(keys) :
           entry(i) \in Key /\ (keys[i] # prev => obj[prev].entry < entry(i))
      /\ \A i, j \in 1..Len(keys) : i < j => entry(i) < entry(j)
      /\ \A i, j \in 1..Len(shown) : i < j => shown[i] < shown[j]
      /\ \A i \in 1..Len(shown) : shown[i] <= obj[prev].entry
      /\ \A i \in 1..Len(keys) : keys[i] = prev => shown = <<>>
  BY DEF PyInv, PageInv, OrderInv, Paging
<1>3. Key \subseteq Nat
  BY EntryAssumption
<1> HIDE DEF entry
<1>4. page \in Seq(Key) /\ Len(page) = Len(keys) /\ \A i \in 1..Len(keys) : page[i] = entry(i)
  <2>1. \A i \in 1..Len(keys) : KeyGetValue(keys[i]) = entry(i)
    BY DEF KeyGetValue, entry
  <2>2. \A i \in 1..Len(keys) : KeyGetValue(keys[i]) \in Key
    BY <1>2, <2>1
  <2>3. page \in Seq(Key) /\ Len(page) = Len(keys)
    BY <1>1, <2>2
  <2>4. QED
    BY <2>1, <2>3
<1> HIDE DEF page
<1>5. /\ shown' \in Seq(Key) /\ Len(shown') = n + Len(keys)
      /\ \A i \in 1..(n + Len(keys)) :
           shown'[i] = IF i <= n THEN shown[i] ELSE page[i - n]
  BY <1>1, <1>4, ConcatProperties DEF page
<1>6. ASSUME NEW i \in 1..Len(shown')
      PROVE  \/ i <= n /\ i \in 1..n /\ shown'[i] = shown[i] /\ shown[i] \in Key
             \/ /\ ~(i <= n) /\ i - n \in 1..Len(keys) /\ shown'[i] = entry(i - n)
                /\ entry(i - n) \in Key
  <2>1. CASE i <= n
    <3>1. i \in 1..n
      BY <1>1, <1>5, <2>1
    <3>2. QED
      BY <1>1, <1>5, <2>1, <3>1, ElementOfSeq
  <2>2. CASE ~(i <= n)
    <3>1. i - n \in 1..Len(keys)
      BY <1>1, <1>5, <2>2
    <3>2. QED
      BY <1>2, <1>4, <1>5, <2>2, <3>1
  <2>3. QED
    BY <2>1, <2>2
<1>7. ASSUME NEW i \in 1..n, NEW j \in 1..Len(keys)
      PROVE  shown[i] < entry(j)
  <2>1. keys[j] # prev
    <3>1. shown # <<>>
      BY <1>1
    <3>2. QED
      BY <1>2, <3>1
  <2>2. shown[i] \in Nat /\ obj[prev].entry \in Nat /\ entry(j) \in Nat
    BY <1>1, <1>2, <1>3, ElementOfSeq
  <2>3. shown[i] <= obj[prev].entry /\ obj[prev].entry < entry(j)
    BY <1>2, <2>1
  <2>4. QED
    BY <2>2, <2>3
<1>8. ASSUME NEW i \in 1..Len(shown'), NEW j \in 1..Len(shown'), i < j
      PROVE  shown'[i] < shown'[j]
  <2>1. CASE i <= n /\ j <= n
    BY <1>2, <1>6, <1>8, <2>1
  <2>2. CASE i <= n /\ ~(j <= n)
    BY <1>6, <1>7, <2>2
  <2>3. CASE ~(i <= n) /\ ~(j <= n)
    <3>1. /\ i - n \in 1..Len(keys) /\ shown'[i] = entry(i - n)
          /\ j - n \in 1..Len(keys) /\ shown'[j] = entry(j - n)
      BY <1>6, <2>3
    <3>2. i - n < j - n
      BY <1>1, <1>5, <1>8
    <3>3. QED
      BY <1>2, <3>1, <3>2
  <2>4. ~(~(i <= n) /\ j <= n)
    BY <1>1, <1>5, <1>8
  <2>5. QED
    BY <2>1, <2>2, <2>3, <2>4
<1>9. ASSUME NEW i \in 1..Len(shown')
      PROVE  shown'[i] <= entry(Len(keys))
  <2>0. Len(keys) \in 1..Len(keys)
    BY <1>1
  <2>1. CASE i <= n
    <3>1. shown[i] < entry(Len(keys)) /\ shown'[i] = shown[i]
      BY <1>6, <1>7, <2>0, <2>1
    <3>2. shown[i] \in Nat /\ entry(Len(keys)) \in Nat
      BY <1>2, <1>3, <1>6, <2>0, <2>1
    <3>3. QED
      BY <3>1, <3>2
  <2>2. CASE ~(i <= n)
    <3>1. i - n \in 1..Len(keys) /\ shown'[i] = entry(i - n)
      BY <1>6, <2>2
    <3>2. entry(i - n) \in Nat /\ entry(Len(keys)) \in Nat
      BY <1>2, <1>3, <2>0, <3>1
    <3>3. \A j \in 1..Len(keys) : j = Len(keys) \/ j < Len(keys)
      BY <1>1
    <3>4. entry(i - n) = entry(Len(keys)) \/ entry(i - n) < entry(Len(keys))
      BY <1>2, <2>0, <3>1, <3>3
    <3>5. QED
      BY <3>1, <3>2, <3>4
  <2>3. QED
    BY <2>1, <2>2
<1>10. ASSUME NEW k, Passed(k)
       PROVE  \E i \in 1..Len(shown') : shown'[i] = k
  <2>1. CASE \E i \in 1..Len(shown) : shown[i] = k
    <3>1. PICK i \in 1..n : shown[i] = k
      BY <2>1
    <3>2. i \in 1..(n + Len(keys)) /\ i <= n
      BY <1>1
    <3>3. QED
      BY <1>5, <3>1, <3>2
  <2>2. CASE \E i \in 1..Len(keys) : obj[keys[i]].entry = k
    <3>1. PICK i \in 1..Len(keys) : entry(i) = k
      BY <2>2 DEF entry
    <3>2. n + i \in 1..(n + Len(keys)) /\ ~(n + i <= n) /\ (n + i) - n = i
      BY <1>1
    <3>3. shown'[n + i] = k
      BY <1>4, <1>5, <3>1, <3>2
    <3>4. QED
      BY <1>5, <3>2, <3>3
  <2>3. QED
    BY <1>10, <2>1, <2>2 DEF Passed
<1>11. QED
  BY <1>5, <1>8, <1>9, <1>10 DEF entry

LEMMA ShowPageKeeps == ASSUME PyInv, ShowPage PROVE PyInv'
<1> DEFINE freed == Range(Front(keys)) \union Range(datas)
<1> DEFINE last == Last(keys)
<1> DEFINE n == Len(keys)
<1>1. /\ at = "page" /\ PageRead /\ keys # <<>> /\ Fn = "dump"
      /\ shown' = shown \o [i \in 1..Len(keys) |-> KeyGetValue(keys[i])]
  BY DEF ShowPage, PageRead, PyInv, CallInv, Paging
<1>2. /\ shown' \in Seq(Key)
      /\ \A i, j \in 1..Len(shown') : i < j => shown'[i] < shown'[j]
      /\ \A i \in 1..Len(shown') : shown'[i] <= obj[keys[n]].entry
      /\ \A k : Passed(k) => \E i \in 1..Len(shown') : shown'[i] = k
  BY <1>1, Prints
<1>3. CASE /\ Len(keys) < Page
           /\ End("ok", Freed(freed \union {last}), {})
  <2>1. ASSUME "get_next_n" \in commands, ~cut
        PROVE  stood \subseteq Range(shown')
    <3>1. \A k \in stood : Passed(k)
      BY <1>1, <1>3, <2>1 DEF PyInv, WholeInv
    <3>2. \A k \in stood : \E i \in DOMAIN shown' : shown'[i] = k
      BY <1>2, <3>1
    <3>3. QED
      BY <3>2 DEF Range
  <2>2. QED
    BY <1>2, <1>3, <2>1, Ends, ObjectTypes DEF Outcome
<1>4. CASE /\ Len(keys) >= Page
           /\ Keep(Freed(freed), {last})
           /\ prev' = last
           /\ keys' = <<>> /\ datas' = <<>>
           /\ Goto("next")
           /\ UNCHANGED <<entries, sts, todo, own>>
  <2>1. /\ at' = "next" /\ prev' = last /\ keys' = <<>> /\ datas' = <<>>
        /\ entries' = entries /\ sts' = sts /\ todo' = todo /\ own' = own /\ call' = call
        /\ commands' = commands /\ outcome' = outcome /\ stood' = stood /\ cut' = cut
        /\ Fn' = Fn /\ todo = <<>> /\ own = NoneOwned
    BY <1>1, <1>4 DEF Goto, callVars, history, Fn, PyInv, CallInv, PageInv, Paging
  <2>2. /\ keys \in Seq(Handle) /\ datas \in Seq(Handle) /\ n \in Nat /\ n >= 1 /\ n \in 1..n
        /\ Len(datas) = n /\ last = keys[n]
        /\ obj \in [Handle -> Object \union {Null}]
    BY <1>1 DEF PyInv, Types, PageInv, Paging, Last
  <2>3. /\ \A i \in 1..n : /\ keys[i] \in Live /\ obj[keys[i]].kind = "key"
                           /\ datas[i] \in Live /\ obj[datas[i]].kind = "data"
        /\ \A i, j \in 1..n : i # j => keys[i] # keys[j] /\ datas[i] # datas[j]
        /\ obj[last].entry \in Key
    BY <1>1, <2>2 DEF PyInv, PageInv, Paging
  <2>4. last \notin freed
    <3>1. ASSUME NEW h \in Range(Front(keys))
          PROVE  h # last
      <4>1. PICK i \in 1..(n - 1) : h = keys[i]
        BY <2>2 DEF Range, Front
      <4>2. i \in 1..n /\ i # n
        BY <2>2
      <4>3. QED
        BY <2>2, <2>3, <4>1, <4>2
    <3>2. ASSUME NEW h \in Range(datas)
          PROVE  h # last
      <4>1. PICK i \in 1..n : h = datas[i]
        BY <2>2 DEF Range
      <4>2. QED
        BY <2>2, <2>3, <4>1
    <3>3. QED
      BY <3>1, <3>2
  <2>5. last \in Handle /\ obj[last] # Null /\ obj[last].kind = "key"
    BY <2>2, <2>3 DEF Live
  <2> DEFINE o == Freed(freed)
  <2>6. /\ o \in [Handle -> Object \union {Null}] /\ o[last] = obj[last]
        /\ obj' = [h \in Handle |-> IF h \in {last} THEN o[h] ELSE Null]
        /\ leaked' = leaked \union {o[h].kind : h \in {g \in Handle \ {last} : o[g] # Null}}
    BY <1>4, <2>4, <2>5, ObjectTypes DEF Keep, Freed
  <2> HIDE DEF o, last
  <2>7. obj' \in [Handle -> Object \union {Null}] /\ obj'[last] = obj[last] /\ Live' = {last}
    BY <2>5, <2>6 DEF Live
  <2>8. leaked' \subseteq Kind
    <3>1. \A h \in Handle : o[h] # Null => o[h].kind \in Kind
      BY <2>6 DEF Object
    <3>2. leaked \subseteq Kind
      BY DEF PyInv, Types
    <3>3. QED
      BY <2>6, <3>1, <3>2
  <2>9. Types'
    <3>1. at' \in {"idle"} \union Calling \union Paging /\ prev' \in Handle \union {Null}
      BY <2>1, <2>5 DEF Paging
    <3>2. QED
      BY <1>2, <2>1, <2>7, <2>8, <3>1 DEF PyInv, Types
  <2>10. IdleInv' /\ CallInv' /\ OwnInv' /\ TodoInv' /\ KeyInv'
    <3>1. IdleInv' /\ OwnInv' /\ KeyInv'
      BY <2>1 DEF IdleInv, OwnInv, KeyInv, Calling
    <3>2. CallInv'
      BY <1>1, <2>1 DEF PyInv, CallInv
    <3>3. TodoInv'
      BY <2>1 DEF TodoInv
    <3>4. QED
      BY <3>1, <3>2, <3>3
  <2>11. PageInv'
    <3>1. Range(keys') = {} /\ Range(datas') = {} /\ Len(keys') = 0 /\ Len(datas') = 0
      BY <2>1 DEF Range
    <3>2. prev' \in Live' /\ obj'[prev'].kind = "key" /\ obj'[prev'].entry \in Key
      BY <2>1, <2>3, <2>5, <2>7
    <3>3. Live' = {prev'} \union Range(keys') \union Range(datas')
      BY <2>1, <2>7, <3>1
    <3>4. 0 <= Page
      BY PageAssumption
    <3>5. QED
      BY <2>1, <3>1, <3>2, <3>3, <3>4 DEF PageInv
  <2>12. OrderInv'
    <3>1. Len(keys') = 0
      BY <2>1
    <3>2. \A i \in 1..Len(shown') : shown'[i] <= obj'[prev'].entry
      BY <1>2, <2>1, <2>2, <2>7
    <3>3. QED
      BY <1>2, <3>1, <3>2 DEF OrderInv
  <2>13. WholeInv'
    <3>1. Mark = last /\ Mark' = last
      BY <1>1, <2>1 DEF Mark, last
    <3>2. \A k : Passed(k) => Passed(k)'
      BY <1>2 DEF Passed
    <3>3. /\ stood \subseteq entries
          /\ ~cut => /\ obj[last].entry \in entries
                     /\ \A k \in stood : k <= obj[last].entry => Passed(k)
      BY <1>1, <3>1 DEF PyInv, WholeInv, Paging
    <3>4. QED
      BY <2>1, <2>7, <3>1, <3>2, <3>3 DEF WholeInv
  <2>14. DumpIsWhole'
    BY <1>2, <2>1 DEF DumpIsWhole
  <2>15. QED
    BY <2>9, <2>10, <2>11, <2>12, <2>13, <2>14 DEF PyInv
<1>5. QED
  BY <1>3, <1>4 DEF ShowPage

LEMMA CountTo == ASSUME NEW n \in Nat PROVE Cardinality(1..n) = n
<1>1. Cardinality(1..n) = IF 1 > n THEN 0 ELSE n - 1 + 1
  BY FS_Interval
<1>2. QED
  BY <1>1

\* What a driver does with the entries it has found.
Fills(asked, F) ==
  obj' = [h \in Handle |->
    IF \E l \in F : asked[Place(F, l)] = h
      THEN [obj[h] EXCEPT !.entry = CHOOSE l \in F : asked[Place(F, l)] = h]
      ELSE obj[h]]

\* Keys that have been made for a page.
Blank(asked) ==
  /\ \A i \in 1..Len(asked) : asked[i] \in Live /\ obj[asked[i]].entry = Null
  /\ \A i, j \in 1..Len(asked) : i # j => asked[i] # asked[j]

\* The first c of them name the entries of F, in order.
Named(asked, c, F) ==
  /\ obj' \in [Handle -> Object \union {Null}] /\ Live' = Live
  /\ \A h \in Live : obj'[h].kind = obj[h].kind
  /\ \A i \in 1..c : obj'[asked[i]].entry \in F
  /\ \A i, j \in 1..c : i < j => obj'[asked[i]].entry < obj'[asked[j]].entry
  /\ \A k \in F : \E i \in 1..c : obj'[asked[i]].entry = k
  /\ \A h \in Live : (\A i \in 1..c : h # asked[i]) => obj'[h] = obj[h]

\* A driver fills the first keys of the page, in order, with the entries it has
\* found, and leaves the others as they are.
LEMMA Filling ==
  ASSUME NEW asked \in Seq(Handle), NEW p,
         entries \subseteq Key, obj \in [Handle -> Object \union {Null}],
         Blank(asked),
         NEW F, F = FirstOf(After(obj[p].entry), Len(asked)),
         Fills(asked, F)
  PROVE  /\ NumReturned(asked) \in 0..Len(asked)
         /\ Named(asked, NumReturned(asked), F)
         /\ NumReturned(asked) < Len(asked) => F = After(obj[p].entry)
<1>0. /\ \A i \in 1..Len(asked) : asked[i] \in Live /\ obj[asked[i]].entry = Null
      /\ \A i, j \in 1..Len(asked) : i # j => asked[i] # asked[j]
  BY DEF Blank
<1> USE <1>0
<1> DEFINE S == After(obj[p].entry)
<1> DEFINE n == Len(asked)
<1> DEFINE c == Cardinality(F)
<1> DEFINE choice(h) == CHOOSE l \in F : asked[Place(F, l)] = h
<1> DEFINE filled(h) == \E l \in F : asked[Place(F, l)] = h
<1>1. S \in SUBSET Key /\ S \in SUBSET Nat /\ IsFiniteSet(S) /\ n \in Nat
  <2>1. S \in SUBSET Key
    BY DEF After
  <2>2. S \in SUBSET Nat /\ IsFiniteSet(S)
    BY <2>1, EntryAssumption, FS_Subset
  <2>3. n \in Nat
    OBVIOUS
  <2>4. QED
    BY <2>1, <2>2, <2>3
<1>2. /\ F \in SUBSET S /\ IsFiniteSet(F) /\ c \in 0..n /\ (c < n => F = S)
  BY <1>1, Firsts
<1>3. F \in SUBSET Nat /\ F \in SUBSET Key
  BY <1>1, <1>2
<1>4. /\ \A k \in F : Place(F, k) \in 1..c
      /\ \A k, l \in F : k < l => Place(F, k) < Place(F, l)
      /\ \A i \in 1..c : \E k \in F : Place(F, k) = i
  BY <1>2, <1>3, Places
<1> HIDE DEF S, c
<1>5. \A i \in 1..c : i \in 1..n
  BY <1>1, <1>2
<1>6. \A h : filled(h) => choice(h) \in F /\ asked[Place(F, choice(h))] = h
  OBVIOUS
<1>7. \A h \in Handle : obj'[h] = IF filled(h) THEN [obj[h] EXCEPT !.entry = choice(h)] ELSE obj[h]
  BY DEF Fills
<1>8. DOMAIN obj' = Handle /\ obj' = [h \in Handle |-> obj'[h]]
  BY DEF Fills
<1> HIDE DEF choice, filled
<1>9. ASSUME NEW h, filled(h)
      PROVE  h \in Live /\ h \in Handle /\ obj[h] \in Object
  <2>1. Place(F, choice(h)) \in 1..n
    BY <1>4, <1>5, <1>6, <1>9
  <2>2. h \in Live
    BY <1>6, <1>9, <2>1
  <2>3. QED
    BY <2>2 DEF Live
<1>10. ASSUME NEW i \in 1..c
       PROVE  filled(asked[i]) /\ Place(F, choice(asked[i])) = i
  <2>1. PICK k \in F : Place(F, k) = i
    BY <1>4
  <2>2. filled(asked[i])
    BY <2>1 DEF filled
  <2>3. /\ choice(asked[i]) \in F /\ asked[Place(F, choice(asked[i]))] = asked[i]
        /\ Place(F, choice(asked[i])) \in 1..n /\ i \in 1..n
    BY <1>4, <1>5, <1>6, <2>2
  <2>4. QED
    BY <2>2, <2>3
<1>11. ASSUME NEW h \in Handle, filled(h)
       PROVE  /\ obj'[h] \in Object /\ obj'[h] # Null
              /\ obj'[h].kind = obj[h].kind /\ obj'[h].entry = choice(h)
              /\ \E i \in 1..c : h = asked[i]
  <2>1. choice(h) \in Key /\ obj[h] \in Object /\ Place(F, choice(h)) \in 1..c
    BY <1>3, <1>4, <1>6, <1>9, <1>11
  <2>2. obj'[h] = [obj[h] EXCEPT !.entry = choice(h)]
    BY <1>7, <1>11
  <2>3. obj'[h] \in Object /\ obj'[h].kind = obj[h].kind /\ obj'[h].entry = choice(h)
    BY <2>1, <2>2 DEF Object
  <2>4. QED
    BY <1>6, <1>11, <2>1, <2>3, ObjectAssumption
<1>12. obj' \in [Handle -> Object \union {Null}]
  BY <1>7, <1>8, <1>11
<1>13. Live' = Live
  <2>1. \A h \in Handle : obj'[h] # Null <=> obj[h] # Null
    BY <1>7, <1>9, <1>11 DEF Live
  <2>2. QED
    BY <2>1 DEF Live
<1>14. \A h \in Live : obj'[h].kind = obj[h].kind
  BY <1>7, <1>11 DEF Live
<1>15. ASSUME NEW i \in 1..c
       PROVE  obj'[asked[i]].entry \in F /\ Place(F, obj'[asked[i]].entry) = i
  <2>1. filled(asked[i]) /\ Place(F, choice(asked[i])) = i
    BY <1>10
  <2>2. asked[i] \in Handle /\ choice(asked[i]) \in F
    BY <1>6, <1>9, <2>1
  <2>3. obj'[asked[i]].entry = choice(asked[i])
    BY <1>11, <2>1, <2>2
  <2>4. QED
    BY <2>1, <2>2, <2>3
<1>16. ASSUME NEW h \in Live, \A i \in 1..c : h # asked[i]
       PROVE  obj'[h] = obj[h]
  <2>1. h \in Handle
    BY DEF Live
  <2>2. ~filled(h)
    BY <1>11, <1>16, <2>1
  <2>3. QED
    BY <1>7, <2>1, <2>2
<1>17. ASSUME NEW i \in 1..n
       PROVE  obj'[asked[i]].entry # Null <=> i \in 1..c
  <2>1. CASE i \in 1..c
    BY <1>3, <1>15, <2>1, EntryAssumption
  <2>2. CASE i \notin 1..c
    <3>1. \A j \in 1..c : asked[i] # asked[j]
      BY <1>5, <2>2
    <3>2. obj'[asked[i]] = obj[asked[i]]
      BY <1>16, <3>1
    <3>3. QED
      BY <2>2, <3>2
  <2>3. QED
    BY <2>1, <2>2
<1>18. NumReturned(asked) = c
  <2>1. {i \in 1..n : obj'[asked[i]].entry # Null} = 1..c
    BY <1>5, <1>17
  <2>2. Cardinality(1..c) = c
    BY <1>1, <1>2, CountTo
  <2>3. QED
    BY <2>1, <2>2 DEF NumReturned
<1>19. ASSUME NEW i \in 1..c, NEW j \in 1..c, i < j
       PROVE  obj'[asked[i]].entry < obj'[asked[j]].entry
  <2> DEFINE k == obj'[asked[i]].entry
  <2> DEFINE l == obj'[asked[j]].entry
  <2>1. k \in F /\ l \in F /\ Place(F, k) = i /\ Place(F, l) = j
    BY <1>15
  <2> HIDE DEF k, l
  <2>2. k \in Nat /\ l \in Nat
    BY <1>3, <2>1
  <2>3. ~(l < k) /\ ~(l = k)
    <3>1. i \in Int /\ j \in Int /\ ~(j < i) /\ i # j
      BY <1>1, <1>2, <1>19
    <3>2. QED
      BY <1>4, <2>1, <3>1
  <2>4. k < l
    BY <2>2, <2>3
  <2>5. QED
    BY <2>4 DEF k, l
<1>20. ASSUME NEW k \in F
       PROVE  \E i \in 1..c : obj'[asked[i]].entry = k
  <2> DEFINE i == Place(F, k)
  <2> DEFINE l == obj'[asked[i]].entry
  <2>1. i \in 1..c
    BY <1>4
  <2>2. l \in F /\ Place(F, l) = i
    BY <1>15, <2>1
  <2> HIDE DEF l
  <2>3. ~(l < k) /\ ~(k < l)
    <3>1. i \in Int /\ ~(i < i)
      BY <1>1, <1>2, <2>1
    <3>2. QED
      BY <1>4, <2>2, <3>1
  <2>4. k \in Nat /\ l \in Nat
    BY <1>3, <2>2
  <2>5. l = k
    BY <2>3, <2>4
  <2>6. QED
    BY <2>1, <2>5 DEF l
<1>21. QED
  <2>1. \A i \in 1..c : obj'[asked[i]].entry \in F
    BY <1>15
  <2>2. c \in 0..n /\ (c < n => F = S)
    BY <1>2 DEF c
  <2>3. QED
    BY <1>12, <1>13, <1>14, <1>16, <1>18, <1>19, <1>20, <2>1, <2>2 DEF S, Named

\* The one key of the page that comes from earlier functions, if there is one,
\* is that of the entry the dump goes on from.
LEMMA BeforeIsPrev ==
  ASSUME PyInv, at = "nextN"
  PROVE  /\ Before \in {0, 1}
         /\ Before = 1 => keys[1] = prev
         /\ \A i \in (Before + 1)..Len(keys) : keys[i] # prev /\ obj[keys[i]].entry = Null
<1> DEFINE full == {i \in 1..Len(keys) : obj[keys[i]].entry # Null}
<1>1. /\ Len(keys) = Page /\ Page \in Nat /\ Page >= 2
      /\ obj[prev].entry # Null
      /\ \A i \in 1..Len(keys) : keys[i] = prev => i = 1
      /\ \A i \in 1..Len(keys) : keys[i] # prev => obj[keys[i]].entry = Null
  BY PageAssumption, EntryAssumption DEF PyInv, PageInv, Paging
<1>2. CASE keys[1] = prev
  <2>1. full = {1}
    BY <1>1, <1>2
  <2>2. Before = 1
    BY <2>1, FS_Singleton DEF Before
  <2>3. \A i \in (1 + 1)..Len(keys) : i \in 1..Len(keys) /\ i # 1
    BY <1>1
  <2>4. QED
    BY <1>1, <1>2, <2>2, <2>3
<1>3. CASE keys[1] # prev
  <2>1. full = {}
    BY <1>1, <1>3
  <2>2. Before = 0
    BY <2>1, FS_EmptySet DEF Before
  <2>3. \A i \in (0 + 1)..Len(keys) : i \in 1..Len(keys)
    BY <1>1
  <2>4. QED
    BY <1>1, <1>3, <2>2, <2>3
<1>4. QED
  BY <1>2, <1>3

\* The page has then the first entries that follow, and all of them if it is
\* not full.
LEMMA Turns ==
  ASSUME PyInv, at = "nextN", NEW b, b = Before, NEW c \in 0..(Page - b),
         at' = "page", entries' = entries, sts' \in Status,
         keys' = SubSeq(keys, 1, b + c), datas' = SubSeq(datas, 1, b + c),
         leaked' = leaked \union {"flags"},
         UNCHANGED <<todo, own, prev, shown, callVars, outcome, history>>,
         NEW F, F \in SUBSET After(obj[prev].entry),
         \A k \in After(obj[prev].entry) : \A l \in F : k <= l => k \in F,
         NEW asked, \A i \in 1..c : asked[i] = keys[b + i], Named(asked, c, F),
         sts' \in {"success", "notFound"} /\ obj[prev].entry \in entries /\ c < Page - b
           => F = After(obj[prev].entry)
  PROVE  PyInv' /\ obj'[prev] = obj[prev]
<1>0. /\ obj' \in [Handle -> Object \union {Null}] /\ Live' = Live
      /\ \A h \in Live : obj'[h].kind = obj[h].kind
      /\ \A i \in 1..c : obj'[keys[b + i]].entry \in F
      /\ \A i, j \in 1..c : i < j => obj'[keys[b + i]].entry < obj'[keys[b + j]].entry
      /\ \A k \in F : \E i \in 1..c : obj'[keys[b + i]].entry = k
      /\ \A h \in Live : (\A i \in 1..c : h # keys[b + i]) => obj'[h] = obj[h]
  <2>1. \A i \in 1..c : asked[i] = keys[b + i]
    OBVIOUS
  <2>2. /\ obj' \in [Handle -> Object \union {Null}] /\ Live' = Live
        /\ \A h \in Live : obj'[h].kind = obj[h].kind
    BY DEF Named
  <2>3. \A i \in 1..c : obj'[keys[b + i]].entry \in F
    BY <2>1 DEF Named
  <2>4. \A i, j \in 1..c : i < j => obj'[keys[b + i]].entry < obj'[keys[b + j]].entry
    BY <2>1 DEF Named
  <2>5. \A k \in F : \E i \in 1..c : obj'[keys[b + i]].entry = k
    BY <2>1 DEF Named
  <2>6. \A h \in Live : (\A i \in 1..c : h # keys[b + i]) => obj'[h] = obj[h]
    BY <2>1 DEF Named
  <2>7. QED
    BY <2>2, <2>3, <2>4, <2>5, <2>6
<1> DEFINE m == b + c
<1> DEFINE entry == obj[prev].entry
<1>1. /\ todo' = todo /\ own' = own /\ prev' = prev /\ shown' = shown /\ call' = call
      /\ commands' = commands /\ outcome' = outcome /\ stood' = stood /\ cut' = cut /\ Fn' = Fn
      /\ todo = <<>> /\ Fn = "dump"
  BY DEF callVars, history, Fn, PyInv, CallInv, Paging
<1>2. /\ own = NoneOwned
      /\ prev \in Live /\ obj[prev].kind = "key" /\ entry \in Key
      /\ Len(datas) = Page /\ Len(keys) = Page
      /\ \A i \in 1..Page : /\ keys[i] \in Live /\ obj[keys[i]].kind = "key"
                            /\ datas[i] \in Live /\ obj[datas[i]].kind = "data"
      /\ \A i, j \in 1..Page : i # j => keys[i] # keys[j] /\ datas[i] # datas[j]
      /\ \A i \in 1..Page : keys[i] = prev => i = 1
      /\ \A i \in 1..Page : keys[i] # prev => obj[keys[i]].entry = Null
      /\ keys \in Seq(Handle) /\ datas \in Seq(Handle)
      /\ entries \subseteq Key /\ stood \subseteq entries
  <2>1. stood \subseteq entries
    BY <1>1 DEF PyInv, WholeInv
  <2>2. keys \in Seq(Handle) /\ datas \in Seq(Handle) /\ entries \subseteq Key
    BY DEF PyInv, Types
  <2>3. QED
    BY <2>1, <2>2 DEF PyInv, PageInv, Paging
<1>3. /\ b \in {0, 1} /\ (b = 1 => keys[1] = prev)
      /\ \A i \in (b + 1)..Page : keys[i] # prev /\ obj[keys[i]].entry = Null
  BY <1>2, BeforeIsPrev
<1>4. /\ Page \in Nat /\ Page >= 2 /\ Key \subseteq Nat /\ Null \notin Key
  BY PageAssumption, EntryAssumption
<1>5. /\ b \in Nat /\ c \in Nat /\ m \in Nat /\ m <= Page
      /\ \A i \in 1..m : i \in 1..Page
      /\ \A i \in 1..c : b + i \in 1..m /\ b + i \in (b + 1)..Page
      /\ \A i \in 1..m : (b = 1 /\ i = 1) \/ (i - b \in 1..c /\ b + (i - b) = i /\ ~(i <= b))
  <2>1. CASE b = 0
    BY <1>4, <2>1
  <2>2. CASE b = 1
    BY <1>4, <2>2
  <2>3. QED
    BY <1>3, <2>1, <2>2
<1>6. /\ keys' \in Seq(Handle) /\ Len(keys') = m /\ \A i \in 1..m : keys'[i] = keys[i]
      /\ datas' \in Seq(Handle) /\ Len(datas') = m /\ \A i \in 1..m : datas'[i] = datas[i]
  <2> HIDE DEF m
  <2>1. /\ 1 \in Int /\ m \in Int
        /\ \A i \in 1..m : keys[i] \in Handle /\ datas[i] \in Handle
    BY <1>2, <1>5, ElementOfSeq
  <2>2. /\ SubSeq(keys, 1, m) \in Seq(Handle)
        /\ Len(SubSeq(keys, 1, m)) = IF 1 <= m THEN m - 1 + 1 ELSE 0
        /\ \A i \in 1..(m - 1 + 1) : SubSeq(keys, 1, m)[i] = keys[1 + i - 1]
    BY ONLY <2>1, SubSeqProperties
  <2>3. /\ SubSeq(datas, 1, m) \in Seq(Handle)
        /\ Len(SubSeq(datas, 1, m)) = IF 1 <= m THEN m - 1 + 1 ELSE 0
        /\ \A i \in 1..(m - 1 + 1) : SubSeq(datas, 1, m)[i] = datas[1 + i - 1]
    BY ONLY <2>1, SubSeqProperties
  <2>4. keys' = SubSeq(keys, 1, m) /\ datas' = SubSeq(datas, 1, m)
    BY DEF m
  <2>5. m - 1 + 1 = m /\ (IF 1 <= m THEN m - 1 + 1 ELSE 0) = m
    BY <1>5
  <2>6. \A i \in 1..m : 1 + i - 1 = i
    BY <1>5
  <2>7. QED
    BY <2>2, <2>3, <2>4, <2>5, <2>6
<1> HIDE DEF m
<1>7. obj'[prev] = obj[prev]
  <2>1. \A i \in 1..c : prev # keys[b + i]
    BY <1>3, <1>5
  <2>2. QED
    BY <1>0, <1>2, <2>1
<1>8. F \subseteq entries /\ F \subseteq Nat /\ \A k \in F : entry < k
  <2>1. F \subseteq {k \in entries : entry < k}
    BY DEF After
  <2>2. QED
    BY <1>2, <1>4, <2>1
<1>9. ASSUME NEW i \in 1..m
      PROVE  \/ b = 1 /\ i = 1 /\ keys'[i] = prev /\ obj'[keys'[i]].entry = entry
             \/ /\ i - b \in 1..c /\ keys'[i] = keys[b + (i - b)] /\ keys'[i] # prev
                /\ obj'[keys'[i]].entry \in F /\ entry < obj'[keys'[i]].entry
  <2>1. CASE b = 1 /\ i = 1
    BY <1>3, <1>6, <1>7, <2>1
  <2>2. CASE i - b \in 1..c /\ b + (i - b) = i /\ ~(i <= b)
    <3>1. keys'[i] = keys[b + (i - b)]
      BY <1>6, <2>2
    <3>2. obj'[keys'[i]].entry \in F
      BY <1>0, <2>2, <3>1
    <3>3. keys'[i] # prev
      BY <1>3, <1>5, <2>2, <3>1
    <3>4. QED
      BY <1>8, <2>2, <3>1, <3>2, <3>3
  <2>3. QED
    BY <1>5, <2>1, <2>2
<1>10. ASSUME NEW i \in 1..m, NEW j \in 1..m, i < j
       PROVE  obj'[keys'[i]].entry < obj'[keys'[j]].entry
  <2>1. j # 1
    BY <1>5, <1>10
  <2>2. j - b \in 1..c /\ keys'[j] = keys[b + (j - b)] /\ entry < obj'[keys'[j]].entry
    BY <1>9, <2>1
  <2>3. CASE b = 1 /\ i = 1 /\ obj'[keys'[i]].entry = entry
    BY <2>2, <2>3
  <2>4. CASE i - b \in 1..c /\ keys'[i] = keys[b + (i - b)]
    <3>1. i - b < j - b
      BY <1>5, <1>10
    <3>2. obj'[keys[b + (i - b)]].entry < obj'[keys[b + (j - b)]].entry
      BY <1>0, <2>2, <2>4, <3>1
    <3>3. QED
      BY <2>2, <2>4, <3>2
  <2>5. QED
    BY <1>9, <2>3, <2>4
<1>11. ASSUME NEW k \in F
       PROVE  \E i \in 1..m : obj'[keys'[i]].entry = k
  <2>1. PICK i \in 1..c : obj'[keys[b + i]].entry = k
    BY <1>0
  <2>2. b + i \in 1..m /\ keys'[b + i] = keys[b + i]
    BY <1>5, <1>6
  <2>3. QED
    BY <2>1, <2>2
<1>12. ASSUME NEW k \in stood
       PROVE  k \in Key /\ (k <= entry \/ k \in After(entry))
  <2>1. k \in entries /\ k \in Key /\ k \in Nat /\ entry \in Nat
    BY <1>2, <1>4
  <2> HIDE DEF entry
  <2>2. k <= entry \/ entry < k
    BY <2>1
  <2>3. QED
    BY <2>1, <2>2 DEF After
<1>13. Types'
  <2>1. at' \in {"idle"} \union Calling \union Paging /\ leaked' \subseteq Kind
    BY DEF PyInv, Types, Paging, Kind
  <2>2. QED
    BY <1>0, <1>1, <1>6, <2>1 DEF PyInv, Types
<1>14. IdleInv' /\ CallInv' /\ OwnInv' /\ TodoInv' /\ KeyInv'
  <2>1. IdleInv' /\ OwnInv' /\ KeyInv'
    BY DEF IdleInv, OwnInv, KeyInv, Calling
  <2>2. CallInv'
    BY <1>1 DEF PyInv, CallInv
  <2>3. TodoInv'
    BY <1>1 DEF TodoInv
  <2>4. QED
    BY <2>1, <2>2, <2>3
<1>15. PageInv'
  <2>1. own' = NoneOwned /\ prev' = prev /\ Len(keys') = m /\ Len(datas') = m
    BY <1>1, <1>2, <1>6
  <2>2. prev' \in Live' /\ obj'[prev'].kind = "key" /\ obj'[prev'].entry \in Key
    BY <1>0, <1>1, <1>2, <1>7
  <2>3. ASSUME NEW i \in 1..m
        PROVE  /\ keys'[i] \in Live' /\ obj'[keys'[i]].kind = "key"
               /\ datas'[i] \in Live' /\ obj'[datas'[i]].kind = "data"
               /\ keys'[i] = prev => i = 1
    <3>1. i \in 1..Page /\ keys'[i] = keys[i] /\ datas'[i] = datas[i]
      BY <1>5, <1>6
    <3>2. /\ keys[i] \in Live /\ obj[keys[i]].kind = "key"
          /\ datas[i] \in Live /\ obj[datas[i]].kind = "data"
          /\ keys[i] = prev => i = 1
      BY <1>2, <3>1
    <3>3. Live' = Live /\ \A h \in Live : obj'[h].kind = obj[h].kind
      BY <1>0
    <3>4. obj'[keys[i]].kind = "key" /\ obj'[datas[i]].kind = "data"
      BY <3>2, <3>3
    <3>5. QED
      BY <3>1, <3>2, <3>3, <3>4
  <2>4. \A i, j \in 1..m : i # j => keys'[i] # keys'[j] /\ datas'[i] # datas'[j]
    BY <1>2, <1>5, <1>6
  <2>5. ASSUME NEW i \in 1..m
        PROVE  /\ obj'[keys'[i]].entry \in Key
               /\ keys'[i] # prev => obj'[prev].entry < obj'[keys'[i]].entry
    BY <1>2, <1>7, <1>8, <1>9
  <2>6. \A i, j \in 1..m : i < j => obj'[keys'[i]].entry < obj'[keys'[j]].entry
    BY <1>10
  <2>7. m <= Page
    BY <1>5
  <2>8. /\ \A i \in 1..Len(keys') :
             /\ keys'[i] \in Live' /\ obj'[keys'[i]].kind = "key"
             /\ datas'[i] \in Live' /\ obj'[datas'[i]].kind = "data"
             /\ keys'[i] = prev' => i = 1
             /\ obj'[keys'[i]].entry \in Key
             /\ keys'[i] # prev' => obj'[prev'].entry < obj'[keys'[i]].entry
    <3>1. ASSUME NEW i \in 1..m
          PROVE  /\ keys'[i] = prev' => i = 1
                 /\ keys'[i] # prev' => obj'[prev'].entry < obj'[keys'[i]].entry
      BY <2>1, <2>3, <2>5
    <3>2. QED
      BY <2>1, <2>3, <2>5, <3>1
  <2>9. ASSUME NEW i \in 1..Len(keys'), NEW j \in 1..Len(keys'), i # j
        PROVE  keys'[i] # keys'[j] /\ datas'[i] # datas'[j]
    <3>1. i \in 1..m /\ j \in 1..m
      BY <2>1
    <3>2. QED
      BY <2>4, <2>9, <3>1
  <2>10. \A i, j \in 1..Len(keys') : i < j => obj'[keys'[i]].entry < obj'[keys'[j]].entry
    BY <2>1, <2>6
  <2>11. Len(datas') = Len(keys') /\ Len(keys') <= Page
    BY <2>1, <2>7
  <2>12. QED
    <3>1. at' = "page"
      OBVIOUS
    <3>2. \A i, j \in 1..Len(keys') : i # j => keys'[i] # keys'[j] /\ datas'[i] # datas'[j]
      BY <2>9
    <3>3. QED
      BY ONLY <2>1, <2>2, <2>8, <2>10, <2>11, <3>1, <3>2 DEF PageInv
<1>16. OrderInv'
  <2>1. \A i \in 1..m : keys'[i] = prev => shown = <<>>
    BY <1>2, <1>5, <1>6 DEF PyInv, OrderInv, Paging
  <2>2. QED
    BY <1>1, <1>6, <1>7, <2>1 DEF PyInv, OrderInv, Paging
<1>17. WholeInv'
  <2>1. /\ Mark = prev
        /\ ~cut => /\ entry \in entries
                   /\ \A k \in stood : k <= entry => Passed(k)
    <3>1. Mark = prev
      BY DEF Mark
    <3>2. QED
      BY <3>1 DEF PyInv, WholeInv, Paging
  <2>2. ASSUME NEW k \in Key, k <= entry, Passed(k)
        PROVE  Passed(k)'
    <3>1. CASE \E i \in 1..Len(shown) : shown[i] = k
      BY <1>1, <3>1 DEF Passed
    <3>2. CASE \E i \in 1..Len(keys) : obj[keys[i]].entry = k
      <4>1. PICK i \in 1..Page : obj[keys[i]].entry = k
        BY <1>2, <3>2
      <4>2. keys[i] = prev /\ i = 1
        BY <1>2, <1>4, <4>1
      <4>3. b = 1
        BY <1>3, <1>4, <4>2
      <4>4. 1 \in 1..m /\ keys'[1] = prev
        <5>1. m >= 1
          BY <1>5, <4>3 DEF m
        <5>2. QED
          BY <1>5, <1>6, <4>2, <5>1
      <4>5. QED
        BY <1>6, <1>7, <4>1, <4>2, <4>4 DEF Passed
    <3>3. QED
      BY <2>2, <3>1, <3>2 DEF Passed
  <2>3. ASSUME NEW k \in F
        PROVE  Passed(k)'
    BY <1>6, <1>11 DEF Passed
  <2>4. ASSUME ~cut
        PROVE  /\ obj'[Mark'].entry \in entries
               /\ \A k \in stood : k <= obj'[Mark'].entry => Passed(k)'
    <3>1. \A k \in stood : k \in Key /\ (k <= entry \/ k \in After(entry))
      BY <1>12
    <3>2. \A k \in stood : k <= entry => Passed(k)'
      BY <2>1, <2>2, <2>4, <3>1
    <3>3. CASE m = 0
      <4>1. Mark' = prev
        BY <1>1, <1>6, <3>3 DEF Mark
      <4>2. QED
        BY <1>7, <2>1, <2>4, <3>2, <4>1
    <3>4. CASE m # 0
      <4>1. m \in 1..m /\ keys' # <<>>
        <5>1. m \in Nat /\ m # 0 /\ Len(keys') # 0
          BY <1>5, <1>6, <3>4
        <5>2. m \in 1..m
          BY <5>1
        <5>3. QED
          BY <5>1, <5>2
      <4>2. Mark' = keys'[m]
        BY <1>6, <4>1 DEF Mark, Last
      <4>3. CASE obj'[keys'[m]].entry = entry
        BY <2>1, <2>4, <3>2, <4>2, <4>3
      <4>4. CASE obj'[keys'[m]].entry \in F
        <5>1. \A k \in After(entry) : k <= obj'[keys'[m]].entry => k \in F
          BY <4>4
        <5>2. QED
          BY <1>8, <2>3, <3>1, <3>2, <4>2, <4>4, <5>1
      <4>5. QED
        BY <1>9, <4>1, <4>3, <4>4
    <3>5. QED
      BY <3>3, <3>4
  <2>5. ASSUME ~cut, PageRead', m < Page
        PROVE  \A k \in stood : Passed(k)'
    <3>1. c < Page - b
      BY <1>4, <1>5, <2>5 DEF m
    <3>2. F = After(entry)
      BY <2>1, <2>5, <3>1 DEF PageRead
    <3>3. \A k \in stood : k \in Key /\ (k <= entry \/ k \in F)
      BY <1>12, <3>2
    <3>4. QED
      BY <2>1, <2>2, <2>3, <2>5, <3>3
  <2>6. QED
    BY <1>1, <1>2, <1>6, <2>4, <2>5 DEF WholeInv
<1>18. DumpIsWhole'
  BY <1>1 DEF PyInv, DumpIsWhole
<1>19. QED
  BY <1>7, <1>13, <1>14, <1>15, <1>16, <1>17, <1>18 DEF PyInv

LEMMA NextNKeeps == ASSUME PyInv, NextN PROVE PyInv' /\ obj'[prev] = obj[prev]
<1> DEFINE b == Before
<1> DEFINE asked == SubSeq(keys, b + 1, Len(keys))
<1> DEFINE c == NumReturned(asked)
<1> DEFINE after == After(obj[prev].entry)
<1>1. /\ at = "nextN" /\ at' = "page" /\ EntryGetNextN(prev, asked)
      /\ keys' = SubSeq(keys, 1, b + c) /\ datas' = SubSeq(datas, 1, b + c)
      /\ leaked' = leaked \union {"flags"}
      /\ UNCHANGED <<todo, own, prev, shown, callVars, outcome, history>>
  BY DEF NextN, Goto
<1>2. /\ Len(keys) = Page /\ keys \in Seq(Handle) /\ entries \subseteq Key
      /\ obj \in [Handle -> Object \union {Null}]
      /\ \A i \in 1..Page : keys[i] \in Live
      /\ \A i, j \in 1..Page : i # j => keys[i] # keys[j]
      /\ Page \in Nat /\ Page >= 2
  BY <1>1, PageAssumption DEF PyInv, Types, PageInv, Paging
<1>3. /\ b \in {0, 1}
      /\ \A i \in (b + 1)..Page : keys[i] # prev /\ obj[keys[i]].entry = Null
  BY <1>1, <1>2, BeforeIsPrev
<1> HIDE DEF b
<1>4. /\ b \in Nat /\ b + 1 \in Int /\ Page - b \in Nat
      /\ \A i \in (b + 1)..Page : i \in 1..Page
      /\ \A i \in 1..(Page - b) : b + i \in (b + 1)..Page
      /\ Page - (b + 1) + 1 = Page - b /\ b + 1 <= Page
  <2>1. CASE b = 0
    BY <1>2, <2>1
  <2>2. CASE b = 1
    BY <1>2, <2>2
  <2>3. QED
    BY <1>3, <2>1, <2>2
<1>5. /\ asked \in Seq(Handle) /\ Len(asked) = Page - b
      /\ \A i \in 1..(Page - b) : asked[i] = keys[b + i]
  <2>1. \A i \in (b + 1)..Page : keys[i] \in Handle
    BY <1>2, <1>4, ElementOfSeq
  <2>2. /\ asked \in Seq(Handle)
        /\ Len(asked) = IF b + 1 <= Page THEN Page - (b + 1) + 1 ELSE 0
        /\ \A i \in 1..(Page - (b + 1) + 1) : asked[i] = keys[(b + 1) + i - 1]
    BY <1>2, <1>4, <2>1, SubSeqProperties
  <2> HIDE DEF asked
  <2>3. \A i \in 1..(Page - b) : (b + 1) + i - 1 = b + i
    BY <1>4
  <2>4. QED
    BY <1>4, <2>2, <2>3
<1> HIDE DEF asked
<1>6. Blank(asked)
  <2>1. ASSUME NEW i \in 1..(Page - b)
        PROVE  asked[i] \in Live /\ obj[asked[i]].entry = Null
    BY <1>2, <1>3, <1>4, <1>5
  <2>2. ASSUME NEW i \in 1..(Page - b), NEW j \in 1..(Page - b), i # j
        PROVE  asked[i] # asked[j]
    <3>1. b + i # b + j
      BY <1>4, <2>2
    <3>2. b + i \in 1..Page /\ b + j \in 1..Page
      BY <1>4
    <3>3. QED
      BY <1>2, <1>5, <3>1, <3>2
  <2>3. QED
    BY <1>5, <2>1, <2>2 DEF Blank
<1>7. CASE obj' = obj /\ entries' = entries /\ sts' \in Status
           /\ (sts' \in {"success", "notFound"} => obj[prev].entry \notin entries)
  <2>1. c = 0
    <3>1. {i \in 1..Len(asked) : obj'[asked[i]].entry # Null} = {}
      BY <1>6, <1>7 DEF Blank
    <3>2. QED
      BY <3>1, FS_EmptySet DEF NumReturned
  <2> HIDE DEF c
  <2>2. /\ \A i \in 1..c : FALSE
        /\ c \in 0..(Page - b)
    BY <1>4, <2>1
  <2>3. Named(asked, c, {})
    BY <1>2, <1>7, <2>2 DEF Live, Named
  <2>4. b = Before
    BY DEF b
  <2>5. QED
    BY <1>1, <1>7, <2>2, <2>3, <2>4, Turns
<1>8. ASSUME sts' \in {"success", "notFound"}, entries' = entries,
             NEW F, F = FirstOf(after, Len(asked)), Fills(asked, F)
      PROVE  PyInv' /\ obj'[prev] = obj[prev]
  <2>1. /\ c \in 0..Len(asked) /\ Named(asked, c, F) /\ (c < Len(asked) => F = after)
    BY <1>2, <1>5, <1>6, <1>8, Filling
  <2>2. F \in SUBSET after /\ \A k \in after : \A l \in F : k <= l => k \in F
    <3>1. after \in SUBSET Nat /\ IsFiniteSet(after) /\ Len(asked) \in Nat
      <4>1. after \in SUBSET Key
        BY <1>2 DEF After
      <4>2. QED
        BY <1>4, <1>5, <4>1, EntryAssumption, FS_Subset
    <3> HIDE DEF after
    <3>2. QED
      BY <1>8, <3>1, Firsts
  <2> HIDE DEF c
  <2>3. \A i \in 1..c : asked[i] = keys[b + i]
    BY <1>4, <1>5, <2>1
  <2>4. c \in 0..(Page - b) /\ (c < Page - b => F = after)
    BY <1>5, <2>1
  <2>5. b = Before /\ sts' \in Status
    BY <1>8 DEF b, Status
  <2>6. QED
    BY <1>1, <1>8, <2>1, <2>2, <2>3, <2>4, <2>5, Turns
<1>9. QED
  <2> HIDE DEF c
  <2>1. CASE Refuses
    BY <1>7, <2>1 DEF Refuses, Status
  <2>2. CASE NotFound(obj[prev].entry \in entries)
    BY <1>7, <2>2 DEF NotFound, Status
  <2>3. CASE ~Refuses /\ ~NotFound(obj[prev].entry \in entries)
    <3>1. /\ sts' \in {"success", "notFound"} /\ entries' = entries
          /\ Fills(asked, FirstOf(after, Len(asked)))
      BY <1>1, <2>3 DEF EntryGetNextN, Fills
    <3>2. QED
      BY <1>8, <3>1
  <2>4. QED
    BY <2>1, <2>2, <2>3

-----------------------------------------------------------------------------

(***************************************************************************)
(* Other sessions.                                                         *)
(***************************************************************************)

LEMMA OtherAddsKeeps == ASSUME PyInv, NEW k \in Key, OtherAdds(k) PROVE PyInv'
<1>1. /\ entries' = entries \union {k} /\ obj' = obj /\ sts' = sts /\ call' = call
      /\ commands' = commands /\ at' = at /\ todo' = todo /\ own' = own /\ keys' = keys
      /\ datas' = datas /\ prev' = prev /\ outcome' = outcome /\ leaked' = leaked
      /\ shown' = shown /\ stood' = stood /\ cut' = cut
  BY DEF OtherAdds, callVars, pageVars, history
<1>2. Fn' = Fn /\ Live' = Live /\ Owned(Kind)' = Owned(Kind) /\ Mark' = Mark /\ PageRead' = PageRead
  BY <1>1 DEF Fn, Live, Owned, Mark, PageRead
<1>3. (\A kind : Past(kind)' = Past(kind)) /\ \A l : Passed(l)' = Passed(l)
  BY <1>1 DEF Past, Passed
<1>4. Types'
  BY <1>1 DEF PyInv, Types
<1>5. IdleInv' /\ CallInv' /\ OwnInv' /\ TodoInv' /\ KeyInv'
  BY <1>1, <1>2, <1>3 DEF PyInv, IdleInv, CallInv, OwnInv, TodoInv, KeyInv
<1>6. PageInv'
  BY <1>1, <1>2 DEF PyInv, PageInv
<1>7. OrderInv' /\ DumpIsWhole'
  BY <1>1, <1>2 DEF PyInv, OrderInv, DumpIsWhole
<1>8. WholeInv'
  BY <1>1, <1>2, <1>3 DEF PyInv, WholeInv
<1>9. QED
  BY <1>4, <1>5, <1>6, <1>7, <1>8 DEF PyInv

\* While a dump has gone nowhere but to entries that are left, its mark stands.
LEMMA OtherDeletesKeeps == ASSUME PyInv, NEW k \in Key, OtherDeletes(k) PROVE PyInv'
<1>1. /\ entries' = entries \ {k} /\ stood' = stood \ {k}
      /\ obj' = obj /\ sts' = sts /\ call' = call
      /\ commands' = commands /\ at' = at /\ todo' = todo /\ own' = own /\ keys' = keys
      /\ datas' = datas /\ prev' = prev /\ outcome' = outcome /\ leaked' = leaked
      /\ shown' = shown
  BY DEF OtherDeletes, callVars, pageVars
<1>2. Fn' = Fn /\ Live' = Live /\ Owned(Kind)' = Owned(Kind) /\ Mark' = Mark /\ PageRead' = PageRead
  BY <1>1 DEF Fn, Live, Owned, Mark, PageRead
<1>3. (\A kind : Past(kind)' = Past(kind)) /\ \A l : Passed(l)' = Passed(l)
  BY <1>1 DEF Past, Passed
<1>4. cut' \in BOOLEAN
      /\ (~cut' => ~cut /\ ~(Fn = "dump" /\ Mark \in Live /\ obj[Mark].entry = k))
  BY DEF OtherDeletes, PyInv, Types
<1>5. Types'
  BY <1>1, <1>4 DEF PyInv, Types
<1>6. IdleInv' /\ CallInv' /\ OwnInv' /\ TodoInv' /\ KeyInv'
  BY <1>1, <1>2, <1>3 DEF PyInv, IdleInv, CallInv, OwnInv, TodoInv, KeyInv
<1>7. PageInv'
  BY <1>1, <1>2 DEF PyInv, PageInv
<1>8. OrderInv'
  BY <1>1, <1>2 DEF PyInv, OrderInv
<1>9. DumpIsWhole'
  BY <1>1, <1>2, <1>4 DEF PyInv, DumpIsWhole
<1>10. WholeInv'
  <2>1. Fn = "dump" => stood' \subseteq entries'
    BY <1>1 DEF PyInv, WholeInv
  <2>2. ASSUME at = "first", sts = "success"
        PROVE  /\ obj[own["key"]].entry \in Key
               /\ ~cut' => /\ obj[own["key"]].entry \in entries'
                           /\ \A l \in stood' : obj[own["key"]].entry <= l
    <3>1. Fn = "dump" /\ todo = <<>> /\ at \in Calling /\ Mark = own["key"]
      BY <2>2 DEF PyInv, CallInv, Calling, Mark
    <3>2. own["key"] # Null
      BY <3>1, KeyAtHand DEF AsksForKey
    <3>3. Mark \in Live
      BY <3>1, <3>2 DEF PyInv, OwnInv, Owned, Kind
    <3>4. QED
      BY <1>1, <1>4, <2>2, <3>1, <3>3 DEF PyInv, WholeInv
  <2>3. ASSUME at \in Paging
        PROVE  Fn = "dump" /\ Mark \in Live
    <3>1. Fn = "dump" /\ prev \in Live /\ \A i \in 1..Len(keys) : keys[i] \in Live
      BY <2>3 DEF PyInv, CallInv, PageInv
    <3>2. keys # <<>> => Last(keys) = keys[Len(keys)] /\ Len(keys) \in 1..Len(keys)
      BY DEF Last, PyInv, Types
    <3>3. Mark \in Live
      BY <2>3, <3>1, <3>2 DEF Mark, Paging
    <3>4. QED
      BY <3>1, <3>3
  <2>4. ASSUME at \in Paging, ~cut'
        PROVE  /\ obj[Mark].entry \in entries'
               /\ \A l \in stood' : l <= obj[Mark].entry => Passed(l)
    BY <1>1, <1>4, <2>3, <2>4 DEF PyInv, WholeInv
  <2>5. ASSUME at = "page", ~cut', "get_next_n" \in commands, PageRead, Len(keys) < Page
        PROVE  \A l \in stood' : Passed(l)
    BY <1>1, <1>4, <2>5 DEF PyInv, WholeInv
  <2>6. QED
    BY <1>1, <1>2, <1>3, <2>1, <2>2, <2>4, <2>5 DEF WholeInv
<1>11. QED
  BY <1>5, <1>6, <1>7, <1>8, <1>9, <1>10 DEF PyInv

LEMMA UnchangedKeeps == ASSUME PyInv, UNCHANGED vars PROVE PyInv'
<1>1. /\ entries' = entries /\ obj' = obj /\ sts' = sts /\ call' = call
      /\ commands' = commands /\ at' = at /\ todo' = todo /\ own' = own /\ keys' = keys
      /\ datas' = datas /\ prev' = prev /\ outcome' = outcome /\ leaked' = leaked
      /\ shown' = shown /\ stood' = stood /\ cut' = cut
  BY DEF vars, callVars, pageVars, history
<1>2. Fn' = Fn /\ Live' = Live /\ Owned(Kind)' = Owned(Kind) /\ Mark' = Mark /\ PageRead' = PageRead
  BY <1>1 DEF Fn, Live, Owned, Mark, PageRead
<1>3. (\A kind : Past(kind)' = Past(kind)) /\ \A l : Passed(l)' = Passed(l)
  BY <1>1 DEF Past, Passed
<1>4. Types'
  BY <1>1 DEF PyInv, Types
<1>5. IdleInv' /\ CallInv' /\ OwnInv' /\ TodoInv' /\ KeyInv'
  BY <1>1, <1>2, <1>3 DEF PyInv, IdleInv, CallInv, OwnInv, TodoInv, KeyInv
<1>6. PageInv' /\ OrderInv' /\ WholeInv'
  BY <1>1, <1>2, <1>3 DEF PyInv, PageInv, OrderInv, WholeInv
<1>7. DumpIsWhole'
  BY <1>1, <1>2 DEF PyInv, DumpIsWhole
<1>8. QED
  BY <1>4, <1>5, <1>6, <1>7 DEF PyInv

-----------------------------------------------------------------------------

(***************************************************************************)
(* What holds always.                                                      *)
(***************************************************************************)

LEMMA WorkKeeps == ASSUME PyInv, Work PROVE PyInv'
<1>1. ASSUME NEW step \in Step, Make(step) \/ MakeFails(step) \/ FillFails(step)
      PROVE  PyInv'
  BY <1>1, MakeKeeps, MakeFailsKeeps, FillFailsKeeps
<1>2. CASE NotListed \/ DataFails \/ GiveUp \/ Ask \/ NotCounted \/ NoSetter
  BY <1>2, NotListedKeeps, DataFailsKeeps, GiveUpKeeps, AskKeeps, NotCountedKeeps, NoSetterKeeps
<1>3. CASE FindKey \/ KeyNotFound \/ Finish \/ ReadFails
  BY <1>3, FindKeyKeeps, KeyNotFoundKeeps, FinishKeeps, ReadFailsKeeps
<1>4. CASE First \/ NoFirst \/ FirstPage
  BY <1>4, FirstKeeps, NoFirstKeeps, FirstPageKeeps
<1>5. CASE MakePage \/ MakePageFails \/ NextN \/ NextFails \/ NoNextN
  BY <1>5, MakePageKeeps, MakePageFailsKeeps, NextNKeeps, NextFailsKeeps, NoNextNKeeps
<1>6. CASE EndOfTable \/ ShowPage \/ ShowPageFails
  BY <1>6, EndOfTableKeeps, ShowPageKeeps, ShowPageFailsKeeps
<1>7. QED
  BY <1>1, <1>2, <1>3, <1>4, <1>5, <1>6 DEF Work

\* The invariant holds in every state: of each place in a call it says what the
\* call has, and of a dump how far it has come.
THEOREM Inductive == Spec => []PyInv
<1>1. Init => PyInv
  BY InitKeeps
<1>2. PyInv /\ [Next]_vars => PyInv'
  <2>1. ASSUME PyInv, NEW fn \in Function, NEW k \in Key \union {Null}, Begin(fn, k)
        PROVE  PyInv'
    BY <2>1, BeginKeeps
  <2>2. ASSUME PyInv, PyStep
        PROVE  PyInv'
    BY <2>2, WorkKeeps DEF PyStep
  <2>3. ASSUME PyInv, NEW k \in Key, OtherAdds(k) \/ OtherDeletes(k)
        PROVE  PyInv'
    BY <2>3, OtherAddsKeeps, OtherDeletesKeeps
  <2>4. ASSUME PyInv, UNCHANGED vars
        PROVE  PyInv'
    BY <2>4, UnchangedKeeps
  <2>5. QED
    BY <2>1, <2>2, <2>3, <2>4 DEF Next
<1>3. QED
  BY <1>1, <1>2, PTL DEF Spec

\* The variables have their types: the handles of a call are of the kinds it
\* takes them for, keys and data of a page come in pairs and never exceed it.
THEOREM TypeCorrect == Spec => []TypeOK
<1>1. PyInv => TypeOK
  <2> SUFFICES ASSUME PyInv PROVE TypeOK
    OBVIOUS
  <2>1. Types
    BY DEF PyInv
  <2>2. at \in {"idle", "make", "found", "answered", "first", "next", "nextN", "page"}
    BY <2>1 DEF Types, Calling, Paging
  <2>3. /\ Range(todo) \subseteq Step /\ Range(shown) \subseteq Key
        /\ Range(keys) \subseteq Handle /\ Range(datas) \subseteq Handle
    BY <2>1 DEF Types, Range
  <2>4. ASSUME NEW kind \in Kind, own[kind] \in Live
        PROVE  obj[own[kind]].kind = kind
    <3>1. own[kind] # Null
      BY <2>4, EntryAssumption DEF Live
    <3>2. own # NoneOwned
      BY <3>1 DEF NoneOwned
    <3>3. at \in Calling
      BY <2>1, <3>2 DEF Types, PyInv, IdleInv, PageInv
    <3>4. QED
      BY <3>1, <3>3 DEF PyInv, OwnInv
  <2>5. Len(keys) = Len(datas) /\ Len(keys) <= Page
    <3>1. CASE at \in Paging
      BY <3>1 DEF PyInv, PageInv
    <3>2. CASE at \notin Paging
      <4>1. keys = <<>> /\ datas = <<>>
        BY <2>1, <3>2 DEF Types, PyInv, IdleInv, OwnInv
      <4>2. QED
        BY <4>1, PageAssumption
    <3>3. QED
      BY <3>1, <3>2
  <2>6. Fn = "dump" => stood \subseteq entries
    BY DEF PyInv, WholeInv
  <2>7. QED
    BY <2>1, <2>2, <2>3, <2>4, <2>5, <2>6 DEF Types, TypeOK
<1>2. QED
  BY <1>1, Inductive, PTL

\* No call works with an object it has given back.  Above all the key a dump
\* goes on from is still there, whatever has become of the page it comes from.
THEOREM NothingFreedIsUsed == Spec => []NoUseAfterFree
<1>1. PyInv => NoUseAfterFree
  <2> SUFFICES ASSUME PyInv, at # "idle" PROVE Needs \subseteq Live
    BY DEF NoUseAfterFree
  <2>1. CASE at \in Calling
    BY <2>1 DEF PyInv, OwnInv, Needs, Calling
  <2>2. CASE at \in Paging
    <3>1. /\ prev \in Live /\ Len(datas) = Len(keys) /\ own = NoneOwned
          /\ \A i \in 1..Len(keys) : keys[i] \in Live /\ datas[i] \in Live
          /\ keys \in Seq(Handle) /\ datas \in Seq(Handle)
      BY <2>2 DEF PyInv, Types, PageInv
    <3>2. Range(keys) \subseteq Live /\ Range(datas) \subseteq Live
      BY <3>1 DEF Range
    <3>3. Owned(Kind) = {}
      BY <3>1 DEF Owned, NoneOwned
    <3>4. QED
      BY <2>2, <3>1, <3>2, <3>3 DEF Needs, Paging
  <2>3. QED
    BY <2>1, <2>2 DEF PyInv, Types
<1>2. QED
  BY <1>1, Inductive, PTL

\* A dump prints its entries in order, and all that have stood while it ran,
\* though others add and delete entries between its pages.
THEOREM DumpsAreWhole == Spec => []DumpIsWhole
<1>1. PyInv => DumpIsWhole
  BY DEF PyInv
<1>2. QED
  BY <1>1, Inductive, PTL

-----------------------------------------------------------------------------

(***************************************************************************)
(* What a call loses.                                                      *)
(***************************************************************************)

\* A call has made what its plan says but for what is still to come; add and
\* mod may be without their data until they give up.
MadeInv ==
  at \in {"make", "found", "answered"} /\ Fn # "dump" =>
    /\ \A i \in 1..Len(todo) : KindOf(todo[i]) \in Planned(Fn)
    /\ \A kind \in Kind : own[kind] # Null => kind \in Planned(Fn)
    /\ \A kind \in Planned(Fn) : \/ own[kind] # Null
                                 \/ ~Past(kind)
                                 \/ at = "make" /\ Fn \in {"add", "mod"} /\ kind = "data"
    /\ at = "answered" => Fn # "operation"

LedgerInv == MadeInv /\ OnlyTheseLeak

LEMMA PlannedKinds ==
  ASSUME NEW fn \in Function
  PROVE  /\ Planned(fn) \subseteq Kind
         /\ \A i \in 1..Len(Plan(fn)) : KindOf(Plan(fn)[i]) \in Planned(fn)
         /\ \A kind \in Planned(fn) : \E i \in 1..Len(Plan(fn)) : KindOf(Plan(fn)[i]) = kind
<1>1. Plan(fn) \in Seq(Step)
  BY Plans
<1>2. DOMAIN Plan(fn) = 1..Len(Plan(fn)) /\ \A i \in 1..Len(Plan(fn)) : Plan(fn)[i] \in Step
  BY <1>1
<1>3. QED
  BY <1>2, KindsOfSteps DEF Planned, Range

\* Of the functions that do not tidy up.
LEMMA PlannedOf ==
  /\ Planned("delByHandle") = {"key"} /\ Planned("handle") = {"key"}
  /\ Planned("key") = {"key", "target"} /\ Planned("usage") = {"flags"}
<1>1. Range(<<"key">>) = {"key"} /\ Range(<<"emptyKey">>) = {"emptyKey"}
      /\ Range(<<"flags">>) = {"flags"}
  BY DEF Range
<1>2. Range(<<"emptyKey", "target">>) = {"emptyKey", "target"}
  BY DEF Range
<1>3. /\ Plan("delByHandle") = <<"emptyKey">> /\ Plan("handle") = <<"key">>
      /\ Plan("key") = <<"emptyKey", "target">> /\ Plan("usage") = <<"flags">>
  BY DEF Plan
<1>4. KindOf("emptyKey") = "key" /\ KindOf("key") = "key" /\ KindOf("target") = "target"
      /\ KindOf("flags") = "flags"
  BY DEF KindOf
<1>5. QED
  BY <1>1, <1>2, <1>3, <1>4 DEF Planned

\* Handles of different kinds are different.
LEMMA OwnedKinds ==
  ASSUME PyInv, at \in Calling, NEW kinds \in SUBSET Kind, NEW kind \in Kind, own[kind] # Null
  PROVE  own[kind] \in Owned(kinds) <=> kind \in kinds
<1>1. \A other \in Kind : own[other] # Null => obj[own[other]].kind = other
  BY DEF PyInv, OwnInv
<1>2. QED
  BY <1>1 DEF Owned

\* A call that ends loses what it neither frees nor hands to its caller.
LEMMA Lost ==
  ASSUME PyInv, at \in Calling, NEW how, NEW freed, NEW kept, End(how, Freed(freed), kept)
  PROVE  leaked' = {kind \in Kind : own[kind] # Null /\ own[kind] \notin freed \union kept}
<1> DEFINE q == [h \in Handle |-> IF h \in kept THEN Null ELSE Freed(freed)[h]]
<1>1. leaked' = leaked \union {q[h].kind : h \in {g \in Handle \ {} : q[g] # Null}}
  BY DEF End, Keep
<1>2. \A h \in Handle : q[h] = IF h \in freed \union kept THEN Null ELSE obj[h]
  BY DEF Freed
<1> HIDE DEF q
<1>3. /\ leaked = {} /\ Owned(Kind) = Live
      /\ \A kind \in Kind : own[kind] # Null => obj[own[kind]].kind = kind
  BY DEF PyInv, OwnInv
<1>4. ASSUME NEW h \in Handle, q[h] # Null
      PROVE  \E kind \in Kind : /\ own[kind] # Null /\ own[kind] \notin freed \union kept
                                /\ q[h].kind = kind
  <2>1. h \in Live /\ h \notin freed \union kept /\ q[h] = obj[h]
    BY <1>2, <1>4 DEF Live
  <2>2. PICK kind \in Kind : own[kind] = h /\ own[kind] # Null
    BY <1>3, <2>1 DEF Owned
  <2>3. QED
    BY <1>3, <2>1, <2>2
<1>5. ASSUME NEW kind \in Kind, own[kind] # Null, own[kind] \notin freed \union kept
      PROVE  own[kind] \in Handle /\ q[own[kind]] # Null /\ q[own[kind]].kind = kind
  <2>1. own[kind] \in Live
    BY <1>3, <1>5 DEF Owned
  <2>2. QED
    BY <1>2, <1>3, <1>5, <2>1 DEF Live
<1>6. QED
  BY <1>1, <1>3, <1>4, <1>5

\* The same of a call that frees nothing.
LEMMA AllLost ==
  ASSUME PyInv, at \in Calling, NEW how, End(how, obj, {})
  PROVE  leaked' = {kind \in Kind : own[kind] # Null}
<1>1. obj = Freed({})
  BY DEF PyInv, Types, Freed
<1>2. QED
  BY <1>1, Lost

\* Once the table has been asked, a call has all it planned.
LEMMA Complete ==
  ASSUME PyInv, LedgerInv, todo = <<>>, Fn # "dump",
         at \in {"found", "answered"} \/ (at = "make" /\ Fn \notin {"add", "mod"})
  PROVE  /\ at \in Calling /\ Fn \in Function /\ Planned(Fn) \subseteq Kind
         /\ \A kind \in Kind : own[kind] # Null <=> kind \in Planned(Fn)
<1>1. Fn \in Function
  BY DEF PyInv, Types, Fn
<1>2. Planned(Fn) \subseteq Kind
  BY <1>1, PlannedKinds
<1>3. \A kind : Past(kind)
  BY DEF Past
<1>4. QED
  BY <1>1, <1>2, <1>3 DEF LedgerInv, MadeInv, Calling

LEMMA BeginLedger ==
  ASSUME PyInv, NEW fn \in Function, NEW k \in Key \union {Null}, Begin(fn, k)
  PROVE  LedgerInv'
<1>1. /\ Fn' = fn /\ at' = "make" /\ todo' = Plan(fn) /\ own' = NoneOwned
  BY DEF Begin, Fn, PyInv, IdleInv
<1>2. \A kind \in Planned(fn) : ~Past(kind)'
  BY <1>1, PlannedKinds DEF Past
<1>3. \A kind \in Kind : own'[kind] = Null
  BY <1>1 DEF NoneOwned
<1>4. QED
  BY <1>1, <1>2, <1>3, PlannedKinds DEF LedgerInv, MadeInv, OnlyTheseLeak

LEMMA MakeLedger ==
  ASSUME PyInv, LedgerInv, Fn # "dump", NEW step \in Step, Make(step)
  PROVE  LedgerInv'
<1> DEFINE made == KindOf(step)
<1>1. /\ at = "make" /\ at' = "make" /\ at \in Calling /\ Fn' = Fn
      /\ todo # <<>> /\ Head(todo) = step /\ todo' = Tail(todo)
      /\ own' = [own EXCEPT ![made] = Spare[1]]
  BY DEF Make, Making, Goto, callVars, Fn, Calling
<1>2. /\ made \in Kind /\ own[made] = Null
      /\ \A i \in 1..Len(todo') : i + 1 \in 1..Len(todo) /\ todo'[i] = todo[i + 1]
      /\ \A kind \in Kind : Past(kind)' => Past(kind) \/ kind = made
  BY <1>1, KindsOfSteps, Steps
<1>3. made \in Planned(Fn)
  <2>1. 1 \in 1..Len(todo) /\ todo[1] = step
    BY <1>1 DEF PyInv, Types
  <2>2. QED
    BY <1>1, <2>1 DEF LedgerInv, MadeInv
<1>4. Spare[1] # Null
  BY <1>1, <1>2, Room, EntryAssumption
<1>5. own'[made] = Spare[1] /\ \A kind \in Kind \ {made} : own'[kind] = own[kind]
  BY <1>1, <1>2 DEF PyInv, Types
<1>6. Planned(Fn) \subseteq Kind
  BY PlannedKinds DEF PyInv, Types, Fn
<1> HIDE DEF made
<1>7. /\ \A i \in 1..Len(todo') : KindOf(todo'[i]) \in Planned(Fn)
      /\ \A kind \in Kind : own'[kind] # Null => kind \in Planned(Fn)
  BY <1>1, <1>2, <1>3, <1>5 DEF LedgerInv, MadeInv
<1>8. \A kind \in Planned(Fn) :
        own'[kind] # Null \/ ~Past(kind)' \/ (Fn \in {"add", "mod"} /\ kind = "data")
  BY <1>1, <1>2, <1>4, <1>5, <1>6 DEF LedgerInv, MadeInv
<1>9. QED
  BY <1>1, <1>7, <1>8 DEF LedgerInv, MadeInv, OnlyTheseLeak

LEMMA DataFailsLedger == ASSUME PyInv, LedgerInv, DataFails PROVE LedgerInv'
<1>1. /\ at = "make" /\ at' = "make" /\ Fn' = Fn /\ Fn \in {"add", "mod"}
      /\ todo # <<>> /\ Head(todo) = "data" /\ todo' = Tail(todo) /\ own' = own
  BY DEF DataFails, Making, Goto, callVars, Fn
<1>2. /\ \A i \in 1..Len(todo') : i + 1 \in 1..Len(todo) /\ todo'[i] = todo[i + 1]
      /\ \A kind \in Kind : Past(kind)' => Past(kind) \/ kind = "data"
  BY <1>1, Steps DEF KindOf
<1>3. Planned(Fn) \subseteq Kind
  BY PlannedKinds DEF PyInv, Types, Fn
<1>4. QED
  BY <1>1, <1>2, <1>3 DEF LedgerInv, MadeInv, OnlyTheseLeak

\* A question takes nothing from the call.
LEMMA AskLedger == ASSUME PyInv, LedgerInv, Ask \/ FindKey PROVE LedgerInv'
<1>1. /\ at \in {"make", "found"} /\ at' \in {"found", "answered"} /\ Fn' = Fn
      /\ todo' = todo /\ own' = own /\ todo = <<>>
      /\ Fn # "dump" /\ Fn # "operation"
      /\ at = "make" /\ Fn \in {"add", "mod"} => own["data"] # Null
  BY DEF Ask, FindKey, Ready, Goto, callVars, Fn, PyInv, CallInv
<1>2. Planned(Fn) \subseteq Kind
  BY PlannedKinds DEF PyInv, Types, Fn
<1>3. \A kind : Past(kind) /\ Past(kind)'
  BY <1>1 DEF Past
<1>4. QED
  BY <1>1, <1>2, <1>3 DEF LedgerInv, MadeInv, OnlyTheseLeak

\* The exits that free nothing.
LEMMA ForgetfulLedger ==
  ASSUME PyInv, LedgerInv, Fn # "dump", NotCounted \/ KeyNotFound \/ ReadFails
  PROVE  LedgerInv'
<1>1. /\ at \in {"make", "found", "answered"} /\ todo = <<>>
      /\ at = "make" => Fn = "usage"
  BY DEF NotCounted, KeyNotFound, ReadFails, Ready, PyInv, CallInv
<1>2. /\ at \in Calling /\ Planned(Fn) \subseteq Kind
      /\ \A kind \in Kind : own[kind] # Null <=> kind \in Planned(Fn)
  BY <1>1, Complete
<1>3. PICK how \in {"unlisted", "unfound", "unread"} :
        /\ End(how, obj, {})
        /\ how = "unlisted" => Fn = "usage"
        /\ how = "unfound" => at = "found"
  BY DEF NotCounted, KeyNotFound, ReadFails, Ready
<1>4. leaked' = Planned(Fn)
  BY <1>2, <1>3, AllLost
<1>5. at' = "idle" /\ outcome' = how /\ Fn' = Fn
  BY <1>3 DEF End, callVars, Fn
<1>6. how = "unfound" => Fn = "delByHandle"
  BY <1>3 DEF PyInv, CallInv
<1>7. leaked' = Leaks(Fn, how)
  BY <1>3, <1>4, <1>6, PlannedOf DEF Leaks
<1>8. QED
  BY <1>5, <1>7 DEF LedgerInv, MadeInv, OnlyTheseLeak

LEMMA FinishLedger == ASSUME PyInv, LedgerInv, Finish PROVE LedgerInv'
<1> DEFINE how == IF sts = "success" THEN "ok" ELSE "refused"
<1> DEFINE kept == IF sts = "success" /\ Fn = "key" THEN {"target"} ELSE {}
<1> DEFINE given == IF Fn \in Tidy THEN Kind
                    ELSE IF Fn = "key" \/ (Fn = "handle" /\ sts # "success") THEN {"key"}
                    ELSE {}
<1>1. at = "answered" /\ todo = <<>> /\ Fn # "dump"
  BY DEF Finish, PyInv, CallInv
<1>2. /\ at \in Calling /\ Fn \in Function /\ Planned(Fn) \subseteq Kind
      /\ \A kind \in Kind : own[kind] # Null <=> kind \in Planned(Fn)
  BY <1>1, Complete
<1>3. End(how, Freed(Owned(given)), Owned(kept))
  <2>1. Owned({}) = {}
    BY DEF Owned
  <2>2. Returned = Owned(given)
    BY <2>1 DEF Returned
  <2>3. (IF sts = "success" /\ Fn = "key" THEN Owned({"target"}) ELSE {}) = Owned(kept)
    BY <2>1
  <2>4. QED
    BY <2>2, <2>3 DEF Finish
<1>4. given \in SUBSET Kind /\ kept \in SUBSET Kind
  BY DEF Kind
<1>5. at' = "idle" /\ outcome' = how /\ Fn' = Fn
  BY <1>3 DEF End, callVars, Fn
<1>6. leaked' = {kind \in Kind : own[kind] # Null /\ kind \notin given \union kept}
  <2> HIDE DEF how, given, kept
  <2>1. leaked' = {kind \in Kind :
                     own[kind] # Null /\ own[kind] \notin Owned(given) \union Owned(kept)}
    BY <1>2, <1>3, Lost
  <2>2. QED
    BY <1>2, <1>4, <2>1, OwnedKinds
<1>7. leaked' = Planned(Fn) \ (given \union kept)
  <2> HIDE DEF given, kept
  <2>1. QED
    BY <1>2, <1>6
<1>8. leaked' = Leaks(Fn, how)
  <2>1. CASE Fn \in Tidy
    BY <1>2, <1>7, <2>1 DEF Leaks, Tidy
  <2>2. CASE Fn = "handle"
    BY <1>7, <2>2, PlannedOf DEF Leaks, Tidy
  <2>3. CASE Fn = "key"
    BY <1>7, <2>3, PlannedOf DEF Leaks, Tidy
  <2>4. CASE Fn = "usage"
    BY <1>7, <2>4, PlannedOf DEF Leaks, Tidy
  <2>5. Fn # "operation"
    BY <1>1 DEF LedgerInv, MadeInv
  <2>6. QED
    BY <1>1, <1>2, <2>1, <2>2, <2>3, <2>4, <2>5 DEF Function, Tidy
<1>9. QED
  BY <1>5, <1>8 DEF LedgerInv, MadeInv, OnlyTheseLeak

\* Before the table is asked a call only ends with an exception.
LEMMA EarlyLedger ==
  ASSUME GiveUp \/ NoSetter \/ \E step \in Step : MakeFails(step) \/ FillFails(step)
  PROVE  LedgerInv'
<1>1. at' = "idle" /\ outcome' = "early"
  BY DEF GiveUp, NoSetter, MakeFails, FillFails, End
<1>2. QED
  BY <1>1 DEF LedgerInv, MadeInv, OnlyTheseLeak

LEMMA WorkLedger == ASSUME PyInv, LedgerInv, Work PROVE LedgerInv'
<1>1. Fn' = Fn
  BY DEF Work, NotListed, DataFails, Make, MakeFails, FillFails, GiveUp, Ask, NotCounted, NoSetter,
         FindKey, KeyNotFound, Finish, ReadFails, First, NoFirst, FirstPage, MakePage,
         MakePageFails, NextN, NextFails, NoNextN, EndOfTable, ShowPage, ShowPageFails,
         Goto, End, callVars, Fn
<1>2. CASE Fn = "dump"
  BY <1>1, <1>2 DEF LedgerInv, MadeInv, OnlyTheseLeak
<1>3. CASE Fn # "dump"
  <2>1. ~NotListed /\ ~First
    BY <1>3 DEF NotListed, First, Ready
  <2>2. at \notin {"first"} \union Paging
    BY <1>3 DEF PyInv, CallInv
  <2>3. /\ ~NoFirst /\ ~FirstPage /\ ~MakePage /\ ~MakePageFails /\ ~NextN
        /\ ~NextFails /\ ~NoNextN /\ ~EndOfTable /\ ~ShowPage /\ ~ShowPageFails
    BY <2>2 DEF NoFirst, FirstPage, MakePage, MakePageFails, NextN, NextFails, NoNextN,
                EndOfTable, ShowPage, ShowPageFails, PageRead, Paging
  <2>4. QED
    BY <1>3, <2>1, <2>3, MakeLedger, DataFailsLedger, AskLedger, ForgetfulLedger, FinishLedger,
       EarlyLedger DEF Work
<1>4. QED
  BY <1>2, <1>3

\* However the table answers, a call loses the objects that its way out forgets
\* and no other (PyTable!OnlyTheseLeak), for any entries and any addresses.
THEOREM NoOtherLeak == Spec => []OnlyTheseLeak
<1>1. Init => LedgerInv
  <2>1. Init => at = "idle" /\ leaked = {} /\ Fn = "clear" /\ outcome = "ok"
    BY DEF Init, Fn
  <2>2. Leaks("clear", "ok") = {}
    BY DEF Leaks
  <2>3. QED
    BY <2>1, <2>2 DEF LedgerInv, MadeInv, OnlyTheseLeak
<1>2. PyInv /\ LedgerInv /\ [Next]_vars => LedgerInv'
  <2>1. ASSUME PyInv, LedgerInv,
               UNCHANGED vars \/ \E k \in Key : OtherAdds(k) \/ OtherDeletes(k)
        PROVE  LedgerInv'
    <3>1. UNCHANGED <<call, at, todo, own, outcome, leaked>>
      BY <2>1 DEF vars, callVars, OtherAdds, OtherDeletes
    <3>2. \A kind : Past(kind)' <=> Past(kind)
      BY <3>1 DEF Past
    <3>3. QED
      BY <2>1, <3>1, <3>2 DEF LedgerInv, MadeInv, OnlyTheseLeak, Fn
  <2>2. QED
    BY <2>1, BeginLedger, WorkLedger DEF Next, PyStep
<1>3. LedgerInv => OnlyTheseLeak
  BY DEF LedgerInv
<1>4. QED
  BY <1>1, <1>2, <1>3, Inductive, PTL DEF Spec

-----------------------------------------------------------------------------

(***************************************************************************)
(* Calls come nearer to their ends.                                        *)
(***************************************************************************)

\* A call that ends has nothing left to do.
LEMMA EndAdvances == ASSUME NEW how, NEW o, NEW kept, End(how, o, kept) PROVE Advance
BY DEF End, Advance

\* The page a dump goes on to starts after the key of the one it has printed:
\* that page was full, so that its last key is not the one it went on from.
LEMMA ShowPageAdvances == ASSUME PyInv, ShowPage PROVE Advance
<1> DEFINE freed == Range(Front(keys)) \union Range(datas)
<1> DEFINE last == Last(keys)
<1> DEFINE n == Len(keys)
<1>1. CASE End("ok", Freed(freed \union {last}), {})
  BY <1>1, EndAdvances
<1>2. CASE /\ n >= Page
           /\ Keep(Freed(freed), {last})
           /\ prev' = last
           /\ Goto("next")
  <2>1. /\ at = "page" /\ at' = "next" /\ keys # <<>> /\ prev' = last
        /\ keys \in Seq(Handle) /\ datas \in Seq(Handle) /\ Len(datas) = n
        /\ obj \in [Handle -> Object \union {Null}]
    BY <1>2 DEF ShowPage, PageRead, Goto, PyInv, Types, PageInv, Paging
  <2>2. n \in Nat /\ n >= 1 /\ n # 1 /\ n \in 1..n /\ last = keys[n]
    BY <1>2, <2>1, PageAssumption DEF Last
  <2>3. /\ \A i \in 1..n : /\ keys[i] \in Live /\ obj[keys[i]].kind = "key"
                           /\ datas[i] \in Live /\ obj[datas[i]].kind = "data"
        /\ \A i, j \in 1..n : i # j => keys[i] # keys[j]
        /\ \A i \in 1..n : keys[i] = prev => i = 1
        /\ \A i \in 1..n : keys[i] # prev => obj[prev].entry < obj[keys[i]].entry
    BY <2>1 DEF PyInv, PageInv, Paging
  <2>4. obj[prev].entry < obj[last].entry
    BY <2>2, <2>3
  <2>5. last \notin freed
    <3>1. ASSUME NEW h \in Range(Front(keys))
          PROVE  h # last
      <4>1. PICK i \in 1..(n - 1) : h = keys[i]
        BY <2>1, <2>2 DEF Range, Front
      <4>2. i \in 1..n /\ i # n
        BY <2>2
      <4>3. QED
        BY <2>2, <2>3, <4>1, <4>2
    <3>2. ASSUME NEW h \in Range(datas)
          PROVE  h # last
      <4>1. PICK i \in 1..n : h = datas[i]
        BY <2>1 DEF Range
      <4>2. QED
        BY <2>2, <2>3, <4>1
    <3>3. QED
      BY <3>1, <3>2
  <2>6. last \in Handle
    BY <2>1, <2>2, ElementOfSeq
  <2> HIDE DEF freed, last, n
  <2>7. obj'[last] = obj[last]
    <3>1. Freed(freed)[last] = obj[last]
      BY <2>5, <2>6 DEF Freed
    <3>2. obj'[last] = Freed(freed)[last]
      BY <1>2, <2>6 DEF Keep
    <3>3. QED
      BY <3>1, <3>2
  <2>8. QED
    BY <2>1, <2>4, <2>7 DEF Advance
<1>3. QED
  BY <1>1, <1>2 DEF ShowPage

LEMMA WorkAdvances == ASSUME PyInv, Work PROVE Advance
<1>1. CASE \/ NotListed \/ GiveUp \/ NotCounted \/ NoSetter \/ KeyNotFound \/ Finish \/ ReadFails
           \/ NoFirst \/ MakePageFails \/ NextFails \/ EndOfTable \/ ShowPageFails
           \/ \E step \in Step : MakeFails(step) \/ FillFails(step)
  BY <1>1, EndAdvances
     DEF NotListed, GiveUp, NotCounted, NoSetter, KeyNotFound, Finish, ReadFails, NoFirst,
         MakePageFails, NextFails, EndOfTable, ShowPageFails, MakeFails, FillFails
<1>2. CASE DataFails \/ \E step \in Step : Make(step)
  <2>1. at = "make" /\ at' = "make" /\ todo # <<>> /\ todo' = Tail(todo)
    BY <1>2 DEF DataFails, Make, Making, Goto
  <2>2. todo \in Seq(Step)
    BY DEF PyInv, Types
  <2>3. Len(todo') < Len(todo)
    BY <2>1, <2>2
  <2>4. QED
    BY <2>1, <2>3 DEF Advance
<1>3. CASE Ask \/ FindKey \/ First \/ FirstPage
  <2>1. \/ at = "make" /\ at' \in {"found", "answered", "first"}
        \/ at = "found" /\ at' = "answered"
        \/ at = "first" /\ at' = "next"
    BY <1>3 DEF Ask, FindKey, First, FirstPage, Ready, Goto
  <2>2. QED
    BY <2>1 DEF Advance, LaterThan
<1>4. CASE MakePage
  <2>1. at = "next" /\ at' = "nextN" /\ prev' = prev
    BY <1>4 DEF MakePage, Goto
  <2>2. QED
    BY <1>4, <2>1, MakePageKeeps DEF Advance, LaterThan
<1>5. CASE NextN
  <2>1. at = "nextN" /\ at' = "page" /\ prev' = prev
    BY <1>5 DEF NextN, Goto
  <2>2. QED
    BY <1>5, <2>1, NextNKeeps DEF Advance, LaterThan
<1>6. CASE NoNextN
  <2>1. at = "next" /\ at' = "page" /\ prev' = prev /\ obj' = obj
    BY <1>6 DEF NoNextN, Goto, pageVars
  <2>2. QED
    BY <2>1 DEF Advance, LaterThan
<1>7. CASE ShowPage
  BY <1>7, ShowPageAdvances
<1>8. QED
  BY <1>1, <1>2, <1>3, <1>4, <1>5, <1>6, <1>7 DEF Work

\* Every step of a call brings it nearer to its end, however many entries there
\* are and whatever others do to them: a dump never goes back.
THEOREM CallsAdvance == Spec => CallAdvances
<1>1. PyInv /\ [Next]_vars => [Advance]_vars
  <2> SUFFICES ASSUME PyInv, Next PROVE Advance
    OBVIOUS
  <2>1. ASSUME NEW fn \in Function, NEW k \in Key \union {Null}, Begin(fn, k)
        PROVE  Advance
    BY <2>1 DEF Begin, Advance
  <2>2. CASE PyStep
    BY <2>2, WorkAdvances DEF PyStep
  <2>3. ASSUME NEW k \in Key, OtherAdds(k) \/ OtherDeletes(k)
        PROVE  Advance
    BY <2>3 DEF OtherAdds, OtherDeletes, Advance
  <2>4. QED
    BY <2>1, <2>2, <2>3 DEF Next
<1>2. QED
  BY <1>1, Inductive, PTL DEF Spec, CallAdvances
=============================================================================
