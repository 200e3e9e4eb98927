------------------------------ MODULE CSession ------------------------------
(***************************************************************************)
(* Sessions of the C frontend.  A handle is the address of the C++ session *)
(* object.  A map under a mutex keeps a shared_ptr for every handle given  *)
(* out; the functions for learn objects turn a handle back into a          *)
(* shared_ptr through it, all the others simply use the address.           *)
(*                                                                         *)
(* Threads create, use and destroy sessions at the same time.  They share  *)
(* handles, but keep to what any API with handles asks for: a handle is    *)
(* used once create has returned it, is not destroyed by two threads at    *)
(* once nor while another call works on the object behind it, and is not   *)
(* used again once destroy has succeeded.  A learn call may run into a     *)
(* destroy, since it looks the handle up; is_valid may be asked of any     *)
(* handle, that being what it is for.                                      *)
(*                                                                         *)
(* A session has an identity here which the code does not know: two        *)
(* sessions may live at one address, one after the other.                  *)
(***************************************************************************)
EXTENDS Naturals, FiniteSets

CONSTANTS
  Thread,           \* application threads
  Session,          \* bound of the model: the sessions ever created
  Addr,             \* where the allocator may put a session object
  NoSession,        \* a null shared_ptr, an unused argument
  NoAddr            \* where a session lives that was never created

ASSUME NullAssumption == NoSession \notin Session /\ NoAddr \notin Addr

VARIABLES
  pc,               \* thread -> what it is doing
  arg,              \* thread -> the session whose handle it was called with
  ref,              \* thread -> the session its local shared_ptr holds
  addrOf,           \* session -> its address
  isValid,          \* session -> is_valid_
  stateMap,         \* sessionStateMap: address -> session
  learnRefs,        \* sessions held by learn objects
  usable,           \* sessions whose handle the application may use
  destroyed,        \* sessions whose destroy has succeeded
  answer            \* the last answer of tdi_session_is_valid

vars == <<pc, arg, ref, addrOf, isValid, stateMap, learnRefs, usable, destroyed, answer>>

PC == {"idle", "insert", "created", "operate", "destroy", "remove", "lookup", "learn"}

EmptyMap == [a \in {} |-> NoSession]

\* Mutation: the map keeps plain pointers.
Held_PlainInMap == ({ref[t] : t \in Thread} \union learnRefs) \ {NoSession}

\* A session object exists as long as some shared_ptr holds it.
Held ==
  ({stateMap[a] : a \in DOMAIN stateMap} \union {ref[t] : t \in Thread} \union learnRefs)
    \ {NoSession}

\* A thread works through the address of s and relies on the object there.
Touches(t, s) == arg[t] = s /\ pc[t] \in {"operate", "destroy", "remove"}

-----------------------------------------------------------------------------

Init ==
  /\ pc = [t \in Thread |-> "idle"]
  /\ arg = [t \in Thread |-> NoSession]
  /\ ref = [t \in Thread |-> NoSession]
  /\ addrOf = [s \in Session |-> NoAddr]
  /\ isValid = [s \in Session |-> FALSE]
  /\ stateMap = EmptyMap
  /\ learnRefs = {}
  /\ usable = {}
  /\ destroyed = {}
  /\ answer = [sess |-> NoSession, destroyed |-> FALSE, valid |-> FALSE]

-----------------------------------------------------------------------------

(***************************************************************************)
(* tdi_session_create.                                                     *)
(***************************************************************************)

\* The device makes a session (when it makes none, the call fails and
\* nothing has changed; the status it returns is not looked at).
CreateSession(t, s, a) ==
  /\ pc[t] = "idle"
  /\ addrOf[s] = NoAddr
  /\ \A other \in Held : addrOf[other] # a
  /\ pc' = [pc EXCEPT ![t] = "insert"]
  /\ ref' = [ref EXCEPT ![t] = s]
  /\ addrOf' = [addrOf EXCEPT ![s] = a]
  /\ isValid' = [isValid EXCEPT ![s] = TRUE]
  /\ UNCHANGED <<arg, stateMap, learnRefs, usable, destroyed, answer>>

\* Mutation: the map remembers the address but the pointer was moved from.
InsertShared_MovedFrom(t) ==
  LET a == addrOf[ref[t]]
  IN  /\ pc[t] = "insert"
      /\ pc' = [pc EXCEPT ![t] = "created"]
      /\ stateMap' = [b \in DOMAIN stateMap \union {a} |->
                        IF b \in DOMAIN stateMap THEN stateMap[b] ELSE NoSession]
      /\ UNCHANGED <<arg, ref, addrOf, isValid, learnRefs, usable, destroyed, answer>>

\* insertShared: an address that has an entry keeps it.
InsertShared(t) ==
  LET a == addrOf[ref[t]]
  IN  /\ pc[t] = "insert"
      /\ pc' = [pc EXCEPT ![t] = "created"]
      /\ stateMap' = [b \in DOMAIN stateMap \union {a} |->
                        IF b \in DOMAIN stateMap THEN stateMap[b] ELSE ref[t]]
      /\ UNCHANGED <<arg, ref, addrOf, isValid, learnRefs, usable, destroyed, answer>>

\* The call returns: its own shared_ptr goes, the application has a handle.
ReturnCreate(t) ==
  /\ pc[t] = "created"
  /\ pc' = [pc EXCEPT ![t] = "idle"]
  /\ usable' = usable \union {ref[t]}
  /\ ref' = [ref EXCEPT ![t] = NoSession]
  /\ UNCHANGED <<arg, addrOf, isValid, stateMap, learnRefs, destroyed, answer>>

-----------------------------------------------------------------------------

(***************************************************************************)
(* The functions that work on the object behind the handle: batches,       *)
(* transactions, complete_operations, and those of tables.                 *)
(***************************************************************************)

BeginOperation(t, s) ==
  /\ pc[t] = "idle"
  /\ s \in usable
  /\ pc' = [pc EXCEPT ![t] = "operate"]
  /\ arg' = [arg EXCEPT ![t] = s]
  /\ UNCHANGED <<ref, addrOf, isValid, stateMap, learnRefs, usable, destroyed, answer>>

EndOperation(t) ==
  /\ pc[t] = "operate"
  /\ pc' = [pc EXCEPT ![t] = "idle"]
  /\ arg' = [arg EXCEPT ![t] = NoSession]
  /\ UNCHANGED <<ref, addrOf, isValid, stateMap, learnRefs, usable, destroyed, answer>>

\* tdi_session_is_valid reads is_valid_ at the address: that of the session
\* living there now, or whatever the memory holds if none does.
IsValid(s, v) ==
  /\ s \in usable \union destroyed
  /\ \A other \in Held : addrOf[other] = addrOf[s] => v = isValid[other]
  /\ answer' = [sess |-> s, destroyed |-> s \in destroyed, valid |-> v]
  /\ UNCHANGED <<pc, arg, ref, addrOf, isValid, stateMap, learnRefs, usable, destroyed>>

-----------------------------------------------------------------------------

(***************************************************************************)
(* tdi_session_destroy.                                                    *)
(***************************************************************************)

BeginDestroy(t, s) ==
  /\ pc[t] = "idle"
  /\ s \in usable
  /\ \A other \in Thread : ~Touches(other, s)
  /\ pc' = [pc EXCEPT ![t] = "destroy"]
  /\ arg' = [arg EXCEPT ![t] = s]
  /\ usable' = usable \ {s}
  /\ UNCHANGED <<ref, addrOf, isValid, stateMap, learnRefs, destroyed, answer>>

\* The session refuses, and the call returns: the handle is as good as before.
DestroyFails(t) ==
  /\ pc[t] = "destroy"
  /\ pc' = [pc EXCEPT ![t] = "idle"]
  /\ arg' = [arg EXCEPT ![t] = NoSession]
  /\ usable' = usable \union {arg[t]}
  /\ UNCHANGED <<ref, addrOf, isValid, stateMap, learnRefs, destroyed, answer>>

\* The session is destroyed, which its is_valid_ tells.
DestroySucceeds(t) ==
  /\ pc[t] = "destroy"
  /\ pc' = [pc EXCEPT ![t] = "remove"]
  /\ isValid' = [isValid EXCEPT ![arg[t]] = FALSE]
  /\ UNCHANGED <<arg, ref, addrOf, stateMap, learnRefs, usable, destroyed, answer>>

\* Mutation: removal is left out.
RemoveShared_Disabled(t) ==
  /\ pc[t] = "remove"
  /\ pc' = [pc EXCEPT ![t] = "idle"]
  /\ arg' = [arg EXCEPT ![t] = NoSession]
  /\ destroyed' = destroyed \union {arg[t]}
  /\ UNCHANGED <<ref, addrOf, isValid, stateMap, learnRefs, usable, answer>>

\* removeShared, and the call returns.  The object goes with the entry
\* unless something else holds it.
RemoveShared(t) ==
  /\ pc[t] = "remove"
  /\ pc' = [pc EXCEPT ![t] = "idle"]
  /\ arg' = [arg EXCEPT ![t] = NoSession]
  /\ stateMap' = [a \in DOMAIN stateMap \ {addrOf[arg[t]]} |-> stateMap[a]]
  /\ destroyed' = destroyed \union {arg[t]}
  /\ UNCHANGED <<ref, addrOf, isValid, learnRefs, usable, answer>>

-----------------------------------------------------------------------------

(***************************************************************************)
(* tdi_learn_callback_register, _deregister and tdi_learn_notify_ack.      *)
(***************************************************************************)

BeginLearn(t, s) ==
  /\ pc[t] = "idle"
  /\ s \in usable
  /\ pc' = [pc EXCEPT ![t] = "lookup"]
  /\ arg' = [arg EXCEPT ![t] = s]
  /\ UNCHANGED <<ref, addrOf, isValid, stateMap, learnRefs, usable, destroyed, answer>>

\* getSharedPtr: whatever the map has for the address, or null.
GetSharedPtr(t) ==
  LET a == addrOf[arg[t]]
  IN  /\ pc[t] = "lookup"
      /\ pc' = [pc EXCEPT ![t] = "learn"]
      /\ ref' = [ref EXCEPT ![t] = IF a \in DOMAIN stateMap THEN stateMap[a] ELSE NoSession]
      /\ UNCHANGED <<arg, addrOf, isValid, stateMap, learnRefs, usable, destroyed, answer>>

\* The learn object keeps the session, lets it go, or only looks at it; it
\* refuses a null one.
FinishLearn(t) ==
  /\ pc[t] = "learn"
  /\ pc' = [pc EXCEPT ![t] = "idle"]
  /\ arg' = [arg EXCEPT ![t] = NoSession]
  /\ ref' = [ref EXCEPT ![t] = NoSession]
  /\ learnRefs' \in {learnRefs, learnRefs \union {ref[t]}, learnRefs \ {ref[t]}}
  /\ NoSession \notin learnRefs'
  /\ UNCHANGED <<addrOf, isValid, stateMap, usable, destroyed, answer>>

-----------------------------------------------------------------------------

Step(t) ==
  \/ \E s \in Session, a \in Addr : CreateSession(t, s, a)
  \/ InsertShared(t)
  \/ ReturnCreate(t)
  \/ \E s \in Session : BeginOperation(t, s)
  \/ EndOperation(t)
  \/ \E s \in Session : BeginDestroy(t, s)
  \/ DestroyFails(t)
  \/ DestroySucceeds(t)
  \/ RemoveShared(t)
  \/ \E s \in Session : BeginLearn(t, s)
  \/ GetSharedPtr(t)
  \/ FinishLearn(t)

Next ==
  \/ \E t \in Thread : Step(t)
  \/ \E s \in Session, v \in BOOLEAN : IsValid(s, v)

Spec == Init /\ [][Next]_vars

-----------------------------------------------------------------------------

(***************************************************************************)
(* Properties.                                                             *)
(***************************************************************************)

\* The map has an entry for s under its address.
Registered(s) == addrOf[s] \in DOMAIN stateMap /\ stateMap[addrOf[s]] = s

\* Every variable has its type; no entry of the map is null.
TypeOK ==
  /\ pc \in [Thread -> PC]
  /\ arg \in [Thread -> Session \union {NoSession}]
  /\ ref \in [Thread -> Session \union {NoSession}]
  /\ addrOf \in [Session -> Addr \union {NoAddr}]
  /\ isValid \in [Session -> BOOLEAN]
  /\ DOMAIN stateMap \subseteq Addr
  /\ stateMap \in [DOMAIN stateMap -> Session]
  /\ learnRefs \subseteq Session
  /\ usable \subseteq Session
  /\ destroyed \subseteq Session
  /\ answer \in [sess : Session \union {NoSession}, destroyed : BOOLEAN, valid : BOOLEAN]

\* A handle the application may use, and one a running call works with,
\* leads to the session it was created for: the object has not been freed,
\* and its address has not gone to another one, whatever other threads
\* create and destroy and however often the allocator reuses addresses.
HandleIsSession ==
  \A s \in Session :
    (s \in usable \/ \E t \in Thread : Touches(t, s)) => Registered(s) /\ s \in Held

\* Two session objects never share an address, and an address under which
\* the map holds a session is that session's.
AddressesDistinct ==
  /\ \A s, r \in Held : addrOf[s] = addrOf[r] => s = r
  /\ \A a \in DOMAIN stateMap : addrOf[stateMap[a]] = a

\* Entries of the map belong to sessions that are usable or whose create or
\* destroy is still running: destroy leaves nothing behind, so a destroyed
\* session object is freed as soon as no learn object holds it.
NoEntryLeftBehind ==
  \A a \in DOMAIN stateMap :
    \/ stateMap[a] \in usable
    \/ \E t \in Thread : pc[t] = "created" /\ ref[t] = stateMap[a]
    \/ \E t \in Thread : pc[t] \in {"destroy", "remove"} /\ arg[t] = stateMap[a]

\* A learn call works with the session its handle stands for unless that
\* session was destroyed in the meantime: it never comes out with nothing,
\* nor with another session, because of what other threads do to the map.
LearnFindsSession ==
  \A t \in Thread :
    (pc[t] = "learn" /\ arg[t] \notin destroyed) => ref[t] = arg[t]
=============================================================================
