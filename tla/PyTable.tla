------------------------------ MODULE PyTable -------------------------------
(***************************************************************************)
(* The calls of the Python layer's TdiTable: which objects of the C        *)
(* frontend a call makes, what it asks of the table with them, and what    *)
(* becomes of them on each way out of it.  A dump reads the table in pages *)
(* and finds its place by the key of the last entry it has seen, while     *)
(* other sessions add and delete entries.                                  *)
(*                                                                         *)
(* A handle that nobody has anymore is not followed any further; what is   *)
(* noted is that an object of its kind has leaked.  The name of a handle   *)
(* is not used again while somebody still has it, so that a use after the  *)
(* free shows.                                                             *)
(***************************************************************************)
EXTENDS TableC, SequencesExt

CONSTANTS
  Page,             \* 20: the entries of a page of a dump
  Commands          \* the supported commands a schema may give a table

ASSUME PageAssumption == Page \in Nat /\ Page >= 2

\* There is room for a page and the key it goes on from: an allocation that
\* fails is not modelled.
ASSUME HandleAssumption == Cardinality(Handle) >= 2 * Page + 1

VARIABLES
  call,             \* the call: function and the entry it is for
  commands,         \* supported_commands
  at,               \* where it is
  todo,             \* what it has to make before it asks the table
  own,              \* its handle of each kind, or Null
  keys,             \* key_hdls of a dump
  datas,            \* data_hdls
  prev,             \* prev_key_hdl
  outcome,          \* how the call ended
  leaked,           \* kinds of objects the call has lost
  shown,            \* entries of a dump, in the order in which they were printed
  stood,            \* history: entries that have stood since the call began
  cut               \* history: the entry a dump goes on from has been deleted

callVars == <<call, commands>>
pageVars == <<keys, datas, prev>>
history == <<stood, cut>>
vars == <<entries, obj, sts, callVars, at, todo, own, pageVars, outcome, leaked, shown,
          history>>

-----------------------------------------------------------------------------

Function == {"add", "mod", "del", "delByHandle", "clear", "get", "getByHandle",
             "handle", "key", "dump", "usage", "default", "getDefault", "operation"}

\* The functions that are about one entry.
OfEntry == {"add", "mod", "del", "delByHandle", "get", "getByHandle", "handle", "key"}

\* What each function makes before it asks the table, in order.  The keys and
\* data a user has given are filled, the others are for the driver to fill.
Plan(fn) ==
  CASE fn \in {"add", "mod"} -> <<"key", "data", "flags">>
    [] fn \in {"del", "handle"} -> <<"key">>
    [] fn = "delByHandle" -> <<"emptyKey">>
    [] fn = "get" -> <<"emptyData", "flags", "key">>
    [] fn = "getByHandle" -> <<"emptyData", "flags", "emptyKey">>
    [] fn = "key" -> <<"emptyKey", "target">>
    [] fn = "dump" -> <<"emptyKey", "emptyData", "flags">>
    [] fn = "usage" -> <<"flags">>
    [] fn = "default" -> <<"data">>
    [] fn = "getDefault" -> <<"emptyData", "flags">>
    [] fn = "operation" -> <<"operations">>
    [] fn = "clear" -> <<>>

Step == {"key", "data", "emptyKey", "emptyData", "flags", "target", "operations"}

KindOf(step) ==
  IF step = "emptyKey" THEN "key" ELSE IF step = "emptyData" THEN "data" ELSE step

Owned(kinds) == {own[kind] : kind \in kinds} \ {Null}

\* Handles the call has in its variables.
Held == Owned(Kind) \union Range(keys) \union Range(datas) \union ({prev} \ {Null})

\* The names nobody has, in order.
Spare ==
  LET S == Handle \ (Live \union Held)
  IN  [i \in 1..Cardinality(S) |-> CHOOSE h \in S : Place(S, h) = i]

NoneOwned == [kind \in Kind |-> Null]

Fn == call.fn

\* obj becomes o.  What no handle in S leads to is lost.
Keep(o, S) ==
  /\ obj' = [h \in Handle |-> IF h \in S THEN o[h] ELSE Null]
  /\ leaked' = leaked \union {o[h].kind : h \in {g \in Handle \ S : o[g] # Null}}

\* The call ends, its variables with it.  What is in "kept" goes to the
\* caller.
End(how, o, kept) ==
  /\ at' = "idle"
  /\ outcome' = how
  /\ Keep([h \in Handle |-> IF h \in kept THEN Null ELSE o[h]], {})
  /\ todo' = <<>>
  /\ own' = NoneOwned
  /\ keys' = <<>> /\ datas' = <<>> /\ prev' = Null
  /\ UNCHANGED <<entries, sts, callVars, history>>

Goto(label) == at' = label /\ UNCHANGED <<callVars, outcome, history>>

Init ==
  /\ entries \in SUBSET Key
  /\ obj = [h \in Handle |-> Null]
  /\ sts = "success"
  /\ call = [fn |-> "clear", entry |-> Null]
  /\ commands \in Commands
  /\ at = "idle"
  /\ todo = <<>>
  /\ own = NoneOwned
  /\ keys = <<>> /\ datas = <<>> /\ prev = Null
  /\ outcome = "ok"
  /\ leaked = {}
  /\ shown = <<>>
  /\ stood = entries
  /\ cut = FALSE

-----------------------------------------------------------------------------

(***************************************************************************)
(* A call begins, and makes the objects it needs.                          *)
(***************************************************************************)

\* The functions for a handle of an entry are for tables that support it.
Begin(fn, k) ==
  /\ at = "idle"
  /\ k # Null <=> fn \in OfEntry
  /\ fn \in {"delByHandle", "getByHandle"} => "get_by_handle" \in commands
  /\ call' = [fn |-> fn, entry |-> k]
  /\ at' = "make"
  /\ todo' = Plan(fn)
  /\ leaked' = {}
  /\ shown' = <<>>
  /\ stood' = entries
  /\ cut' = FALSE
  /\ sts' = "success"
  /\ outcome' = "ok"
  /\ UNCHANGED <<entries, obj, commands, own, pageVars>>

\* An empty dump: the table cannot be listed.
NotListed ==
  /\ at = "make" /\ Fn = "dump" /\ todo = Plan("dump")
  /\ "get_first" \notin commands
  /\ End("unlisted", obj, {})
  /\ UNCHANGED shown

Making(step) ==
  /\ at = "make"
  /\ todo # <<>> /\ Head(todo) = step
  /\ Fn = "dump" => "get_first" \in commands

\* The object of one step.
MadeIn(step, h) ==
  CASE step = "key" -> KeySetValue(h, call.entry)
    [] step = "emptyKey" -> KeyAllocate(h)
    [] step = "data" -> DataSetValue(h)
    [] step = "emptyData" -> DataAllocate(h)
    [] step = "flags" -> FlagsCreate(h)
    [] step = "target" -> TargetCreate(h)
    [] step = "operations" -> OperationsAllocate(h)

Make(step) ==
  /\ Making(step)
  /\ obj' = MadeIn(step, Spare[1])
  /\ own' = [own EXCEPT ![KindOf(step)] = Spare[1]]
  /\ todo' = Tail(todo)
  /\ Goto("make")
  /\ UNCHANGED <<entries, sts, pageVars, leaked, shown>>

\* Flags and targets are always made.  The others are up to the table: they
\* may fail.
MakeFails(step) ==
  /\ Making(step)
  /\ step \notin {"flags", "target"}
  /\ ~(Fn \in {"add", "mod"} /\ step = "data")
  /\ LET freed == IF Fn = "getByHandle" /\ step = "emptyKey" THEN Owned({"data"}) ELSE {}
     IN  End("early", Freed(freed), {})
  /\ UNCHANGED shown

\* add and mod go on without their data.
DataFails ==
  /\ Making("data")
  /\ Fn \in {"add", "mod"}
  /\ todo' = Tail(todo)
  /\ Goto("make")
  /\ UNCHANGED <<entries, obj, sts, own, pageVars, leaked, shown>>

\* A field is not taken, if only because the driver does not override its
\* setter: an exception is raised past the object just made and
\* all the others.
FillFails(step) ==
  /\ Making(step)
  /\ step \in {"key", "data"}
  /\ End("early", MadeIn(step, Spare[1]), {})
  /\ UNCHANGED shown

-----------------------------------------------------------------------------

(***************************************************************************)
(* The call asks the table.                                                *)
(***************************************************************************)

Ready(fns) == at = "make" /\ todo = <<>> /\ Fn \in fns

\* add and mod that have no data.
GiveUp ==
  /\ Ready({"add", "mod"})
  /\ own["data"] = Null
  /\ End("early", Freed(Owned({"key", "flags"})), {})
  /\ UNCHANGED shown

Ask ==
  /\ \/ Ready({"add"}) /\ own["data"] # Null /\ EntryAdd(own["key"])
     \/ Ready({"mod"}) /\ own["data"] # Null /\ EntryMod(own["key"])
     \/ Ready({"del"}) /\ EntryDel(own["key"])
     \/ at = "found" /\ Fn = "delByHandle" /\ EntryDel(own["key"])
     \/ Ready({"clear"}) /\ Clear
     \/ Ready({"get"}) /\ EntryGet(own["key"])
     \/ Ready({"getByHandle"}) /\ EntryGetByHandle(call.entry, own["key"])
     \/ Ready({"handle"}) /\ EntryHandleGet(own["key"])
     \/ Ready({"key"}) /\ EntryKeyGet(call.entry, own["key"])
     \/ Ready({"usage"}) /\ "usage_get" \in commands /\ TableWide
     \/ Ready({"default", "getDefault"}) /\ TableWide
  /\ Goto("answered")
  /\ UNCHANGED <<todo, own, pageVars, leaked, shown>>

\* The usage of a table that does not count it is "n/a".
NotCounted ==
  /\ Ready({"usage"})
  /\ "usage_get" \notin commands
  /\ End("unlisted", obj, {})
  /\ UNCHANGED shown

\* The setters of operations are not functions of the C frontend: the call
\* raises an exception as soon as it has made its object.
NoSetter ==
  /\ Ready({"operation"})
  /\ End("early", obj, {})
  /\ UNCHANGED shown

\* What is deleted by its handle is looked up first.
FindKey ==
  /\ Ready({"delByHandle"})
  /\ EntryKeyGet(call.entry, own["key"])
  /\ Goto("found")
  /\ UNCHANGED <<todo, own, pageVars, leaked, shown>>

\* The table has refused the lookup.
KeyNotFound ==
  /\ at = "found" /\ sts # "success"
  /\ End("unfound", obj, {})
  /\ UNCHANGED shown

\* The calls whose way out, after the answer they asked for, gives everything back.
Tidy == {"add", "mod", "del", "delByHandle", "get", "getByHandle", "default", "getDefault",
         "clear"}

\* Mutation: the flags are not among them.
Returned_NoFlags ==
  IF Fn \in Tidy THEN Owned(Kind \ {"flags"})
  ELSE IF Fn = "key" \/ (Fn = "handle" /\ sts # "success") THEN Owned({"key"})
  ELSE {}

\* The handles a call gives back at its end.
Returned ==
  IF Fn \in Tidy THEN Owned(Kind)
  ELSE IF Fn = "key" \/ (Fn = "handle" /\ sts # "success") THEN Owned({"key"})
  ELSE {}

\* The caller of get_entry_key gets the target.
Finish ==
  /\ at = "answered"
  /\ LET ok == sts = "success"
     IN  End(IF ok THEN "ok" ELSE "refused", Freed(Returned),
             IF ok /\ Fn = "key" THEN Owned({"target"}) ELSE {})
  /\ UNCHANGED shown

\* The answer cannot be read or printed: it has an unknown action, or a
\* target the shell has no function for.
ReadFails ==
  /\ at = "answered" /\ sts = "success"
  /\ Fn \in {"get", "getByHandle", "getDefault", "key"}
  /\ End("unread", obj, {})
  /\ UNCHANGED shown

-----------------------------------------------------------------------------

(***************************************************************************)
(* dump.                                                                   *)
(***************************************************************************)

\* get_first: its flags are lost when it returns.
First ==
  /\ Ready({"dump"})
  /\ EntryGetFirst(own["key"])
  /\ Goto("first")
  /\ UNCHANGED <<todo, own, pageVars, leaked, shown>>

NoFirst ==
  /\ at = "first" /\ sts # "success"
  /\ End("refused", obj, {})
  /\ UNCHANGED shown

FirstPage ==
  /\ at = "first" /\ sts = "success"
  /\ keys' = <<own["key"]>>
  /\ datas' = <<own["data"]>>
  /\ prev' = own["key"]
  /\ leaked' = leaked \union {"flags"}
  /\ obj' = Freed(Owned({"flags"}))
  /\ own' = NoneOwned
  /\ Goto("next")
  /\ UNCHANGED <<entries, sts, todo, shown>>

\* obj with new keys and new data at these handles.
WithPage(newKeys, newData) ==
  [h \in Handle |-> IF h \in newKeys THEN KeyAllocate(h)[h]
                    ELSE IF h \in newData THEN DataAllocate(h)[h] ELSE obj[h]]

\* Mutation: a whole page is asked for, whatever there is of it already.
MakePage_Whole ==
  LET new == SubSeq(Spare, 1, Page)
      newData == SubSeq(Spare, Page + 1, 2 * Page)
  IN  /\ at = "next" /\ "get_next_n" \in commands
      /\ obj' = WithPage(Range(new), Range(newData))
      /\ keys' = keys \o new
      /\ datas' = datas \o newData
      /\ Goto("nextN")
      /\ UNCHANGED <<entries, sts, todo, own, prev, leaked, shown>>

\* get_next: the rest of a page of keys and data is made.
MakePage ==
  LET n == Page - Len(keys)
      new == SubSeq(Spare, 1, n)
      newData == SubSeq(Spare, n + 1, 2 * n)
  IN  /\ at = "next" /\ "get_next_n" \in commands
      /\ obj' = WithPage(Range(new), Range(newData))
      /\ keys' = keys \o new
      /\ datas' = datas \o newData
      /\ Goto("nextN")
      /\ UNCHANGED <<entries, sts, todo, own, prev, leaked, shown>>

\* Some of them cannot be made: an exception is raised past all there are.
MakePageFails ==
  /\ at = "next" /\ "get_next_n" \in commands
  /\ \E n \in 0..(Page - Len(keys) - 1) : \E m \in {n, n + 1} :
       End("early", WithPage(Range(SubSeq(Spare, 1, m)), Range(SubSeq(Spare, m + 1, m + n))),
           {})
  /\ UNCHANGED shown

\* The keys of the page that come from earlier functions.
Before == Cardinality({i \in 1..Len(keys) : obj[keys[i]].entry # Null})

\* An answer of "not found" is taken for the end of the table.  The flags are
\* lost when the function returns, and so is what was not needed.
NextN ==
  LET asked == SubSeq(keys, Before + 1, Len(keys))
  IN  /\ at = "nextN"
      /\ EntryGetNextN(prev, asked)
      /\ keys' = SubSeq(keys, 1, Before + NumReturned(asked))
      /\ datas' = SubSeq(datas, 1, Before + NumReturned(asked))
      /\ leaked' = leaked \union {"flags"}
      /\ Goto("page")
      /\ UNCHANGED <<todo, own, prev, shown>>

NextFails ==
  /\ at = "page" /\ sts \notin {"success", "notFound"}
  /\ End("refused", obj, {})
  /\ UNCHANGED shown

\* A table that does not support it has no next entries.
NoNextN ==
  /\ at = "next" /\ "get_next_n" \notin commands
  /\ Goto("page")
  /\ UNCHANGED <<entries, obj, sts, todo, own, pageVars, leaked, shown>>

PageRead == at = "page" /\ sts \in {"success", "notFound"}

\* Mutation: a dump asks until it is told "not found".
EndOfTable_AsksAgain ==
  /\ PageRead /\ keys = <<>>
  /\ \/ sts = "notFound" /\ End("ok", Freed({prev}), {})
     \/ /\ sts = "success" /\ Goto("next")
        /\ Keep(obj, {prev})
        /\ UNCHANGED <<entries, sts, todo, own, pageVars>>
  /\ UNCHANGED shown

EndOfTable ==
  /\ PageRead /\ keys = <<>>
  /\ End("ok", Freed({prev}), {})
  /\ UNCHANGED shown

\* Mutation: the last key of the page is freed with the others.
ShowPage_FreesAll ==
  LET freed == Range(keys) \union Range(datas)
      last == Last(keys)
  IN  /\ PageRead /\ keys # <<>>
      /\ shown' = shown \o [i \in 1..Len(keys) |-> KeyGetValue(keys[i])]
      /\ \/ /\ Len(keys) < Page
            /\ End("ok", Freed(freed), {})
         \/ /\ Len(keys) >= Page
            /\ Keep(Freed(freed), {last})
            /\ prev' = last
            /\ keys' = <<>> /\ datas' = <<>>
            /\ Goto("next")
            /\ UNCHANGED <<entries, sts, todo, own>>

\* Mutation: a full page is taken for the last.
ShowPage_StopsFull ==
  /\ PageRead /\ keys # <<>>
  /\ shown' = shown \o [i \in 1..Len(keys) |-> KeyGetValue(keys[i])]
  /\ End("ok", Freed(Range(keys) \union Range(datas)), {})

\* Mutation: the dump goes on from the first key of the page.
ShowPage_FromFirst ==
  LET first == keys[1]
      freed == Range(Tail(keys)) \union Range(datas)
  IN  /\ PageRead /\ keys # <<>>
      /\ shown' = shown \o [i \in 1..Len(keys) |-> KeyGetValue(keys[i])]
      /\ \/ /\ Len(keys) < Page
            /\ End("ok", Freed(freed \union {first}), {})
         \/ /\ Len(keys) >= Page
            /\ Keep(Freed(freed), {first})
            /\ prev' = first
            /\ keys' = <<>> /\ datas' = <<>>
            /\ Goto("next")
            /\ UNCHANGED <<entries, sts, todo, own>>

\* A page is printed, and given back but for its last key.  The key the page
\* went on from is lost.
ShowPage ==
  LET freed == Range(Front(keys)) \union Range(datas)
      last == Last(keys)
  IN  /\ PageRead /\ keys # <<>>
      /\ shown' = shown \o [i \in 1..Len(keys) |-> KeyGetValue(keys[i])]
      /\ \/ /\ Len(keys) < Page
            /\ End("ok", Freed(freed \union {last}), {})
         \/ /\ Len(keys) >= Page
            /\ Keep(Freed(freed), {last})
            /\ prev' = last
            /\ keys' = <<>> /\ datas' = <<>>
            /\ Goto("next")
            /\ UNCHANGED <<entries, sts, todo, own>>

ShowPageFails ==
  /\ PageRead /\ keys # <<>>
  /\ End("unread", obj, {})
  /\ UNCHANGED shown

-----------------------------------------------------------------------------

\* The handles the next step works with.
Needs ==
  CASE at = "nextN" -> {prev} \union Range(keys) \union Range(datas)
    [] at = "page" /\ keys = <<>> -> {prev}
    [] at = "page" /\ keys # <<>> -> Range(keys) \union Range(datas)
    [] OTHER -> Owned(Kind)

Work ==
  \/ NotListed \/ DataFails
  \/ \E step \in Step : Make(step) \/ MakeFails(step) \/ FillFails(step)
  \/ GiveUp \/ Ask \/ NotCounted \/ NoSetter \/ FindKey \/ KeyNotFound
  \/ Finish \/ ReadFails
  \/ First \/ NoFirst \/ FirstPage
  \/ MakePage \/ MakePageFails \/ NextN \/ NextFails \/ NoNextN
  \/ EndOfTable \/ ShowPage \/ ShowPageFails

\* What happens after a use of what has been freed is not modelled.
PyStep == Needs \subseteq Live /\ Work

\* The key a dump goes on from.
Mark ==
  IF at = "first" THEN own["key"] ELSE IF at = "page" /\ keys # <<>> THEN Last(keys) ELSE prev

\* Other sessions change the table at any time.
OtherAdds(k) ==
  /\ entries' = entries \union {k}
  /\ UNCHANGED <<obj, sts, callVars, at, todo, own, pageVars, outcome, leaked, shown, history>>

OtherDeletes(k) ==
  /\ entries' = entries \ {k}
  /\ stood' = stood \ {k}
  /\ cut' = (cut \/ (Fn = "dump" /\ Mark \in Live /\ obj[Mark].entry = k))
  /\ UNCHANGED <<obj, sts, callVars, at, todo, own, pageVars, outcome, leaked, shown>>

Next ==
  \/ \E fn \in Function : \E k \in Key \union {Null} : Begin(fn, k)
  \/ PyStep
  \/ \E k \in Key : OtherAdds(k) \/ OtherDeletes(k)

\* The C frontend returns from every call.
Spec == Init /\ [][Next]_vars /\ WF_vars(PyStep)

-----------------------------------------------------------------------------

(***************************************************************************)
(* Properties.                                                             *)
(***************************************************************************)

\* The places a call may come to from this one, but for the next page.
LaterThan(place) ==
  CASE place = "make" -> {"found", "answered", "first"}
    [] place = "found" -> {"answered"}
    [] place = "first" -> {"next"}
    [] place = "next" -> {"nextN", "page"}
    [] place = "nextN" -> {"page"}
    [] OTHER -> {}

\* The variables have their types.
TypeOK ==
  /\ entries \subseteq Key
  /\ obj \in [Handle -> Object \union {Null}]
  /\ sts \in Status
  /\ call \in [fn : Function, entry : Key \union {Null}]
  /\ commands \in Commands
  /\ at \in {"idle", "make", "found", "answered", "first", "next", "nextN", "page"}
  /\ Range(todo) \subseteq Step
  /\ own \in [Kind -> Handle \union {Null}]
  /\ \A kind \in Kind : own[kind] \in Live => obj[own[kind]].kind = kind
  /\ Range(keys) \union Range(datas) \subseteq Handle
  /\ Len(keys) = Len(datas) /\ Len(keys) <= Page
  /\ prev \in Handle \union {Null}
  /\ outcome \in {"ok", "unlisted", "early", "refused", "unread", "unfound"}
  /\ leaked \subseteq Kind
  /\ Range(shown) \subseteq Key
  /\ stood \subseteq Key /\ (Fn = "dump" => stood \subseteq entries)
  /\ cut \in BOOLEAN

\* No call works with an object it has given back: the key a dump goes on
\* from outlives its page.
NoUseAfterFree == at # "idle" => Needs \subseteq Live

\* The kinds of objects a function makes.
Planned(fn) == {KindOf(step) : step \in Range(Plan(fn))}

\* What the table functions but dump lose, by how they end: all they have made
\* if the answer cannot be read, the key if the lookup before a deletion is
\* refused or an entry has a handle, the target if there is no key for it, the
\* flags with which the usage is asked for; and nothing else.
Leaks(fn, how) ==
  CASE how = "unread" -> Planned(fn)
    [] how = "unfound" -> {"key"}
    [] fn = "handle" /\ how = "ok" -> {"key"}
    [] fn = "key" /\ how = "refused" -> {"target"}
    [] fn = "usage" -> {"flags"}
    [] OTHER -> {}

\* A call that has made what it needs loses exactly the objects its way out
\* forgets, and gives back all others, whatever the table answers to each of
\* its questions (add_entry ... get_default_entry, and del_entry by handle,
\* which asks two).
OnlyTheseLeak ==
  at = "idle" /\ Fn # "dump" /\ outcome # "early" => leaked = Leaks(Fn, outcome)

\* A dump shows no entry twice.  When it ends without an error it has shown
\* every entry that has stood all the while, unless an entry at the end of a
\* page was deleted meanwhile, or the table can only be asked for the first.
DumpIsWhole ==
  /\ \A i, j \in 1..Len(shown) : i < j => shown[i] < shown[j]
  /\ at = "idle" /\ Fn = "dump" /\ outcome = "ok" /\ "get_next_n" \in commands /\ ~cut =>
       stood \subseteq Range(shown)

\* A step leaves a call as it is, as others' steps do, or brings it nearer to
\* its end: it has less to make, it is at a later place, or its dump goes on
\* from a later entry than before.  Until a page has been printed the entry it
\* goes on from stays the same.
Advance ==
  at # "idle" /\ at' # "idle" =>
    \/ UNCHANGED <<obj, sts, callVars, at, todo, own, pageVars, outcome, leaked, shown>>
    \/ at = "make" /\ at' = "make" /\ Len(todo') < Len(todo)
    \/ at' \in LaterThan(at) /\ (at \in {"next", "nextN"} => obj'[prev'] = obj[prev])
    \/ at = "page" /\ at' = "next" /\ obj[prev].entry < obj'[prev'].entry

\* No call goes back, though other sessions add and delete entries meanwhile:
\* dump never asks for a page it has printed.
CallAdvances == [][Advance]_vars

\* Every call ends, a dump also while others keep adding entries.
CallEnds == at = "make" ~> at = "idle"
=============================================================================
