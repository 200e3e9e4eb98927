# TLA+ models of TDI

TDI (Table Driven Interface) is a C++ library between an application that
controls a programmable switch and the driver of a target. Schema files describe
the tables of a P4 program; the library builds a registry of tables from them,
hands out keys, data objects and sessions, and passes operations to the driver.
A C frontend exports it as handles, and a Python shell uses that frontend.

This directory holds TLA+ modules of the parts of the library that keep state,
TLC configurations that check them on small instances, and TLAPS proofs of their
main properties for every value of the constants. `PROJECT.json` maps definitions
to source lines; paths below are relative to the repository.

## 1. The system

| Component | State | Operations | Talks to |
|---|---|---|---|
| **TdiInfo** (`src/tdi_info.cpp`) | maps from names, partial names and ids to tables and learns | constructor, lookups | built from the parser's result; asked by the C frontend |
| **Schema parser** (`src/tdi_json_parser/tdi_info_parser.cpp`) | maps of `TableInfo` and `LearnInfo`, each with keys, data fields, actions, oneofs, notifications | `parseTdiInfo` over a list of files | read once per program by the device's constructor |
| **Schema lookups** (`src/tdi_json_parser/tdi_table_info.cpp`, `tdi_learn_info.cpp`) | none of their own | field, action and parameter by id or name, lists | every typed access to keys and data |
| **Device manager** (`src/tdi_init.cpp`, `include/tdi/common/tdi_init.hpp`, `src/c_frontend/tdi_init_c.cpp`) | a singleton, a map of devices, warm-init state | add, remove, get, lists, warm init | owns devices, which own a `TdiInfo` per program |
| **TableData** (`src/tdi_table_data.cpp`) | ids of action and container; a flag and two sets for the active fields | `reset`, `activeFieldsSet`, `removeActiveField`, `isActive` | filled by the driver, read by the application |
| **Sessions of the C frontend** (`src/c_frontend/tdi_session_c.cpp`, `tdi_state_c.cpp`, `tdi_learn_c.cpp`) | map address -> `shared_ptr<Session>` under a mutex | create, destroy, operations, is_valid, learn calls | the device's `createSession`; learn objects keep sessions |
| **Data and key handles of the C frontend** (`src/c_frontend/tdi_table_c.cpp`, `tdi_table_data_c.cpp`) | objects the application has to free; objects containers own | allocate, reset, deallocate, set container fields | the driver's `setValue` takes ownership |
| **Schema functions of the C frontend** (`src/c_frontend/tdi_table_info_c.cpp`) | none; arrays are the application's | lists in two calls, attributes of fields and actions | schema lookups; asked by the Python layer |
| **Table functions of the C frontend** (`src/c_frontend/tdi_table_c.cpp`, `tdi_table_key_c.cpp`) | objects behind handles | entries, pages of entries, keys, data, flags, targets, operations | the driver's `Table` |
| **TdiThreadPool** (`include/tdi/common/tdi_utils.hpp`) | task queue, workers, condition variable, shutdown flag | `submitTask`, worker loop, destructor | offered to target drivers |
| **Field values** (`include/tdi/common/tdi_utils.hpp`, `src/tdi_target.cpp`) | none | byte order, size and bounds checks; device id and flags | drivers and the C frontend |
| **Base classes** (`src/tdi_table.cpp`, ...) | none | all answer `TDI_NOT_SUPPORTED` | overridden by drivers |
| **Python table layer** (`tdi_python/tdiTable.py`, `tdiTableEntry.py`) | handles of one call, callbacks of a table | add, modify, delete, get, dump, operations | the C frontend by ctypes |
| **Python shell**, **cJSON wrapper**, **architectures** | printing, file access, enumerators | | |

What is hard:

* *concurrency*: the map of sessions, whose keys are addresses the allocator
  reuses, and the thread pool, which notifies without the mutex its workers look
  at the queue under; `DevMgr::getInstance`, which tests its pointer unlocked;
* *ownership*: raw handles across the C boundary, which are freed by the caller,
  by a container, or by a call that failed;
* *encodings*: active fields as a flag and two sets; partial names in one map that
  the arrival of another table can empty;
* *partial failure*: a schema file missing midway, a table with a duplicate key, a
  Python call that has allocated three handles of four.

`PROJECT.json` lists these as hazards at the lines where they bite, with the
properties that cover them, or the reason why none does.

What makes each component correct: a name must resolve exactly when one table
claims it, an id to the first table with it (TdiInfo); the flag and two sets must
stand for one set of active fields, and a oneof must not have two values
(TableData); a handle must lead to its own session and the map keep nothing after
a destroy (sessions); each data object must have one owner and go with it
(handles); tasks must be run in order and once, none may be left in the queue of two or more workers, and the
destructor must return (thread pool); every field of a parsed table must be found by id and by
name alike (schema); there must be one manager, and a handle must lead to its device
until that is removed (devices); no list may write past the array made for it, and
what is listed must be found (C frontend); a call must not use what it has freed, must
give back what it made but for what each way out is known to forget, and a dump must show
each entry once (Python); a value must be accepted exactly if the field has the bits for it, and
read back as it was set (field values).

## 2. Modules

### NameMaps, NameResolution: the registry of names

`NameMaps` is `TdiInfo::TdiInfo` with `populateFullNameMap` and
`generateUniqueNames`. A name is the sequence of its tokens between dots; the
empty token is allowed, since nothing checks a schema's names.

| code | model |
|---|---|
| the parser's `std::map` of infos | `infoMap`; `Precedes` is the order it is iterated in |
| loop of the constructor, the factory may return null | `MakeObject`, `RegisterId` |
| call of `populateFullNameMap` | `StartNames` |
| its loop over the built objects | `ClaimNames` |
| its loop over `names_to_remove` | `RemoveNames` |
| `tableFromNameGet`, `tableFromIdGet` (and those of learns) | `FromNameGet`, `FromIdGet` |

`NameResolution` is the promise: objects are collected, then published, and a name
resolves iff exactly one of them has it. `ImplementsResolution` is the refinement.

### TableData, ActiveFields: which fields take part

`TableData` has the members `action_id_`, `container_id_`, `all_fields_set_`,
`active_fields_s_` and `removed_one_ofs_`, and a history variable `written`.
`Reset`, `StartFill` (a driver's `actionIdSet` and `activeFieldsSet`),
`RemoveActiveField` are the public functions. `SetValue` is the driver's function
as the class tells it to be written: it refuses fields that are not active and
removes the other members of a oneof; drivers are not in the repository, so it is
external. `ActiveFields` is one set that is chosen and shrinks; it is `isActive` that
answers for it, while an empty `ActiveFieldsGet` may stand for all fields or for none
(`EmptyMeansAll`, violated).

### CSession: sessions and their handles

One step per access to shared state: the creation of the object, `insertShared`
and `removeShared` under the mutex, the return of each call. `Held` says which
objects some `shared_ptr` keeps alive; `CreateSession` may take any address that
no held object has. The application keeps to what any handle API asks for (it does
not use a handle after it has destroyed it, nor destroy it under another call);
`is_valid` may be asked of any handle. A learn call may race with a destroy.
`tdi_learn_c.cpp`, the only user of `getSharedPtr`, is in the repository but not in
the build.

### DataHandles: who frees a data object

`mine` are the handles the application has to free, `children` what containers
own. `SetContainer` and `SetContainerFails` are the two outcomes of
`tdi_data_field_set_value_data_field_array`, which wraps the pointers in
`unique_ptr`s before it knows the outcome. `Below` is the closure that destructors
walk. The application passes handles it owns, without repetition and not the
parent. (Some of the code is under `_TDI_FROM_BFRT`.)

### ThreadPool, TaskPool: tasks and workers

One step of a worker per point of `WorkerThread::operator()` where another thread
can come in between:

| `pc` | the worker |
|---|---|
| `loop` | is about to test `shutdown_` |
| `lock` | wants `mtx_` |
| `check` | has it, and is about to look at the queue |
| `window` | has found the queue empty, and is about to sleep |
| `waiting`, `woken` | sleeps; has been woken and wants `mtx_` back |
| `dequeue` | has left the locked scope |
| `run`, `exit` | runs its task; has returned |

`submitTask` is `Enqueue` and `NotifyOne`, the destructor `BeginShutdown`,
`NotifyAll` and `Join`. `shutdown` is the flag as the workers see it: it is a plain
`bool` written without synchronisation, so the store may arrive late
(`StoreArrives`). The queue's own mutex makes `Dequeue` one step. `TaskPool` is the
promise without liveness: first come first served, each task once, and after the
shutdown at most one more task per worker. That a task is run at all (`NotStranded`,
`SubmittedRuns`) is promised of two or more workers: a notification that comes between a
worker's look and its sleep is lost, and then it takes another worker to find the task. The
pool of one, the constructor's default, has none (`PickedUpWhenEnqueued`, violated).

### SchemaParser, TableInfo: from schema files to tables

`SchemaParser` reads the files element by element: `at` is the list the next element
is in, `table` and `part` are what `parseTable` and `parseAction`,
`parseNotificationInfo` or `parseLearn` have in their hands, `tableInfoMap` and
`learnInfoMap` the results. The next element is chosen when it is read, so a run
covers every file of its size.

| code | model |
|---|---|
| `parseTdiInfo`: the list of files, an unreadable one, the return | `NoFiles`, `OpenFile`, `CannotOpen`, `AllRead` |
| `table_info_map_[name] = parseTable(...)` | `Store`, of the table or of a null pointer |
| `parseTable`: the four lists, and its early returns | `ParseKeyField`, `ParseData`, `EndAction`, `EndNotification`; `RepeatedKeyField`, `RepeatedAction`, `RepeatedNotification` |
| `parseAction`, `parseNotificationInfo`, `parseLearn` | `BeginAction` and `ParseActionData`, and so on |
| `parseDataField` with the index its callers pass | `ParseDataField`: counted from 1, so 1 for an action and 2 for a learn |
| `data_field->idGet()` is taken: log and skip | `AddField`, `AddElement`; `skipped` is the history of it |

`AddElement` is the loop over a oneof's members in closed form: each id gets the field
of its first member, unless the map has it. `TableInfo` has the lookups as operators
on what was parsed; a name leads to the highest of its ids in a table, since the
constructors fill their maps in the order of ids, and to the lowest in a learn, which
has no map. Types, widths, defaults and annotations of fields are left out; so are
ids that are missing in the json, except where the parser reads beyond a oneof's end
(`NoMember`).

`FirstDeclarationStands` is the other side of the duplicate checks: in each of the lists
(keys, common fields, actions, notifications, an action's or a learn's fields, a
notification's parameters) an element whose id is taken changes nothing that is there.
`OneofsPartition` is what `TableData` assumes of the schema (`OneofAssumption`). It is
stated of common fields and of tables parsed without an error: an action keeps the
first field of a oneof alone, with siblings it does not have, and a repeated id leaves
siblings that are not mutual.

### Devices: the manager and what it hands out

`getInstance` is taken apart into its test, the lock, the second test, the two writes
of `new DevMgr()` and the assignment, in either order, and the unlock; every call of
the C frontend goes through it. One thread, the driver, adds and removes devices, as
drivers do; the others look devices, programs and lists up meanwhile, in a map that
has no lock. `getInstance` returns the pointer its first test has seen, built or not
(`ManagerConstructed`, violated); `OneManager` says that it is one pointer for all, and a
built one for a thread that had to wait for the mutex. What a data race leads to is the state
`undefined` of a thread (`Unready`: it works with a manager that is not built; `Torn`;
`Dangle`), from which it does not come back.

| code | model |
|---|---|
| `DevMgr::getInstance` | `TestInstance`, `LockInstance`, `TestAgain`, `Construct`, `Publish`, `Unlock` |
| `deviceAdd`, `deviceRemove` | `AddTest`, `Insert`; `RemoveTest`, `Erase` |
| `tdi_device_get`, `tdi_info_get` | `DeviceGet`; `FindDevice`, `InfoGet` |
| `tdi_num_device_id_list_get`, `tdi_device_id_list_get`, and those of program names | `NumDeviceIds`, `DeviceIds`; `NumP4Names`, `P4Names` |

A device is its id and what each program's `makeTdiInfo` has given: nothing, a null
pointer, or a `TdiInfo`. `Stale`, `lost` and `changed` are history: what a handle, a
pointer or an array led to has gone since.

### TableInfoC, TableWalk: the schema as the Python layer learns it

`TableInfoC` has the functions of `tdi_table_info_c.cpp` over `TableInfo`'s lookups. A
function that writes past an array or follows a null pointer answers `Null`: the code
tests neither. `TableWalk` is the constructor of `TdiTable` in `tdiTable.py`, one step
per list and per element: its loops over key fields, actions and data fields, what it
files under which name, and the ways it ends early (an invalid table type, a command
without a name, a container field). The table is one the parser can make
(`SchemaAssumption`, which `SchemaParser!TypeOK` establishes).

### TableC, PyTable: entries, their handles, and a dump

`TableC` has the functions of `tdi_table_c.cpp` and of keys on a table of entries, which
stands for the target's driver and may refuse anything. `PyTable` is a session of the
shell: one call of `tdiTable.py` after the other, with the objects it makes (`Plan`),
what it asks of the table, and what it frees on each way out. `leaked` notes what no
variable leads to any more, `outcome` by which way the call has ended: before it had made what
it needs (`early`), refused a command the table does not list (`unlisted`), refused the entry
it was to find first (`unfound`), refused (`refused`), with an answer it cannot read, such as an
action it does not know (`unread`), or well (`ok`). A dump reads pages by `get_next_n` from the key of the last
entry it has seen, while `OtherAdds` and `OtherDeletes` are the other sessions.

| code | model |
|---|---|
| `_make_call_keys`, `_make_call_data`, `_make_call_flags` and the allocations in the calls | `Make`, `MakeFails`, `DataFails`, `FillFails` |
| the call of the C frontend, the exits after it | `Ask`, `Finish`, `ReadFails`; `GiveUp`, `FindKey`, `KeyNotFound`, `NotCounted`, `NoSetter` |
| `get_first`, `get_next`, the loop of `dump` | `First` ... `FirstPage`; `MakePage`, `NextN`, `NextFails`, `NoNextN`; `EndOfTable`, `ShowPage`, `ShowPageFails` |

### FieldValues: which values a field takes

The helpers of `tdi_utils.hpp` a driver's `setValue` and `getValue` call, on a field as the
schema's parser makes it: match type, form and size, bounds, and the conversions between
a word and bytes in network order. The order in which a driver calls them is external.
A byte of `ByteBits` bits and a word of `WordBytes` bytes stand for eight and eight.

## 3. Runs

| run | question | bounds |
|---|---|---|
| `sequential_parts`, names | do the maps answer as the abstract registry does? | up to 3 objects out of 19 names of up to 3 tokens, among them empty tokens at the start and at the end; 2 ids; any object refused by the factory. Three objects are what it takes for a third claimant of a name; two ids for shared and distinct ones |
| `sequential_parts`, fields | do the flag and the sets stand for one set? | 5 fields: two oneofs of two and one field alone; all subsets as arguments |
| `sequential_parts`, handles | has each object one owner, and does all go? | 5 places: a container in a container beside another, with one place free for reuse |
| `sequential_parts`, values | is a value accepted iff it fits, and read back as it was set? | bytes of 3 bits, words of 2 bytes, widths from 0 to 8 bits: below, at and beyond a byte and a word, multiples of a byte and others; every word and every array of bytes, too short and too long ones too |
| `empty_active_fields` | does an empty set of active fields mean all of them? (violated) | as the fields above |
| `refused_handles` | may the caller free what a failed setValue took? (violated) | as the handles above |
| `sessions` | do handles lead to their sessions? | 3 threads, 3 sessions, 2 addresses: an address has to be reused, while two threads act on one session and a third on another |
| `thread_pool` | order, once each, no task left, destructor | 2 workers, 3 tasks, destructor at any time |
| `thread_pool_single` | does a pool of one worker run what is submitted? (violated) | 1 worker, 1 task |
| `thread_pool_shutdown` | does the destructor return? (violated) | 2 workers, 1 task |
| `schema` | do oneofs, names, ids and lists of parsed tables fit together? | 3 elements in up to 2 tables or learns, in up to 2 files, any of them missing; 3 ids, 2 names, fields alone, oneofs that overlap, repeat an id, have one field or none. Three elements are an action, its field and a common field it hides; two tables, one replaced by the other |
| `devices` | is there one manager, do handles lead to their devices, do lists fit, does every call get the manager? | 2 threads, one of them the driver; 2 devices, 2 addresses, so that one is reused; 1 program, which has a `TdiInfo`, a null one or none. Two threads are what a race for the first call takes |
| `manager_unready` | is every manager a call gets constructed? (violated) | as `devices` |
| `table_walk` | does the walk over a table's schema ask only for what is there, and do its dictionaries agree with the lookups by name? | 2 ids and the id 0 of a missing one, 2 names, so that fields and actions share names and an action's fields hide common ones; up to 2 actions, 2 fields each; 2 features, one known to the layer |
| `py_table` | are handles used, freed and given back as they should, and does a dump show the table and never go back? | 4 entries, pages of 2 (for 20), so that a dump needs three pages; 8 handles, enough for what a call has at a time; tables with all commands, without paging, with none |

`MCSequential` puts the four parts that one thread uses at a time into one specification:
`NameMaps`, `TableData`, `DataHandles` and `FieldValues` share no variable and no step of one
depends on another, so a behaviour (`part`) is about one of them and the others stay in an
initial state. Each is checked over all its own behaviours, and none is slowed down by
interleavings that mean nothing. The four `MC` modules it extends have their parameters.

`CHECK_DEADLOCK FALSE` stands where the system may stop: the constructor is done, the
parse or the walk has returned, all sessions of the bound have been used up, the pool is
gone, both threads of `devices` are in `undefined`, a field has no number.

The violated runs show where the code and its documentation disagree; `findings`
in `PROJECT.json` quotes both. In short: after a failed container `setValue` the handles
must not be deallocated, though the header says they can be; an empty set of active fields
may stand for none, though the header says that it stands for all; a pool of one worker may
leave a task in its queue, though it is to be picked up as soon as it is there; the thread
pool's destructor may wait forever; and the first calls of `getInstance` may return a manager
whose constructor has not run yet, as far as the calling thread can see.

Some properties say less than a reader may wish, since the code does no more.
`OnlyTheseLeak` does not promise that the calls of `PyTable` give everything back, since they
do not: once a call has what it needs, it says for each function and way out which objects
are lost (`Leaks`) and that all others are freed. `del_entry` by handle loses its key if the
lookup of the entry is refused, `get_entry` and `get_default_entry` lose all they have made if
the entry's action is unknown, `get_entry_handle` its key when it succeeds, `get_entry_key`
its target when it is refused, and asking for the usage its flags. Exits before that, on an
allocation or a value that fails, lose what the exit happens to leave, and a dump always loses
its flags. No text of the repository promises more, so these are no findings. `DumpIsWhole` excuses a dump when the entry it goes on from is deleted
meanwhile, because the shell takes "not found" for the end. `PointersStand` and `ListFits`
end where a device is removed under a handle, or a list changed between its two calls.
`MirrorAgrees` leaves out actions whose fields share a name or an id with common fields,
where the Python layer keeps the highest id and the C frontend the action's own; the common
fields of a table with actions are not compared either. `GetInstanceReturns` is about the mutex
alone: what is returned is the matter of `OneManager` and `ManagerConstructed`.

## 4. Fairness

The modules of names, active fields, schemas, sessions, data handles and field values
state safety only and assume none. `ThreadPool!Fairness` is weak fairness of each worker's own steps, of
`NotifyOne`, `NotifyAll`, `StoreArrives` and `Join`: threads that can run are
scheduled, tasks end, stores reach other cores. Nothing is assumed of
`WakeSpuriously`, of the application (it need not submit or destroy anything), nor
of the order in which a mutex is granted.

`Devices!Fairness` is weak fairness of a thread's steps in `getInstance`: it is scheduled
while it can go on, and a mutex that stays free is got. That is enough, since each
thread takes the mutex once at most before the pointer is seen. Nothing is assumed of the
driver or of what follows. `PyTable` has weak fairness of the call's own steps: the C
frontend and the driver return from every call. Other sessions may add and delete entries
for ever; `CallEnds` shows that a dump ends nonetheless, because it goes on from a later entry
after each page (`CallAdvances`, which is proved).

## 5. Proofs

The assumptions on constants are: `Null` is no value (`NullAssumption`, `ArrayAssumption`,
`EntryAssumption`, `ObjectAssumption`); `NameAssumption`, `OneofAssumption`,
`ElementAssumption`, `BoundAssumption`, `PoolAssumption` and `FeatureAssumption`, the types
of the parameters (`EntryAssumption` of `TableC` says also that keys and addresses are
finite sets of numbers); `PageAssumption` (a page has two entries or more); `CallsAssumption` (one thread adds and removes devices);
`FiniteAssumption` (what is counted is finite); `SchemaAssumption` (tables are as the parser
makes them); `SizeAssumption` (a byte has a bit, a word a byte); `HandleAssumption`
(addresses do not run out under one dump, which holds a page of keys and data and the key
it goes on from); `IdAssumption` (of `TableInfo`: a set of ids has a largest one, as in a
type of 32 bits; of `TableData`: `NoId` is one of the ids).
Nothing else bounds their size.

| module | theorems | argument |
|---|---|---|
| `NameMaps_proofs` | types; a name resolves iff one object claims it; the owner of an id; refinement of `NameResolution` | The loops need their progress in the invariant: `LoopInv` (what each phase has not touched yet, and that the order of keys separates done from to do), `IdInv` (each id at the first object seen with it), `ClaimInv` (every claimed name has a claimant, `namesToRemove` are those with two) |
| `DataObjects_proofs` | of `TableData`: types; oneofs are exclusive; refinement of `ActiveFields`. Of `DataHandles`: types; one owner; nothing leaks. Of `FieldValues`: types; a value is accepted iff it fits; it is read back as it was set | `WrittenMarks`: the siblings of a written field are marked removed, because the set alone forgets it when all fields were active. The three invariants of the handles are inductive together; lemmas on `Below` (least closed set, distributes over roots, keeps to live objects). `Kept`: the bytes a driver keeps have the number that was accepted. The rest is arithmetic in the base of a byte, for any width: `BytesFit` (the first byte's bits decide whether an array fits, from `FirstByte`), `NetworkOrder` (the digits a word is cut into have its number, from `DivideTwice`) and `HostOrder` (bytes of 0 in front do not count) |
| `CSession_proofs` | types; handles lead to their sessions; distinct addresses; nothing left behind; a learn call finds its session | `Placed` (held sessions have an address), `Entries` (usable sessions and those being created or destroyed have their entry), `Inserting` (a session not filed yet has no entry), `Exclusive` (one thread destroys a session, none works on it), `Learning` |
| `ThreadPool_proofs` | types; a pool of two or more workers strands no task; refinement of `TaskPool` | `Mutex`: at most one worker is between its look and its sleep. So when `notify_one` finds nobody asleep, at most one worker can miss the task, and any other will look again |
| `SchemaParser_proofs` | types; oneofs of tables without errors; names, ids and lists agree; the first declaration of an id stands among keys, fields, actions, notifications, their parameters and learns' fields | `TypeInv` adds to the types that maps are keyed by their elements' ids and that a table being parsed has a name to file it under. `OneofInv` says of the table being parsed what `OneofsPartition` says of stored ones; `PartitionKept` is its step: an element that repeats nothing joins as a group of its own. The lookups follow from the types by `ByNameFact`. That first declarations stand has three parts with one lemma each (`TableKept`, `FieldsKept`, `ParamsKept`), since each of the lists is read in its own steps |
| `Devices_proofs` | types; one manager, built for those that find it under the mutex; pointers stand; lists fit | three layers. `ManagerInv`: who is past the lock holds the mutex (`Exclusive`), only the thread in `new` may have made the pointer (`Making`), and a manager that is seen but not built has its maker in `new` (`Unfinished`). `MapInv`: an entry leads to the device it is filed for (`Filed`), a thread between test and change of the map has it to itself (`Driving`, from `CallsAssumption`), and a handle or pointer that is not marked lost leads where the map does (`Reaching`). The lists then need only that an array is marked whenever what it lists changes |
| `TableWalk_proofs` | types; the walk is safe; the dictionaries agree with the lookups | `Walked`: what is left in the array in hand has been listed under the action it will be asked for by; `ListFact` says that an array of the announced size holds the list, `DataListFact` that what is listed is found. `MirrorInv`: of the elements entered so far a dictionary knows the last of each name, and all that are to come have higher ids, so that at the end it knows the highest, as the maps by name do |
| `PyTable_proofs` | types; nothing freed is used; a call loses what its way out forgets and no more; a dump shows what stood; a call only comes nearer to its end | one conjunct for each thing a call knows at each of its places. `OwnInv`: until it ends, a call has exactly the live handles, each under its kind; `TodoInv` and `KeyInv`: what it has yet to make, and the handles it cannot do without once that step is past. `MadeInv` and `LedgerInv` stand on these: what a call has made is what its plan says but for what is still to do, and nothing is lost before its end, so that each exit's losses are the plan less what it frees. `PageInv`: a page is pairs of a key and data, distinct and alive, and the key the dump goes on from is alive beside them or is the first of them. `OrderInv` and `WholeInv`: what is printed is in order, and of the entries that stood none up to the key in hand is passed over (`Passed`), unless the entry at the end of a page was deleted (`cut`). `Turns` is the step that turns a page, from what the C function may answer (`Named`); `Places`, `Firsts`, `Spares` and `Filling` are about the handles it is given to fill. `CallsAdvance` needs of them that the key in hand is not filled anew, and of `ShowPage` that the last key of a full page is not the one the page went on from |

The library's induction takes a predicate as a parameter, which the provers cannot
instantiate. `DataObjects_proofs` has it for sets instead: `Induction` says that a set with 0
and every successor has all numbers, from the well-foundedness of `<`, and `Recursion` that a
function given by its first value and a function of steps exists. The powers of 2 (`pow2`) and
`Number` are therefore recursive functions, not `^`, of which the provers know nothing.

Model-checked only: liveness, of `ThreadPool`, `Devices` and `PyTable`, which is out of the
prover's reach; and the five runs that expect a violation. Every invariant the passing runs
check is proved, and so is every action property. `CSession!TypeOK` and
`CSession!AddressesDistinct` are proved but not checked by a run, where `HandleIsSession` and
`NoEntryLeftBehind` say more.

## 6. Not modelled

* The base classes of learns, attributes and notifications, which answer
  `TDI_NOT_SUPPORTED`, and the C functions that only pass on to them; the
  architectures, which add enumerators; printing, ctypes declarations and completion of
  the Python shell; the cJSON wrapper.
* `tdi_info_c.cpp`, which passes on what `NameMaps`' lookups answer; of
  `tdi_table_info_c.cpp` the functions on the table as such (name, type, annotations, constant
  default action, tables it depends on), on oneof siblings and on fields within containers; of
  `tdi_table_c.cpp` those on attributes and notifications.
* Warm init of the device manager, whose functions hand over to an implementation that
  a target has to provide.
* Attributes, notifications and callbacks of `tdiTable.py`. The operations' setters it
  calls are not functions of the C frontend, so no callback is ever registered
  (`NoSetter`).
* The meaning of flags and targets to a driver; typed values of signed, boolean, string
  and floating types, whose setters and getters are a driver's.
* Target drivers, which are not in the repository.
* A data handle repeated in one array, and use of a handle after its destroy:
  preconditions of the models.

## 7. What is left

* **Registry**: SchemaParser and NameMaps composed: what was parsed is what names resolve
  to. The step between them is a copy of the map; the hard part of each is checked apart.
* **Callbacks**: attributes and notifications of the Python layer, once the C frontend has
  the functions they need.
