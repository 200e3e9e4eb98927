----------------------------- MODULE ThreadPool -----------------------------
(***************************************************************************)
(* TdiThreadPool, which the core offers to target drivers.  Workers take   *)
(* tasks from a queue with a lock of its own, and sleep on cond_var_ when  *)
(* they find the queue empty.  They look while holding mtx_; submitTask    *)
(* and the destructor change what they look at without it, so that a       *)
(* notification may come when a worker has looked and does not sleep yet.  *)
(*                                                                         *)
(* Tasks are submitted by threads outside the pool and come to their end;  *)
(* the pool is not destroyed while submitTask runs.  shutdown_ is a plain  *)
(* bool that workers read while the destructor writes it: the new value    *)
(* may reach them late.                                                    *)
(***************************************************************************)
EXTENDS Naturals, Sequences, FiniteSets

CONSTANTS Worker, Task, NoTask

ASSUME PoolAssumption == Worker # {} /\ NoTask \notin Task

VARIABLES
  queue,            \* queue_
  pc,               \* worker -> where it is in WorkerThread::operator()
  fn,               \* worker -> the task it runs
  submit,           \* task -> how far submitTask has come
  finished,         \* tasks whose future has its result
  owner,            \* what the thread that owns the pool is doing
  shutdown          \* shutdown_, as the workers see it

vars == <<queue, pc, fn, submit, finished, owner, shutdown>>

PC == {"loop", "lock", "check", "window", "waiting", "woken", "dequeue", "run", "exit"}

MutexFree == \A w \in Worker : pc[w] \notin {"check", "window"}

Goto(w, from, to) == pc[w] = from /\ pc' = [pc EXCEPT ![w] = to]

-----------------------------------------------------------------------------

Init ==
  /\ queue = <<>>
  /\ pc = [w \in Worker |-> "loop"]
  /\ fn = [w \in Worker |-> NoTask]
  /\ submit = [t \in Task |-> "new"]
  /\ finished = {}
  /\ owner = "using"
  /\ shutdown = FALSE

\* The worker's loop.

\* Mutation: the loop has no end.
Loop_NoTest(w) ==
  /\ Goto(w, "loop", "lock")
  /\ UNCHANGED <<queue, fn, submit, finished, owner, shutdown>>

Loop(w) ==
  /\ Goto(w, "loop", IF shutdown THEN "exit" ELSE "lock")
  /\ UNCHANGED <<queue, fn, submit, finished, owner, shutdown>>

\* Mutation: the queue is looked at without mtx_.
Lock_NoMutex(w) ==
  /\ Goto(w, "lock", "check")
  /\ UNCHANGED <<queue, fn, submit, finished, owner, shutdown>>

Lock(w) ==
  /\ MutexFree
  /\ Goto(w, "lock", "check")
  /\ UNCHANGED <<queue, fn, submit, finished, owner, shutdown>>

Check(w) ==
  /\ Goto(w, "check", IF queue = <<>> THEN "window" ELSE "dequeue")
  /\ UNCHANGED <<queue, fn, submit, finished, owner, shutdown>>

Wait(w) ==
  /\ Goto(w, "window", "waiting")
  /\ UNCHANGED <<queue, fn, submit, finished, owner, shutdown>>

\* A condition variable may wake a thread for no reason.
WakeSpuriously(w) ==
  /\ Goto(w, "waiting", "woken")
  /\ UNCHANGED <<queue, fn, submit, finished, owner, shutdown>>

\* wait() has mtx_ again before it returns; the scope that ends gives it back.
ReturnFromWait(w) ==
  /\ MutexFree
  /\ Goto(w, "woken", "dequeue")
  /\ UNCHANGED <<queue, fn, submit, finished, owner, shutdown>>

\* Mutation: fn() is called whether or not there was something to dequeue.
Dequeue_RunsAnyway(w) ==
  /\ Goto(w, "dequeue", "run")
  /\ IF queue = <<>>
     THEN UNCHANGED <<queue, fn>>
     ELSE /\ fn' = [fn EXCEPT ![w] = Head(queue)]
          /\ queue' = Tail(queue)
  /\ UNCHANGED <<submit, finished, owner, shutdown>>

\* Mutation: the task is read from the queue and left in it.
Dequeue_NoPop(w) ==
  /\ Goto(w, "dequeue", IF queue = <<>> THEN "loop" ELSE "run")
  /\ fn' = IF queue = <<>> THEN fn ELSE [fn EXCEPT ![w] = Head(queue)]
  /\ UNCHANGED <<queue, submit, finished, owner, shutdown>>

Dequeue(w) ==
  /\ Goto(w, "dequeue", IF queue = <<>> THEN "loop" ELSE "run")
  /\ IF queue = <<>>
     THEN UNCHANGED <<queue, fn>>
     ELSE /\ fn' = [fn EXCEPT ![w] = Head(queue)]
          /\ queue' = Tail(queue)
  /\ UNCHANGED <<submit, finished, owner, shutdown>>

Run(w) ==
  /\ Goto(w, "run", "loop")
  /\ finished' = finished \union {fn[w]}
  /\ fn' = [fn EXCEPT ![w] = NoTask]
  /\ UNCHANGED <<queue, submit, owner, shutdown>>

\* submitTask.

Enqueue(t) ==
  /\ owner = "using"
  /\ submit[t] = "new"
  /\ submit' = [submit EXCEPT ![t] = "notify"]
  /\ queue' = Append(queue, t)
  /\ UNCHANGED <<pc, fn, finished, owner, shutdown>>

\* Mutation: submitTask does not notify.
NotifyOne_Never(t) ==
  /\ submit[t] = "notify"
  /\ submit' = [submit EXCEPT ![t] = "done"]
  /\ UNCHANGED <<queue, pc, fn, finished, owner, shutdown>>

NotifyOne(t) ==
  /\ submit[t] = "notify"
  /\ submit' = [submit EXCEPT ![t] = "done"]
  /\ IF \E w \in Worker : pc[w] = "waiting"
     THEN \E w \in Worker : Goto(w, "waiting", "woken")
     ELSE UNCHANGED pc
  /\ UNCHANGED <<queue, fn, finished, owner, shutdown>>

\* The destructor.

BeginShutdown ==
  /\ owner = "using"
  /\ \A t \in Task : submit[t] # "notify"
  /\ owner' = "notify"
  /\ shutdown' \in BOOLEAN
  /\ UNCHANGED <<queue, pc, fn, submit, finished>>

StoreArrives ==
  /\ owner # "using"
  /\ ~shutdown
  /\ shutdown' = TRUE
  /\ UNCHANGED <<queue, pc, fn, submit, finished, owner>>

NotifyAll ==
  /\ owner = "notify"
  /\ owner' = "join"
  /\ pc' = [w \in Worker |-> IF pc[w] = "waiting" THEN "woken" ELSE pc[w]]
  /\ UNCHANGED <<queue, fn, submit, finished, shutdown>>

\* The queue goes with the pool, and tasks that are still in it with the queue.
Join ==
  /\ owner = "join"
  /\ \A w \in Worker : pc[w] = "exit"
  /\ owner' = "gone"
  /\ queue' = <<>>
  /\ UNCHANGED <<pc, fn, submit, finished, shutdown>>

WorkerStep(w) ==
  \/ Loop(w) \/ Lock(w) \/ Check(w) \/ Wait(w)
  \/ ReturnFromWait(w) \/ Dequeue(w) \/ Run(w)

Next ==
  \/ \E w \in Worker : WorkerStep(w) \/ WakeSpuriously(w)
  \/ \E t \in Task : Enqueue(t) \/ NotifyOne(t)
  \/ BeginShutdown \/ StoreArrives \/ NotifyAll \/ Join

Spec == Init /\ [][Next]_vars

\* Threads that can run do run, tasks end and stores arrive.  Nothing makes
\* anybody submit a task or destroy the pool, and nothing wakes a sleeping
\* worker unasked; mtx_ promises no order among those who want it.
Fairness ==
  /\ \A w \in Worker : WF_vars(WorkerStep(w))
  /\ \A t \in Task : WF_vars(NotifyOne(t))
  /\ WF_vars(StoreArrives) /\ WF_vars(NotifyAll) /\ WF_vars(Join)

FairSpec == Spec /\ Fairness

-----------------------------------------------------------------------------

\* Every variable has its type, a worker has a task exactly while it runs
\* one, and no worker stops before the destructor has been entered.
TypeOK ==
  /\ queue \in Seq(Task)
  /\ pc \in [Worker -> PC]
  /\ fn \in [Worker -> Task \union {NoTask}]
  /\ submit \in [Task -> {"new", "notify", "done"}]
  /\ finished \subseteq Task
  /\ owner \in {"using", "notify", "join", "gone"}
  /\ shutdown \in BOOLEAN
  /\ \A w \in Worker : pc[w] = "run" <=> fn[w] # NoTask
  /\ \A w \in Worker : pc[w] = "exit" => shutdown
  /\ shutdown => owner # "using"

\* A pool of two workers or more never leaves tasks in the queue with every
\* worker asleep or about to sleep, once their submitTask has notified: though
\* notify_one may miss a worker that has just found the queue empty, mtx_ lets
\* one worker only be at that point, and another one is awake or is woken.
NotStranded ==
  /\ \E v, w \in Worker : v # w
  /\ queue # <<>>
  /\ owner = "using"
  /\ \A t \in Task : submit[t] # "notify"
  => \E w \in Worker : pc[w] \notin {"window", "waiting"}

\* Tasks are started in order, once each, and after the shutdown no worker
\* starts more than one.
Pool == INSTANCE TaskPool WITH
  submitted <- {t \in Task : submit[t] # "new"},
  pending <- queue,
  running <- fn,
  done <- finished,
  open <- ~shutdown,
  grace <- IF shutdown
           THEN {w \in Worker : pc[w] \notin {"loop", "run", "exit"}}
           ELSE {}

ImplementsTaskPool == Pool!Spec

\* In a pool of two workers or more a submitted task runs, unless the pool is
\* destroyed first, although the notification of submitTask may be lost.
SubmittedRuns ==
  \A t \in Task :
    (\E v, w \in Worker : v # w) /\ submit[t] = "done"
      ~> (t \in finished \/ owner # "using")

\* The workers are "waiting for any tasks to appear in the queue and pick them
\* up as soon as the tasks are enqueued".  A pool of one worker, which is the
\* constructor's default, does not: a worker that has found the queue empty
\* misses the notification if it comes before it sleeps, and the task stays in
\* the queue until another one is submitted, or for ever.
PickedUpWhenEnqueued ==
  \A t \in Task : submit[t] = "done" ~> (t \in finished \/ owner # "using")

\* "Wake up all threads so that break from their respective while loops and
\* return": the destructor comes to its end.
DestructorReturns == owner # "using" ~> owner = "gone"

\* It does if, once the workers see the flag and have been notified, each of
\* them is past the sleep or will look at the flag before it.
DestructorReturnsIfAwake ==
  /\ owner = "join"
  /\ shutdown
  /\ \A w \in Worker : pc[w] \in {"loop", "woken", "dequeue", "run", "exit"}
  ~> owner = "gone"

=============================================================================
