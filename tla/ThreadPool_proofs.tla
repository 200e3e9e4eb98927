-------------------------- MODULE ThreadPool_proofs --------------------------
(* Proofs about ThreadPool. *)
EXTENDS ThreadPool, SequenceTheorems, TLAPS

USE PoolAssumption

\* mtx_: one worker at a time is between its look at the queue and its sleep.
Mutex ==
  \A v, w \in Worker :
    pc[v] \in {"check", "window"} /\ pc[w] \in {"check", "window"} => v = w

Inv == TypeOK /\ Mutex /\ NotStranded

\* A step that takes one worker from one place to another keeps mtx_ exclusive
\* if it leads to the guarded stretch only from there or when that is free.
LEMMA GotoKeepsMutex ==
  ASSUME pc \in [Worker -> PC], Mutex,
         NEW w \in Worker, NEW from \in PC, NEW to \in PC, Goto(w, from, to),
         to \in {"check", "window"} => from \in {"check", "window"} \/ MutexFree
  PROVE  Mutex'
BY DEF Mutex, Goto, MutexFree

\* The first task of a queue, and what is left of it.
LEMMA QueueParts ==
  ASSUME TypeOK, queue # <<>>
  PROVE  Head(queue) \in Task /\ Tail(queue) \in Seq(Task)
BY HeadTailProperties DEF TypeOK

\* The strengthened invariant holds initially.
LEMMA InitInv == Init => Inv
<1>. SUFFICES ASSUME Init PROVE Inv
  OBVIOUS
<1>1. TypeOK
  BY EmptySeq DEF Init, TypeOK, PC
<1>2. Mutex /\ NotStranded
  BY DEF Init, Mutex, NotStranded
<1>. QED BY <1>1, <1>2 DEF Inv

\* Every step keeps the types.
LEMMA StepTypeOK == Inv /\ [Next]_vars => TypeOK'
<1>. SUFFICES ASSUME Inv, [Next]_vars PROVE TypeOK'
  OBVIOUS
<1>0. TypeOK
  BY DEF Inv
<1>. USE DEF TypeOK, PC, Goto
<1>1. ASSUME NEW w \in Worker, Loop(w) PROVE TypeOK'
  BY <1>0, <1>1 DEF Loop
<1>2. ASSUME NEW w \in Worker, Lock(w) PROVE TypeOK'
  BY <1>0, <1>2 DEF Lock
<1>3. ASSUME NEW w \in Worker, Check(w) PROVE TypeOK'
  BY <1>0, <1>3 DEF Check
<1>4. ASSUME NEW w \in Worker, Wait(w) PROVE TypeOK'
  BY <1>0, <1>4 DEF Wait
<1>5. ASSUME NEW w \in Worker, WakeSpuriously(w) PROVE TypeOK'
  BY <1>0, <1>5 DEF WakeSpuriously
<1>6. ASSUME NEW w \in Worker, ReturnFromWait(w) PROVE TypeOK'
  BY <1>0, <1>6 DEF ReturnFromWait
<1>7. ASSUME NEW w \in Worker, Dequeue(w) PROVE TypeOK'
  <2>1. CASE queue = <<>>
    BY <1>0, <1>7, <2>1 DEF Dequeue
  <2>2. CASE queue # <<>>
    <3>1. Head(queue) \in Task /\ queue' \in Seq(Task)
      BY <1>0, <1>7, <2>2, QueueParts DEF Dequeue
    <3>2. /\ pc' = [pc EXCEPT ![w] = "run"] /\ fn' = [fn EXCEPT ![w] = Head(queue)]
          /\ UNCHANGED <<submit, finished, owner, shutdown>>
          /\ pc[w] = "dequeue"
      BY <1>7, <2>2 DEF Dequeue
    <3>. QED BY <1>0, <3>1, <3>2
  <2>. QED BY <2>1, <2>2
<1>8. ASSUME NEW w \in Worker, Run(w) PROVE TypeOK'
  BY <1>0, <1>8 DEF Run
<1>9. ASSUME NEW t \in Task, Enqueue(t) PROVE TypeOK'
  BY <1>0, <1>9, AppendProperties DEF Enqueue
<1>10. ASSUME NEW t \in Task, NotifyOne(t) PROVE TypeOK'
  BY <1>0, <1>10 DEF NotifyOne
<1>11. CASE BeginShutdown
  BY <1>0, <1>11 DEF BeginShutdown
<1>12. CASE StoreArrives
  BY <1>0, <1>12 DEF StoreArrives
<1>13. CASE NotifyAll
  BY <1>0, <1>13 DEF NotifyAll
<1>14. CASE Join
  BY <1>0, <1>14, EmptySeq DEF Join
<1>15. CASE UNCHANGED vars
  BY <1>0, <1>15 DEF vars
<1>. QED
  BY <1>1, <1>2, <1>3, <1>4, <1>5, <1>6, <1>7, <1>8, <1>9, <1>10,
     <1>11, <1>12, <1>13, <1>14, <1>15 DEF Next, WorkerStep

\* Every step keeps mtx_ exclusive.
LEMMA StepMutex == Inv /\ [Next]_vars => Mutex'
<1>. SUFFICES ASSUME Inv, [Next]_vars PROVE Mutex'
  OBVIOUS
<1>0. pc \in [Worker -> PC] /\ Mutex
  BY DEF Inv, TypeOK
<1>1. ASSUME NEW w \in Worker, WorkerStep(w) PROVE Mutex'
  BY <1>0, <1>1, GotoKeepsMutex
     DEF WorkerStep, Loop, Lock, Check, Wait, ReturnFromWait, Dequeue, Run, PC
<1>2. ASSUME NEW w \in Worker, WakeSpuriously(w) PROVE Mutex'
  BY <1>0, <1>2, GotoKeepsMutex DEF WakeSpuriously, PC
<1>3. ASSUME NEW t \in Task, NotifyOne(t) PROVE Mutex'
  BY <1>0, <1>3 DEF NotifyOne, Goto, Mutex
<1>4. CASE NotifyAll
  BY <1>0, <1>4 DEF NotifyAll, Mutex
<1>5. CASE UNCHANGED pc
  BY <1>0, <1>5 DEF Mutex
<1>. QED
  BY <1>1, <1>2, <1>3, <1>4, <1>5
     DEF Next, Enqueue, BeginShutdown, StoreArrives, Join, vars

\* Every step keeps a worker awake for the tasks in the queue.
LEMMA StepNotStranded == Inv /\ [Next]_vars => NotStranded'
<1>. SUFFICES ASSUME Inv, [Next]_vars,
                     \E v, w \in Worker : v # w,
                     (queue # <<>>)', (owner = "using")',
                     (\A t \in Task : submit[t] # "notify")'
              PROVE  \E w \in Worker : pc'[w] \notin {"window", "waiting"}
  BY DEF NotStranded
<1>0. pc \in [Worker -> PC] /\ submit \in [Task -> {"new", "notify", "done"}] /\ Mutex
  BY DEF Inv, TypeOK
<1>. DEFINE AwakeNow == \E w \in Worker : pc[w] \notin {"window", "waiting"}
<1>1. queue # <<>> /\ owner = "using" /\ (\A t \in Task : submit[t] # "notify") => AwakeNow
  BY DEF Inv, NotStranded
<1>2. ASSUME NEW w \in Worker, Loop(w) \/ Lock(w) \/ ReturnFromWait(w) \/ WakeSpuriously(w)
                                       \/ Dequeue(w) \/ Run(w)
      PROVE  pc'[w] \notin {"window", "waiting"}
  BY <1>0, <1>2 DEF Loop, Lock, ReturnFromWait, WakeSpuriously, Dequeue, Run, Goto
<1>3. ASSUME NEW w \in Worker, Check(w)
      PROVE  pc'[w] \notin {"window", "waiting"}
  BY <1>0, <1>3 DEF Check, Goto
<1>4. ASSUME NEW w \in Worker, Wait(w)
      PROVE  \E v \in Worker : pc'[v] \notin {"window", "waiting"}
  <2>1. PICK v \in Worker : pc[v] \notin {"window", "waiting"}
    BY <1>1, <1>4 DEF Wait
  <2>. QED BY <1>0, <1>4, <2>1 DEF Wait, Goto
<1>5. ASSUME NEW t \in Task, Enqueue(t) PROVE FALSE
  BY <1>0, <1>5 DEF Enqueue
<1>6. ASSUME NEW t \in Task, NotifyOne(t)
      PROVE  \E v \in Worker : pc'[v] \notin {"window", "waiting"}
  <2>1. CASE \E w \in Worker : pc[w] = "waiting"
    <3>1. PICK w \in Worker : Goto(w, "waiting", "woken")
      BY <1>6, <2>1 DEF NotifyOne
    <3>. QED BY <1>0, <3>1 DEF Goto
  <2>2. CASE ~\E w \in Worker : pc[w] = "waiting"
    <3>1. pc' = pc
      BY <1>6, <2>2 DEF NotifyOne
    <3>2. \E w \in Worker : pc[w] # "window"
      BY <1>0 DEF Mutex
    <3>. QED BY <2>2, <3>1, <3>2
  <2>. QED BY <2>1, <2>2
<1>7. ASSUME BeginShutdown \/ StoreArrives \/ NotifyAll \/ Join PROVE FALSE
  BY <1>7 DEF BeginShutdown, StoreArrives, NotifyAll, Join
<1>8. ASSUME UNCHANGED vars
      PROVE  \E v \in Worker : pc'[v] \notin {"window", "waiting"}
  BY <1>1, <1>8 DEF vars
<1>. QED
  BY <1>2, <1>3, <1>4, <1>5, <1>6, <1>7, <1>8 DEF Next, WorkerStep

\* The strengthened invariant holds in every state of every behaviour.
THEOREM Inductive == Spec => []Inv
<1>1. Inv /\ [Next]_vars => Inv'
  BY StepTypeOK, StepMutex, StepNotStranded DEF Inv
<1>. QED BY InitInv, <1>1, PTL DEF Spec

\* The types, for any number of workers and tasks.
THEOREM TypeCorrect == Spec => []TypeOK
<1>1. Inv => TypeOK
  BY DEF Inv
<1>. QED BY Inductive, <1>1, PTL

\* Any pool of two or more workers keeps one awake for the tasks in its queue.
THEOREM NeverStranded == Spec => []NotStranded
<1>1. Inv => NotStranded
  BY DEF Inv
<1>. QED BY Inductive, <1>1, PTL

-----------------------------------------------------------------------------

\* The workers that may start one more task after the shutdown.
Grace == IF shutdown THEN {w \in Worker : pc[w] \notin {"loop", "run", "exit"}} ELSE {}

\* A step that leaves every worker on its side changes nothing about them.
LEMMA GraceStays ==
  ASSUME shutdown' = shutdown,
         \A w \in Worker :
           pc'[w] \in {"loop", "run", "exit"} <=> pc[w] \in {"loop", "run", "exit"}
  PROVE  Grace' = Grace
BY DEF Grace

\* Before and after a step of the pool, that step or nothing happens to the
\* abstract pool.
LEMMA StepRefines == Inv /\ Inv' /\ [Next]_vars => [Pool!Next]_(Pool!vars)
<1>. SUFFICES ASSUME Inv, Inv', [Next]_vars PROVE [Pool!Next]_(Pool!vars)
  OBVIOUS
<1>0. TypeOK /\ TypeOK'
  BY DEF Inv
<1>. DEFINE submitted == {t \in Task : submit[t] # "new"}
            Stutter == /\ queue' = queue /\ fn' = fn /\ submitted' = submitted
                       /\ finished' = finished /\ shutdown' = shutdown
<1>1. Stutter /\ Grace' = Grace => UNCHANGED Pool!vars
  BY DEF Pool!vars, Grace
<1>2. ASSUME NEW w \in Worker, Stutter, Grace' = Grace \ {w}
      PROVE  [Pool!Next]_(Pool!vars)
  <2>1. CASE w \in Grace
    BY <1>2, <2>1 DEF Pool!Next, Pool!Retire, Grace
  <2>2. CASE w \notin Grace
    BY <1>1, <1>2, <2>2
  <2>. QED BY <2>1, <2>2
<1>3. ASSUME NEW w \in Worker,
             Loop(w) \/ Lock(w) \/ Check(w) \/ Wait(w) \/ WakeSpuriously(w)
                     \/ ReturnFromWait(w)
      PROVE  Stutter /\ Grace' = Grace
  <2>1. Stutter
    BY <1>3 DEF Loop, Lock, Check, Wait, WakeSpuriously, ReturnFromWait
  <2>2. CASE Loop(w)
    <3>1. CASE shutdown
      <4>1. pc[w] = "loop" /\ pc' = [pc EXCEPT ![w] = "exit"]
        BY <2>2, <3>1 DEF Loop, Goto
      <4>. QED BY <1>0, <2>1, <4>1, GraceStays DEF TypeOK
    <3>2. CASE ~shutdown
      BY <2>1, <3>2 DEF Grace
    <3>. QED BY <3>1, <3>2
  <2>3. CASE Lock(w)
    BY <1>0, <2>1, <2>3, GraceStays DEF Lock, Goto, TypeOK
  <2>4. CASE Check(w)
    BY <1>0, <2>1, <2>4, GraceStays DEF Check, Goto, TypeOK
  <2>5. CASE Wait(w) \/ WakeSpuriously(w)
    BY <1>0, <2>1, <2>5, GraceStays DEF Wait, WakeSpuriously, Goto, TypeOK
  <2>6. CASE ReturnFromWait(w)
    BY <1>0, <2>1, <2>6, GraceStays DEF ReturnFromWait, Goto, TypeOK
  <2>. QED BY <1>3, <2>1, <2>2, <2>3, <2>4, <2>5, <2>6
<1>4. ASSUME NEW w \in Worker, Dequeue(w), queue = <<>>
      PROVE  Stutter /\ Grace' = Grace \ {w}
  BY <1>0, <1>4 DEF Dequeue, Goto, Grace, TypeOK
<1>5. ASSUME NEW w \in Worker, Dequeue(w), queue # <<>> PROVE Pool!Start(w)
  <2>1. w \in Pool!Idle /\ (~shutdown \/ w \in Grace)
    BY <1>0, <1>5 DEF Dequeue, Goto, TypeOK, Pool!Idle, Grace
  <2>2. Grace' = Grace \ {w}
    BY <1>0, <1>5 DEF Dequeue, Goto, TypeOK, Grace
  <2>. QED BY <1>5, <2>1, <2>2 DEF Dequeue, Pool!Start, Grace
<1>6. ASSUME NEW w \in Worker, Run(w) PROVE Pool!Finish(w)
  <2>1. w \notin Pool!Idle
    BY <1>0, <1>6 DEF Run, Goto, TypeOK, Pool!Idle
  <2>2. Grace' = Grace
    BY <1>0, <1>6, GraceStays DEF Run, Goto, TypeOK
  <2>. QED BY <1>6, <2>1, <2>2 DEF Run, Pool!Finish, Grace
<1>7. ASSUME NEW t \in Task, Enqueue(t) PROVE Pool!Submit(t)
  <2>1. ~shutdown /\ t \notin submitted /\ submitted' = submitted \union {t}
    BY <1>0, <1>7 DEF Enqueue, TypeOK
  <2>2. Grace' = Grace
    BY <1>7 DEF Enqueue, Grace
  <2>. QED BY <1>7, <2>1, <2>2 DEF Enqueue, Pool!Submit, Grace
<1>8. ASSUME NEW t \in Task, NotifyOne(t) PROVE Stutter /\ Grace' = Grace
  <2>1. Stutter
    BY <1>0, <1>8 DEF NotifyOne, TypeOK
  <2>2. /\ shutdown' = shutdown
        /\ \/ pc' = pc
           \/ \E w \in Worker : pc[w] = "waiting" /\ pc' = [pc EXCEPT ![w] = "woken"]
    BY <1>8 DEF NotifyOne, Goto
  <2>3. Grace' = Grace
    BY <1>0, <2>2, GraceStays DEF TypeOK
  <2>. QED BY <2>1, <2>3
<1>9. ASSUME BeginShutdown \/ StoreArrives, shutdown' # shutdown PROVE Pool!Close
  <2>1. ~shutdown /\ shutdown' /\ Grace = {}
    BY <1>0, <1>9 DEF BeginShutdown, StoreArrives, TypeOK, Grace
  <2>2. Grace' \subseteq Pool!Idle
    BY <1>0, <1>9 DEF BeginShutdown, StoreArrives, TypeOK, Grace, Pool!Idle
  <2>. QED BY <1>9, <2>1, <2>2 DEF BeginShutdown, StoreArrives, Pool!Close, Grace
<1>10. ASSUME BeginShutdown \/ StoreArrives, shutdown' = shutdown
       PROVE  Stutter /\ Grace' = Grace
  BY <1>10 DEF BeginShutdown, StoreArrives, Grace
<1>11. CASE NotifyAll
  <2>1. Stutter /\ Grace' = Grace
    BY <1>0, <1>11 DEF NotifyAll, TypeOK, Grace
  <2>. QED BY <1>1, <2>1
<1>12. ASSUME Join PROVE Pool!Drop
  <2>1. shutdown /\ Grace = {} /\ Grace' = {}
    BY <1>0, <1>12 DEF Join, TypeOK, Grace, PoolAssumption
  <2>2. Pool!Idle = Worker
    BY <1>0, <1>12 DEF Join, TypeOK, Pool!Idle
  <2>. QED BY <1>12, <2>1, <2>2 DEF Join, Pool!Drop, Grace
<1>13. CASE UNCHANGED vars
  <2>1. Stutter /\ Grace' = Grace
    BY <1>13 DEF vars, Grace
  <2>. QED BY <1>1, <2>1
<1>. QED
  BY <1>1, <1>2, <1>3, <1>4, <1>5, <1>6, <1>7, <1>8, <1>9, <1>10, <1>11, <1>12, <1>13
     DEF Next, WorkerStep, Pool!Next

\* The pool implements the abstract one: first come, first served, each task
\* once, and one more per worker at most after the shutdown.
THEOREM Refinement == Spec => ImplementsTaskPool
<1>1. Init => Pool!Init
  BY DEF Init, Pool!Init
<1>2. Spec => [][Pool!Next]_(Pool!vars)
  BY Inductive, StepRefines, PTL DEF Spec
<1>. QED BY <1>1, <1>2, PTL DEF Spec, ImplementsTaskPool, Pool!Spec
=============================================================================
