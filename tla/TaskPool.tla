------------------------------ MODULE TaskPool ------------------------------
(***************************************************************************)
(* What a user of TdiThreadPool may rely on for safety: tasks start in the *)
(* order they were submitted in, each of them once, while the pool is      *)
(* open.  Closing it does not stop the workers at once: those that have    *)
(* looked at the pool before may each still start one task.  What is then  *)
(* left is dropped.                                                        *)
(***************************************************************************)
EXTENDS Sequences

CONSTANTS Worker, Task, NoTask

VARIABLES
  submitted,        \* tasks handed over so far
  pending,          \* those not started, in order
  running,          \* worker -> the task it runs
  done,             \* tasks run to their end
  open,
  grace             \* of a closed pool: workers that may start one more task

vars == <<submitted, pending, running, done, open, grace>>

Idle == {w \in Worker : running[w] = NoTask}

Init ==
  /\ submitted = {}
  /\ pending = <<>>
  /\ running = [w \in Worker |-> NoTask]
  /\ done = {}
  /\ open = TRUE
  /\ grace = {}

Submit(t) ==
  /\ open
  /\ t \notin submitted
  /\ submitted' = submitted \union {t}
  /\ pending' = Append(pending, t)
  /\ UNCHANGED <<running, done, open, grace>>

Start(w) ==
  /\ w \in Idle
  /\ open \/ w \in grace
  /\ pending # <<>>
  /\ running' = [running EXCEPT ![w] = Head(pending)]
  /\ pending' = Tail(pending)
  /\ grace' = grace \ {w}
  /\ UNCHANGED <<submitted, done, open>>

Finish(w) ==
  /\ w \notin Idle
  /\ done' = done \union {running[w]}
  /\ running' = [running EXCEPT ![w] = NoTask]
  /\ UNCHANGED <<submitted, pending, open, grace>>

Close ==
  /\ open
  /\ open' = FALSE
  /\ grace' \in SUBSET Idle
  /\ UNCHANGED <<submitted, pending, running, done>>

Retire(w) ==
  /\ w \in grace
  /\ grace' = grace \ {w}
  /\ UNCHANGED <<submitted, pending, running, done, open>>

Drop ==
  /\ ~open
  /\ grace = {}
  /\ Idle = Worker
  /\ pending' = <<>>
  /\ UNCHANGED <<submitted, running, done, open, grace>>

Next ==
  \/ \E t \in Task : Submit(t)
  \/ \E w \in Worker : Start(w) \/ Finish(w) \/ Retire(w)
  \/ Close
  \/ Drop

Spec == Init /\ [][Next]_vars
=============================================================================
