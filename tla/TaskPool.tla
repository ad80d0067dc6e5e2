------------------------------ MODULE TaskPool ------------------------------
(***************************************************************************)
(* What the thread pool of app/imx6d.c promises its client, with no        *)
(* thread, lock, condition variable or pointer in sight: a FIFO of         *)
(* accepted tasks, workers that each run one task at a time, and a         *)
(* shutdown that refuses new tasks but still runs every accepted one.      *)
(* ThreadPool.tla implements this specification; Imx6d.tla is built on it. *)
(***************************************************************************)
EXTENDS Integers, Sequences

CONSTANTS Workers,   \* the worker threads
          Tasks,     \* what can be submitted
          None       \* "no task"

ASSUME TaskPoolAssumption == None \notin Tasks

VARIABLES queue,     \* tasks accepted and not yet started, oldest first
          running,   \* running[w]: the task worker w runs, or None
          phase      \* "open": accepts; "closing": refuses; "closed": gone

poolVars == <<queue, running, phase>>

Idle(w) == running[w] = None

\* Every accepted task has been run to its end.
Quiet == queue = <<>> /\ \A w \in Workers : Idle(w)

PoolInit == /\ queue = <<>>
            /\ running = [w \in Workers |-> None]
            /\ phase = "open"

\* thread_pool_submit returns 0.
Accept(t) == /\ phase = "open"
             /\ queue' = Append(queue, t)
             /\ UNCHANGED <<running, phase>>

\* A worker takes the oldest task, before or during the shutdown.
Start(w) == /\ phase # "closed"
            /\ Idle(w)
            /\ queue # <<>>
            /\ running' = [running EXCEPT ![w] = Head(queue)]
            /\ queue' = Tail(queue)
            /\ UNCHANGED phase

\* The task function returns and its node is freed.
Finish(w) == /\ ~Idle(w)
             /\ running' = [running EXCEPT ![w] = None]
             /\ UNCHANGED <<queue, phase>>

\* thread_pool_destroy (or a failed thread_pool_create) sets shutdown.
Close == /\ phase = "open"
         /\ phase' = "closing"
         /\ UNCHANGED <<queue, running>>

\* The pool's memory goes away: only when no accepted task is left.
Vanish == /\ phase # "closed"
          /\ Quiet
          /\ phase' = "closed"
          /\ UNCHANGED <<queue, running>>

PoolNext == \/ \E t \in Tasks : Accept(t)
            \/ \E w \in Workers : Start(w) \/ Finish(w)
            \/ Close
            \/ Vanish

PoolSpec == PoolInit /\ [][PoolNext]_poolVars
=============================================================================
