----------------------------- MODULE ThreadPool -----------------------------
(***************************************************************************)
(* The thread pool of app/imx6d.c (lines 240-318 and 509-581): a mutex, a  *)
(* condition variable, a singly linked queue of heap-allocated nodes, the  *)
(* worker loop, thread_pool_submit, thread_pool_create with its rollback   *)
(* when a pthread_create fails, and thread_pool_destroy.                   *)
(*                                                                         *)
(* One action is one stretch of code between two points where another      *)
(* thread can be seen: taking the mutex is a step of its own, and the two  *)
(* pointer updates of an enqueue (link, then tail) and of a dequeue (read  *)
(* head, then advance it) are separate steps inside the critical section.  *)
(* Releasing the mutex is merged with the last step of the section, and    *)
(* pthread_cond_wait releases it in the step that starts to wait.          *)
(*                                                                         *)
(* Nodes are addresses: malloc picks any that is not allocated, so a freed *)
(* address can come back while another thread still remembers it.  A       *)
(* failed malloc makes thread_pool_submit return -1 having changed         *)
(* nothing: a stuttering step.  The payload (type, fn, param) is left out: *)
(* running a task is the stretch a worker spends at "run".                 *)
(***************************************************************************)
EXTENDS Integers, Sequences, FiniteSets

CONSTANTS N,          \* max_thread_num
          Main,       \* the thread that creates and destroys the pool
          Nodes,      \* heap addresses a task_node_t can have
          None,       \* NULL, and "nobody" for the mutex
          Submitters  \* threads that call thread_pool_submit

Workers == 1 .. N
Threads == Workers \cup {Main}

ASSUME PoolAssumption ==
    /\ N \in Nat \ {0}          \* thread_pool_create refuses max_thread_num <= 0
    /\ Main \notin Workers
    /\ None \notin Nodes \cup Threads
    /\ IsFiniteSet(Nodes)
    /\ Submitters \subseteq Threads

VARIABLES
    pc,        \* where each thread is
    lock,      \* pool->lock: the thread that holds it, or None
    head,      \* pool->head
    tail,      \* pool->tail
    next,      \* node->next, for every address
    shutdown,  \* pool->shutdown
    heap,      \* the nodes malloc has handed out and free has not taken back
    mem,       \* the pool object itself: "none", "live" or "freed"
    task,      \* the worker's local `task`
    node,      \* the submitter's local `node`
    i          \* Main's loop variable in thread_pool_create and _destroy

vars == <<pc, lock, head, tail, next, shutdown, heap, mem, task, node, i>>
list == <<head, tail, next>>

WorkerPC == {"unborn", "lock", "check", "pop", "wait", "run", "exit"}
SubmitPC == {"s_lock", "s_check", "s_tail"}
MainPC   == {"alloc", "create", "c_lock", "c_stop", "c_join", "failed", "api",
             "d_lock", "d_stop", "d_join", "d_drain", "done"}

\* Where thread_pool_submit is called from: Main's loop, or a task function.
Home(t) == IF t = Main THEN "api" ELSE "run"

Waiting == {w \in Workers : pc[w] = "wait"}

\* The queue, read off the pointers: s lists the nodes from head along next.
Lists == UNION {[1 .. k -> Nodes] : k \in 0 .. Cardinality(Nodes)}
Chain(s) ==
    /\ head = IF s = <<>> THEN None ELSE s[1]
    /\ \A k \in DOMAIN s : next[s[k]] = IF k = Len(s) THEN None ELSE s[k + 1]
    /\ \A j, k \in DOMAIN s : s[j] = s[k] => j = k
Queue == CHOOSE s \in Lists : Chain(s)
Queued == {Queue[k] : k \in DOMAIN Queue}

Init ==
    /\ pc = [t \in Threads |-> IF t = Main THEN "alloc" ELSE "unborn"]
    /\ lock = None
    /\ head = None /\ tail = None
    /\ next = [n \in Nodes |-> None]
    /\ shutdown = FALSE
    /\ heap = {}
    /\ mem = "none"
    /\ task = [w \in Workers |-> None]
    /\ node = [t \in Threads |-> None]
    /\ i = 0

-----------------------------------------------------------------------------
\* pthread_mutex_lock: t goes on when nobody holds the mutex.  A worker woken
\* from pthread_cond_wait takes it here too, and re-tests the loop condition.
LockStep == [lock |-> "check", s_lock |-> "s_check",
             c_lock |-> "c_stop", d_lock |-> "d_stop"]

Acquire(t) ==
    /\ pc[t] \in DOMAIN LockStep
    /\ lock = None
    /\ lock' = t
    /\ pc' = [pc EXCEPT ![t] = LockStep[pc[t]]]
    /\ UNCHANGED <<list, shutdown, heap, mem, task, node, i>>

\* pthread_cond_wait may return without a signal.
SpuriousWakeup(w) ==
    /\ pc[w] = "wait"
    /\ pc' = [pc EXCEPT ![w] = "lock"]
    /\ UNCHANGED <<lock, list, shutdown, heap, mem, task, node, i>>

\* worker_thread, the test of its loop: sleep, leave, or read the head.
SleepAnyway == head = None     \* bug: sleeps through the shutdown
MustSleep == head = None /\ ~shutdown
ExitOnShutdown == shutdown   \* bug: leaves although tasks are queued
MustExit == shutdown /\ head = None

Check(w) ==
    /\ pc[w] = "check"
    /\ \/ /\ MustSleep
          /\ pc' = [pc EXCEPT ![w] = "wait"]
          /\ lock' = None
          /\ UNCHANGED task
       \/ /\ MustExit
          /\ pc' = [pc EXCEPT ![w] = "exit"]
          /\ lock' = None
          /\ UNCHANGED task
       \/ /\ ~MustSleep /\ ~MustExit
          /\ pc' = [pc EXCEPT ![w] = "pop"]
          /\ task' = [task EXCEPT ![w] = head]
          /\ UNCHANGED lock
    /\ UNCHANGED <<list, shutdown, heap, mem, node, i>>

TailKept(h) == tail   \* bug: an emptied queue keeps its tail
TailAfterPop(h) == IF h = None THEN None ELSE tail

\* pool->head = task->next; an emptied queue also resets the tail; unlock.
Pop(w) ==
    /\ pc[w] = "pop"
    /\ head' = next[task[w]]
    /\ tail' = TailAfterPop(head')
    /\ lock' = None
    /\ pc' = [pc EXCEPT ![w] = "run"]
    /\ UNCHANGED <<next, shutdown, heap, mem, task, node, i>>

NotFreed(n) == heap   \* bug: free forgotten
Freed(n) == heap \ {n}

\* task->fn(task->param) returns; free(task); back to the top of the loop.
Finish(w) ==
    /\ pc[w] = "run"
    /\ heap' = Freed(task[w])
    /\ task' = [task EXCEPT ![w] = None]
    /\ pc' = [pc EXCEPT ![w] = "lock"]
    /\ UNCHANGED <<lock, list, shutdown, mem, node, i>>

-----------------------------------------------------------------------------
\* thread_pool_submit: malloc and fill the node, outside the mutex.
SubmitAlloc(t) ==
    /\ t \in Submitters
    /\ pc[t] = Home(t)
    /\ \E n \in Nodes \ heap :
          /\ heap' = heap \cup {n}
          /\ node' = [node EXCEPT ![t] = n]
          /\ next' = [next EXCEPT ![n] = None]
    /\ pc' = [pc EXCEPT ![t] = "s_lock"]
    /\ UNCHANGED <<lock, head, tail, shutdown, mem, task, i>>

AcceptAlways == TRUE   \* bug: no test of pool->shutdown
Accepting == ~shutdown

\* Under the mutex: refuse and free after shutdown, else link the node.
SubmitRefuse(t) ==
    /\ pc[t] = "s_check"
    /\ ~Accepting
    /\ heap' = Freed(node[t])
    /\ node' = [node EXCEPT ![t] = None]
    /\ lock' = None
    /\ pc' = [pc EXCEPT ![t] = Home(t)]
    /\ UNCHANGED <<list, shutdown, mem, task, i>>

SubmitLink(t) ==
    /\ pc[t] = "s_check"
    /\ Accepting
    /\ \/ /\ tail # None
          /\ next' = [next EXCEPT ![tail] = node[t]]
          /\ UNCHANGED head
       \/ /\ tail = None
          /\ head' = node[t]
          /\ UNCHANGED next
    /\ pc' = [pc EXCEPT ![t] = "s_tail"]
    /\ UNCHANGED <<lock, tail, shutdown, heap, mem, task, node, i>>

SignalLost == {{}}   \* bug: no pthread_cond_signal
\* bug: signals only for the first task of an empty queue
SignalOnlyWhenEmpty ==
    IF Waiting = {} \/ tail # None THEN {{}} ELSE {{w} : w \in Waiting}

\* pthread_cond_signal wakes one waiter, if there is one.
Signalled == IF Waiting = {} THEN {{}} ELSE {{w} : w \in Waiting}

\* t moves on to `where` and the sleepers in S wake up.
Moves(t, where, S) ==
    pc' = [u \in Threads |-> IF u = t THEN where
                             ELSE IF u \in S THEN "lock" ELSE pc[u]]

\* pool->tail = node; signal; unlock; return 0.
SubmitSignal(t) ==
    /\ pc[t] = "s_tail"
    /\ tail' = node[t]
    /\ node' = [node EXCEPT ![t] = None]
    /\ lock' = None
    /\ \E S \in Signalled : Moves(t, Home(t), S)
    /\ UNCHANGED <<head, next, shutdown, heap, mem, task, i>>

-----------------------------------------------------------------------------
\* thread_pool_create: the two callocs, which may fail ...
Alloc ==
    /\ pc[Main] = "alloc"
    /\ \/ /\ mem' = "live"
          /\ pc' = [pc EXCEPT ![Main] = "create"]
       \/ /\ pc' = [pc EXCEPT ![Main] = "failed"]
          /\ UNCHANGED mem
    /\ UNCHANGED <<lock, list, shutdown, heap, task, node, i>>

MoreToCreate == i < N

\* ... then one pthread_create per worker.
CreateThread ==
    /\ pc[Main] = "create"
    /\ MoreToCreate
    /\ pc' = [pc EXCEPT ![i + 1] = "lock"]
    /\ i' = i + 1
    /\ UNCHANGED <<lock, list, shutdown, heap, mem, task, node>>

CreateDone ==
    /\ pc[Main] = "create"
    /\ i = N
    /\ pc' = [pc EXCEPT ![Main] = "api"]
    /\ UNCHANGED <<lock, list, shutdown, heap, mem, task, node, i>>

\* pthread_create fails: shut the workers created so far down again.
CreateFails ==
    /\ pc[Main] = "create"
    /\ MoreToCreate
    /\ pc' = [pc EXCEPT ![Main] = "c_lock"]
    /\ UNCHANGED <<lock, list, shutdown, heap, mem, task, node, i>>

Detached(w) == pc[w] # "unborn"   \* bug: does not wait for the thread
Joinable(w) == pc[w] = "exit"

\* while (i > 0) { i--; pthread_join(threads[i]); } then free the pool.
RollbackJoin ==
    /\ pc[Main] = "c_join"
    /\ i > 0
    /\ Joinable(i)
    /\ i' = i - 1
    /\ UNCHANGED <<pc, lock, list, shutdown, heap, mem, task, node>>

RollbackFree ==
    /\ pc[Main] = "c_join"
    /\ i = 0
    /\ mem' = "freed"
    /\ pc' = [pc EXCEPT ![Main] = "failed"]
    /\ UNCHANGED <<lock, list, shutdown, heap, task, node, i>>

-----------------------------------------------------------------------------
\* thread_pool_destroy is called, at any time Main is not in the pool's code.
Destroy ==
    /\ pc[Main] = "api"
    /\ pc' = [pc EXCEPT ![Main] = "d_lock"]
    /\ UNCHANGED <<lock, list, shutdown, heap, mem, task, node, i>>

WakeOne ==         \* bug: pthread_cond_signal instead of _broadcast
    {w \in Waiting : \A v \in Waiting : w <= v}
Broadcast == Waiting

\* Under the mutex, on both paths: set shutdown, wake everybody, unlock.
\* thread_pool_destroy joins upwards from i = 0.
Shutdown ==
    /\ pc[Main] \in {"c_stop", "d_stop"}
    /\ shutdown' = TRUE
    /\ lock' = None
    /\ \/ /\ pc[Main] = "c_stop"
          /\ Moves(Main, "c_join", Broadcast)
          /\ UNCHANGED i
       \/ /\ pc[Main] = "d_stop"
          /\ Moves(Main, "d_join", Broadcast)
          /\ i' = 0
    /\ UNCHANGED <<list, heap, mem, task, node>>

Join ==
    /\ pc[Main] = "d_join"
    /\ \/ /\ i < N
          /\ Joinable(i + 1)
          /\ i' = i + 1
          /\ UNCHANGED pc
       \/ /\ i = N
          /\ pc' = [pc EXCEPT ![Main] = "d_drain"]
          /\ UNCHANGED i
    /\ UNCHANGED <<lock, list, shutdown, heap, mem, task, node>>

\* Free whatever is still queued, then the pool.
DestroyFree ==
    /\ pc[Main] = "d_drain"
    /\ heap' = heap \ Queued
    /\ mem' = "freed"
    /\ pc' = [pc EXCEPT ![Main] = "done"]
    /\ UNCHANGED <<lock, list, shutdown, task, node, i>>

-----------------------------------------------------------------------------
WorkerStep(w) == Check(w) \/ Pop(w)
SubmitStep(t) == SubmitRefuse(t) \/ SubmitLink(t) \/ SubmitSignal(t)
CreateStep == Alloc \/ CreateThread \/ CreateDone \/ CreateFails
                \/ RollbackJoin \/ RollbackFree
DestroyStep == Shutdown \/ Join \/ DestroyFree

\* Main is out of the pool's code for good.
Over == pc[Main] \in {"failed", "done"}

Next ==
    \/ \E t \in Threads : Acquire(t) \/ SubmitAlloc(t) \/ SubmitStep(t)
    \/ \E w \in Workers : SpuriousWakeup(w) \/ WorkerStep(w) \/ Finish(w)
    \/ CreateStep \/ Destroy \/ DestroyStep
    \/ Over /\ UNCHANGED vars

Spec == Init /\ [][Next]_vars

\* A thread that can run keeps running; a thread blocked on a mutex that is
\* released again and again gets it; a task function returns.  Nobody is
\* obliged to submit or to call thread_pool_destroy, and nothing wakes a
\* sleeping worker but a signal.
Fairness ==
    /\ \A t \in Threads : SF_vars(Acquire(t)) /\ WF_vars(SubmitStep(t))
    /\ \A w \in Workers : WF_vars(WorkerStep(w)) /\ SF_vars(Finish(w))
    /\ WF_vars(CreateStep) /\ WF_vars(DestroyStep)

FairSpec == Spec /\ Fairness

-----------------------------------------------------------------------------
TypeOK ==
    /\ pc \in [Threads -> WorkerPC \cup SubmitPC \cup MainPC]
    /\ pc[Main] \in MainPC \cup SubmitPC
    /\ \A w \in Workers : pc[w] \in WorkerPC \cup SubmitPC
    /\ lock \in Threads \cup {None}
    /\ head \in Nodes \cup {None}
    /\ tail \in Nodes \cup {None}
    /\ next \in [Nodes -> Nodes \cup {None}]
    /\ shutdown \in BOOLEAN
    /\ heap \subseteq Nodes
    /\ mem \in {"none", "live", "freed"}
    /\ task \in [Workers -> Nodes \cup {None}]
    /\ node \in [Threads -> Nodes \cup {None}]
    /\ i \in 0 .. N

-----------------------------------------------------------------------------
\* Someone has linked a node and not yet moved pool->tail to it.
Linking == {t \in Threads : pc[t] = "s_tail"}

\* What pool->tail must be for the list s.
TailOf(s) == IF s = <<>> THEN None ELSE s[Len(s)]

\* The queue is always a real singly linked list: from head along next one
\* meets only allocated nodes, none twice, up to a NULL, and tail points to
\* the last of them (to the one before it between the two pointer updates of
\* thread_pool_submit).  A stale tail would make the next submit write into
\* freed memory (imx6d.c 283-286, 310-314).
QueueWellFormed ==
    \E s \in Lists :
        /\ Chain(s)
        /\ \A k \in DOMAIN s : s[k] \in heap
        /\ Linking = {} => tail = TailOf(s)
        /\ \A t \in Linking : /\ s # <<>> /\ s[Len(s)] = node[t]
                              /\ tail = TailOf(SubSeq(s, 1, Len(s) - 1))

\* Who answers for an allocated node: the queue, a submitter that has not
\* linked it, or the one worker that has taken it off the queue.
BeingSubmitted == {node[t] : t \in {u \in Threads : pc[u] \in {"s_lock", "s_check"}}}
BeingRun == {task[w] : w \in {u \in Workers : pc[u] \in {"run"} \cup SubmitPC}}

\* Every allocated node has exactly one owner, so none leaks, none is run or
\* freed twice, and the node a worker runs is not on the queue any more.
OwnershipExact ==
    /\ heap = Queued \cup BeingSubmitted \cup BeingRun
    /\ Queued \cap (BeingSubmitted \cup BeingRun) = {}
    /\ BeingSubmitted \cap BeingRun = {}
    /\ \A v, w \in Workers : v # w /\ task[v] = task[w] => task[v] = None

\* The pool is freed only when no thread can touch it any more: every worker
\* that was ever started has left its loop and nobody holds the mutex that is
\* destroyed (lines 541-549, 566-580).
NoUseAfterFree ==
    mem = "freed" => /\ \A w \in Workers : pc[w] \in {"unborn", "exit"}
                     /\ lock = None

\* After the joins of thread_pool_destroy the queue is empty: the workers have
\* run every accepted task, and the loop that frees left-over nodes
\* (lines 570-575) never has anything to free.
DrainFindsNothing == pc[Main] = "d_drain" => head = None /\ heap = {}

\* No wakeup is lost.  Nobody sleeps through the shutdown, and a worker sleeps
\* only while each completely enqueued task has a worker of its own that is
\* awake and on its way to the queue.  So a task waits for a worker only when
\* all of them are running tasks, however long those take.
OnTheWay == {w \in Workers : pc[w] \in {"lock", "check", "pop"}}
NoLostWakeup ==
    Waiting # {} =>
        /\ ~shutdown
        /\ Len(Queue) - Cardinality(Linking) <= Cardinality(OnTheWay)

\* Nobody waits in a circle: while a call of the pool is under way or a task is
\* queued, some thread can go on without anybody else.  So neither the mutex,
\* nor a sleep that nobody ends, nor a join of a worker that never leaves,
\* brings the pool to a halt, on the rollback path neither.
CanRun(t) ==
    \/ pc[t] \in {"check", "pop", "run", "s_check", "s_tail", "alloc", "create",
                  "c_stop", "d_stop", "d_drain"}
    \/ pc[t] \in DOMAIN LockStep /\ lock = None
    \/ pc[t] = "c_join" /\ (i = 0 \/ Joinable(i))
    \/ pc[t] = "d_join" /\ (i = N \/ Joinable(i + 1))
Unfinished == \/ head # None
              \/ \E t \in Threads : pc[t] \in SubmitPC
              \/ pc[Main] \in MainPC \ {"api", "failed", "done"}
NobodyStuck == Unfinished => \E t \in Threads : CanRun(t)

\* Every accepted task is started, also one accepted just before the shutdown.
AcceptedRuns ==
    \A n \in Nodes : n \in Queued ~> \E w \in Workers : pc[w] = "run" /\ task[w] = n

\* thread_pool_destroy returns, and so does thread_pool_create, on its
\* rollback path too: every join finds its thread gone.
CallsReturn ==
    /\ pc[Main] = "d_lock" ~> pc[Main] = "done"
    /\ pc[Main] = "create" ~> pc[Main] \in {"api", "failed"}

\* The pool implements the abstract one: a task is accepted when its node is
\* linked and starts when the head is advanced past it, so tasks start in the
\* order of their submission, and the pool goes away only when it is quiet.
Abstract == INSTANCE TaskPool WITH
    Tasks <- Nodes,
    queue <- Queue,
    running <- [w \in Workers |->
                  IF pc[w] \in {"run"} \cup SubmitPC THEN task[w] ELSE None],
    phase <- IF mem = "freed" \/ pc[Main] = "failed" THEN "closed"
             ELSE IF shutdown THEN "closing" ELSE "open"
ImplementsTaskPool == Abstract!PoolSpec
=============================================================================
