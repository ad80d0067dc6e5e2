-------------------------- MODULE ThreadPoolProof --------------------------
(***************************************************************************)
(* Theorems about ThreadPool, for any number of workers, any finite set of *)
(* node addresses and any set of submitting threads.                       *)
(***************************************************************************)
EXTENDS ThreadPool, FiniteSetTheorems, SequenceTheorems,
        WellFoundedInduction, TLAPS

\* The places at which a thread owns the mutex.
HolderPC == {"check", "pop", "s_check", "s_tail", "c_stop", "d_stop"}

LockInv == \A t \in Threads : pc[t] \in HolderPC <=> lock = t

\* How far creation, rollback and destruction have got with the workers: the
\* ones thread_pool_create has not reached are unborn, the ones a join has
\* passed have left their loop.
Gone(w) == pc[w] \in {"unborn", "exit"}
LifeInv ==
    /\ pc[Main] = "alloc" => mem = "none" /\ i = 0
    /\ pc[Main] \in {"alloc", "create", "c_lock", "c_stop"} =>
          \A w \in Workers : w > i => pc[w] = "unborn"
    /\ pc[Main] = "c_join" => \A w \in Workers : w > i => Gone(w)
    /\ pc[Main] = "d_join" => \A w \in Workers : w <= i => Gone(w)
    /\ pc[Main] \in {"d_drain", "done", "failed"} => \A w \in Workers : Gone(w)
    /\ mem = "freed" => pc[Main] \in {"done", "failed"}

-----------------------------------------------------------------------------
USE DEF MustSleep, MustExit, TailAfterPop, Freed, Accepting, MoreToCreate,
        Joinable, Broadcast

LEMMA LockStepValues ==
    /\ DOMAIN LockStep = {"lock", "s_lock", "c_lock", "d_lock"}
    /\ LockStep["lock"] = "check" /\ LockStep["s_lock"] = "s_check"
    /\ LockStep["c_lock"] = "c_stop" /\ LockStep["d_lock"] = "d_stop"
BY DEF LockStep

\* The pc part of TypeOK, and the moves that preserve it.
PCType(f) == /\ f \in [Threads -> WorkerPC \cup SubmitPC \cup MainPC]
             /\ f[Main] \in MainPC \cup SubmitPC
             /\ \A w \in Workers : f[w] \in WorkerPC \cup SubmitPC

LEMMA ThreadFacts == /\ Main \in Threads /\ Main \notin Workers
                     /\ Workers \subseteq Threads /\ Workers \subseteq Nat
                     /\ \A t \in Threads : t = Main \/ t \in Workers
BY PoolAssumption DEF Threads, Workers

LEMMA MoveMain ==
    ASSUME PCType(pc), NEW p \in MainPC \cup SubmitPC,
           pc' = [pc EXCEPT ![Main] = p]
    PROVE  PCType(pc')
BY ThreadFacts DEF PCType

LEMMA MoveWorker ==
    ASSUME PCType(pc), NEW w \in Workers, NEW p \in WorkerPC \cup SubmitPC,
           pc' = [pc EXCEPT ![w] = p]
    PROVE  PCType(pc')
BY ThreadFacts DEF PCType

LEMMA MoveSubmitter ==
    ASSUME PCType(pc), NEW t \in Threads, NEW p \in SubmitPC,
           pc' = [pc EXCEPT ![t] = p]
    PROVE  PCType(pc')
BY ThreadFacts, MoveMain, MoveWorker

LEMMA MoveAndWake ==
    ASSUME PCType(pc), NEW t \in Threads, NEW p, NEW S \in SUBSET Workers,
           Moves(t, p, S), t = Main => p \in MainPC \cup SubmitPC,
           t # Main => p \in WorkerPC \cup SubmitPC
    PROVE  PCType(pc')
<1>1. "lock" \in WorkerPC
  BY DEF WorkerPC
<1>2. pc' = [u \in Threads |-> IF u = t THEN p
                               ELSE IF u \in S THEN "lock" ELSE pc[u]]
  BY DEF Moves
<1>3. ASSUME NEW u \in Threads
      PROVE  /\ pc'[u] \in WorkerPC \cup SubmitPC \cup MainPC
             /\ u = Main => pc'[u] \in MainPC \cup SubmitPC
             /\ u \in Workers => pc'[u] \in WorkerPC \cup SubmitPC
  BY <1>1, <1>2, ThreadFacts DEF PCType
<1> QED
  BY <1>2, <1>3, ThreadFacts DEF PCType

\* The rest of TypeOK.
DataType ==
    /\ lock \in Threads \cup {None}
    /\ head \in Nodes \cup {None}
    /\ tail \in Nodes \cup {None}
    /\ next \in [Nodes -> Nodes \cup {None}]
    /\ shutdown \in BOOLEAN
    /\ heap \subseteq Nodes
    /\ mem \in {"none", "live", "freed"}
    /\ task \in [Workers -> Nodes \cup {None}]
    /\ node \in [Threads -> Nodes \cup {None}]
    /\ i \in 0 .. N

\* A worker about to advance the head remembers a real node.
Popping == \A w \in Workers : pc[w] = "pop" => task[w] \in Nodes

TypeInv == PCType(pc) /\ DataType /\ Popping

LEMMA TypeSplit == TypeOK <=> PCType(pc) /\ DataType
BY DEF TypeOK, PCType, DataType

LEMMA PlaceNames ==
    /\ {"lock", "check", "pop", "wait", "run", "exit"} \subseteq WorkerPC
    /\ {"s_lock", "s_check", "s_tail"} \subseteq SubmitPC
    /\ {"alloc", "create", "c_lock", "c_stop", "c_join", "failed", "api",
        "d_lock", "d_stop", "d_join", "d_drain", "done"} \subseteq MainPC
BY DEF WorkerPC, SubmitPC, MainPC

LEMMA HomeType == /\ Home(Main) \in MainPC
                  /\ \A t \in Threads : t # Main => Home(t) \in WorkerPC
BY PlaceNames DEF Home

LEMMA AcquireType ==
    ASSUME PCType(pc), NEW t \in Threads, Acquire(t) PROVE PCType(pc')
<1>1. CASE pc[t] = "s_lock"
  BY <1>1, LockStepValues, PlaceNames, MoveSubmitter DEF Acquire
<1>2. CASE pc[t] = "lock"
  <2>1. t \in Workers
    BY <1>2, ThreadFacts DEF PCType, MainPC, SubmitPC
  <2> QED
    BY <1>2, <2>1, LockStepValues, PlaceNames, MoveWorker DEF Acquire
<1>3. CASE pc[t] \in {"c_lock", "d_lock"}
  <2>1. t = Main
    BY <1>3, ThreadFacts DEF PCType, WorkerPC, SubmitPC
  <2> QED
    BY <1>3, <2>1, LockStepValues, PlaceNames, MoveMain DEF Acquire
<1> QED
  BY <1>1, <1>2, <1>3, LockStepValues DEF Acquire

LEMMA TypeInit == Init => TypeInv
<1> SUFFICES ASSUME Init PROVE PCType(pc) /\ DataType /\ Popping
  BY DEF TypeInv
<1>1. PCType(pc)
  BY ThreadFacts DEF Init, PCType, WorkerPC, MainPC
<1>2. DataType
  <2>1. 0 \in 0 .. N
    BY PoolAssumption
  <2>2. [n \in Nodes |-> None] \in [Nodes -> Nodes \cup {None}]
    OBVIOUS
  <2> QED
    BY <2>1, <2>2 DEF Init, DataType
<1>3. Popping
  BY ThreadFacts DEF Init, Popping
<1> QED
  BY <1>1, <1>2, <1>3

\* Only the loop test sends a worker to "pop", with the head it has just read.
LEMMA PoppingStep ==
    ASSUME PCType(pc), DataType, Popping, [Next]_vars,
           NEW v \in Workers, pc'[v] = "pop"
    PROVE  task'[v] \in Nodes
<1> USE ThreadFacts DEF PCType, DataType, Popping
<1>1. ASSUME NEW t \in Threads, Acquire(t) PROVE task'[v] \in Nodes
  BY <1>1, LockStepValues DEF Acquire
<1>2. ASSUME NEW t \in Threads, SubmitAlloc(t) \/ SubmitRefuse(t) \/ SubmitLink(t)
      PROVE  task'[v] \in Nodes
  BY <1>2 DEF SubmitAlloc, SubmitRefuse, SubmitLink, Home
<1>3. ASSUME NEW t \in Threads, SubmitSignal(t) PROVE task'[v] \in Nodes
  BY <1>3 DEF SubmitSignal, Moves, Home
<1>4. ASSUME NEW w \in Workers, Check(w) PROVE task'[v] \in Nodes
  BY <1>4 DEF Check
<1>5. ASSUME NEW w \in Workers, SpuriousWakeup(w) \/ Pop(w) \/ Finish(w)
      PROVE  task'[v] \in Nodes
  BY <1>5 DEF SpuriousWakeup, Pop, Finish
<1>6. ASSUME CreateThread PROVE task'[v] \in Nodes
  BY <1>6 DEF CreateThread
<1>7. ASSUME Alloc \/ CreateDone \/ CreateFails \/ RollbackJoin \/ RollbackFree
             \/ Destroy \/ Join \/ DestroyFree
      PROVE  task'[v] \in Nodes
  BY <1>7 DEF Alloc, CreateDone, CreateFails, RollbackJoin, RollbackFree,
              Destroy, Join, DestroyFree
<1>8. ASSUME Shutdown PROVE task'[v] \in Nodes
  BY <1>8 DEF Shutdown, Moves
<1>9. ASSUME UNCHANGED vars PROVE task'[v] \in Nodes
  BY <1>9 DEF vars
<1> QED
  BY <1>1, <1>2, <1>3, <1>4, <1>5, <1>6, <1>7, <1>8, <1>9
  DEF Next, SubmitStep, WorkerStep, CreateStep, DestroyStep

LEMMA TypeStep == TypeInv /\ [Next]_vars => TypeInv'
<1> SUFFICES ASSUME PCType(pc), DataType, Popping, [Next]_vars
             PROVE  PCType(pc') /\ DataType' /\ Popping'
  BY DEF TypeInv, PCType
<1> USE DEF DataType
<1>1. ASSUME NEW t \in Threads, Acquire(t) PROVE PCType(pc') /\ DataType'
  BY <1>1, AcquireType DEF Acquire, list
<1>2. ASSUME NEW t \in Threads, SubmitAlloc(t)
      PROVE  PCType(pc') /\ DataType'
  <2>1. PCType(pc')
    BY <1>2, PlaceNames, MoveSubmitter DEF SubmitAlloc
  <2>2. PICK n \in Nodes \ heap :
            /\ heap' = heap \cup {n}
            /\ node' = [node EXCEPT ![t] = n]
            /\ next' = [next EXCEPT ![n] = None]
    BY <1>2 DEF SubmitAlloc
  <2>3. UNCHANGED <<lock, head, tail, shutdown, mem, task, i>>
    BY <1>2 DEF SubmitAlloc
  <2>4. DataType'
    BY <2>2, <2>3
  <2> QED
    BY <2>1, <2>4
<1>3. ASSUME NEW t \in Threads, SubmitRefuse(t)
      PROVE  PCType(pc') /\ DataType'
  <2>1. PCType(pc')
    BY <1>3, HomeType, ThreadFacts, MoveMain, MoveWorker DEF SubmitRefuse
  <2>2. DataType'
    BY <1>3 DEF SubmitRefuse, list
  <2> QED
    BY <2>1, <2>2
<1>4. ASSUME NEW t \in Threads, SubmitLink(t)
      PROVE  PCType(pc') /\ DataType'
  BY <1>4, PlaceNames, MoveSubmitter DEF SubmitLink
<1>5. ASSUME NEW t \in Threads, SubmitSignal(t)
      PROVE  PCType(pc') /\ DataType'
  <2>1. Signalled \subseteq SUBSET Workers
    BY DEF Signalled, Waiting
  <2> QED
    BY <1>5, <2>1, HomeType, MoveAndWake DEF SubmitSignal
<1>6. ASSUME NEW w \in Workers, SpuriousWakeup(w)
      PROVE  PCType(pc') /\ DataType'
  BY <1>6, PlaceNames, MoveWorker DEF SpuriousWakeup, list
<1>7. ASSUME NEW w \in Workers, Check(w) PROVE PCType(pc') /\ DataType'
  BY <1>7, PlaceNames, MoveWorker DEF Check, list
<1>8. ASSUME NEW w \in Workers, Pop(w) PROVE PCType(pc') /\ DataType'
  <2>1. next[task[w]] \in Nodes \cup {None}
    BY <1>8 DEF Pop, Popping
  <2> QED
    BY <1>8, <2>1, PlaceNames, MoveWorker DEF Pop
<1>9. ASSUME NEW w \in Workers, Finish(w) PROVE PCType(pc') /\ DataType'
  BY <1>9, PlaceNames, MoveWorker DEF Finish, list
<1>10. ASSUME CreateThread PROVE PCType(pc') /\ DataType'
  <2>1. i + 1 \in Workers
    BY <1>10, PoolAssumption DEF CreateThread, Workers
  <2>2. PCType(pc')
    BY <1>10, <2>1, PlaceNames, MoveWorker DEF CreateThread
  <2>3. DataType'
    BY <1>10, PoolAssumption DEF CreateThread, list
  <2> QED
    BY <2>2, <2>3
<1>11. ASSUME Alloc \/ CreateDone \/ CreateFails \/ RollbackFree \/ Destroy
              \/ DestroyFree
       PROVE  PCType(pc') /\ DataType'
  BY <1>11, PlaceNames, MoveMain
     DEF Alloc, CreateDone, CreateFails, RollbackFree, Destroy,
         DestroyFree, list
<1>12. ASSUME RollbackJoin \/ Join PROVE PCType(pc') /\ DataType'
  BY <1>12, PoolAssumption, PlaceNames, MoveMain
     DEF RollbackJoin, Join, list
<1>13. ASSUME Shutdown PROVE PCType(pc') /\ DataType'
  <2>1. Waiting \in SUBSET Workers
    BY DEF Waiting
  <2> QED
    BY <1>13, <2>1, PoolAssumption, ThreadFacts, PlaceNames, MoveAndWake
       DEF Shutdown, list
<1>14. ASSUME UNCHANGED vars PROVE PCType(pc') /\ DataType'
  BY <1>14 DEF vars, PCType
<1>15. PCType(pc') /\ DataType'
  BY <1>1, <1>2, <1>3, <1>4, <1>5, <1>6, <1>7, <1>8, <1>9, <1>10, <1>11,
     <1>12, <1>13, <1>14
  DEF Next, SubmitStep, WorkerStep, CreateStep, DestroyStep
<1>16. Popping'
  BY PoppingStep DEF Popping
<1> QED
  BY <1>15, <1>16

\* Every variable keeps its type.
THEOREM TypeCorrect == Spec => []TypeOK
<1>1. TypeInv => TypeOK
  BY TypeSplit DEF TypeInv
<1> QED
  BY TypeInit, TypeStep, <1>1, PTL DEF Spec

-----------------------------------------------------------------------------
LEMMA NotHolder ==
    /\ \A t \in Threads : Home(t) \notin HolderPC
    /\ {"unborn", "lock", "wait", "run", "exit", "s_lock", "alloc", "create",
        "c_lock", "c_join", "failed", "api", "d_lock", "d_join", "d_drain",
        "done"} \cap HolderPC = {}
BY DEF Home, HolderPC

\* The mutex does exclude: whoever is between a lock and an unlock owns it.
LEMMA LockStepInv ==
    ASSUME PCType(pc), DataType, LockInv, LifeInv, [Next]_vars
    PROVE  LockInv'
<1> SUFFICES ASSUME NEW u \in Threads
             PROVE  pc'[u] \in HolderPC <=> lock' = u
  BY DEF LockInv
<1> USE PoolAssumption, ThreadFacts, NotHolder DEF PCType, DataType, LockInv
<1>1. ASSUME NEW t \in Threads, Acquire(t)
      PROVE  pc'[u] \in HolderPC <=> lock' = u
  BY <1>1, LockStepValues DEF Acquire, HolderPC
<1>2. ASSUME NEW t \in Threads, SubmitAlloc(t) \/ SubmitLink(t)
      PROVE  pc'[u] \in HolderPC <=> lock' = u
  BY <1>2 DEF SubmitAlloc, SubmitLink, Home, HolderPC
<1>3. ASSUME NEW t \in Threads, SubmitRefuse(t) \/ SubmitSignal(t)
      PROVE  pc'[u] \in HolderPC <=> lock' = u
  <2>1. pc[t] \in HolderPC /\ lock' = None
    BY <1>3 DEF SubmitRefuse, SubmitSignal, HolderPC
  <2>2. \A v \in Threads : pc'[v] \in {pc[v], Home(t), "lock"}
    BY <1>3 DEF SubmitRefuse, SubmitSignal, Moves
  <2>3. pc'[t] = Home(t)
    BY <1>3 DEF SubmitRefuse, SubmitSignal, Moves
  <2> QED
    BY <2>1, <2>2, <2>3
<1>4. ASSUME NEW w \in Workers,
             SpuriousWakeup(w) \/ Check(w) \/ Pop(w) \/ Finish(w)
      PROVE  pc'[u] \in HolderPC <=> lock' = u
  BY <1>4 DEF SpuriousWakeup, Check, Pop, Finish, HolderPC
<1>5. ASSUME CreateThread PROVE pc'[u] \in HolderPC <=> lock' = u
  <2>1. i + 1 \in Workers /\ pc[i + 1] = "unborn"
    BY <1>5 DEF CreateThread, Workers, LifeInv
  <2> QED
    BY <1>5, <2>1 DEF CreateThread
<1>6. ASSUME Alloc \/ CreateDone \/ CreateFails \/ RollbackJoin \/ RollbackFree
             \/ Destroy \/ Join \/ DestroyFree
      PROVE  pc'[u] \in HolderPC <=> lock' = u
  BY <1>6 DEF Alloc, CreateDone, CreateFails, RollbackJoin, RollbackFree,
              Destroy, Join, DestroyFree, HolderPC
<1>7. ASSUME Shutdown PROVE pc'[u] \in HolderPC <=> lock' = u
  <2>1. pc[Main] \in HolderPC /\ lock' = None
    BY <1>7 DEF Shutdown, HolderPC
  <2>2. \A v \in Threads : v # Main => pc'[v] \in {pc[v], "lock"}
    BY <1>7 DEF Shutdown, Moves
  <2>3. pc'[Main] \in {"c_join", "d_join"}
    BY <1>7 DEF Shutdown, Moves
  <2> QED
    BY <2>1, <2>2, <2>3
<1>8. ASSUME UNCHANGED vars PROVE pc'[u] \in HolderPC <=> lock' = u
  BY <1>8 DEF vars
<1> QED
  BY <1>1, <1>2, <1>3, <1>4, <1>5, <1>6, <1>7, <1>8
  DEF Next, SubmitStep, WorkerStep, CreateStep, DestroyStep

\* Whoever has left stays away, except the worker being created.
LEMMA GoneStays ==
    ASSUME PCType(pc), DataType, [Next]_vars, NEW w \in Workers, Gone(w)
    PROVE  \/ pc'[w] = pc[w]
           \/ CreateThread /\ w = i + 1
<1> USE ThreadFacts DEF PCType, DataType, Gone
<1>1. ASSUME NEW t \in Threads, Acquire(t) PROVE pc'[w] = pc[w]
  BY <1>1, LockStepValues DEF Acquire
<1>2. ASSUME NEW t \in Threads, SubmitAlloc(t) \/ SubmitLink(t) \/ SubmitRefuse(t)
      PROVE  pc'[w] = pc[w]
  BY <1>2 DEF SubmitAlloc, SubmitLink, SubmitRefuse, Home
<1>3. ASSUME NEW t \in Threads, SubmitSignal(t) PROVE pc'[w] = pc[w]
  <2>1. PICK S \in Signalled : Moves(t, Home(t), S)
    BY <1>3 DEF SubmitSignal
  <2>2. w \notin S
    BY <2>1 DEF Signalled, Waiting
  <2>3. w # t
    BY <1>3 DEF SubmitSignal
  <2> QED
    BY <2>1, <2>2, <2>3 DEF Moves
<1>4. ASSUME NEW v \in Workers,
             SpuriousWakeup(v) \/ Check(v) \/ Pop(v) \/ Finish(v)
      PROVE  pc'[w] = pc[w]
  BY <1>4 DEF SpuriousWakeup, Check, Pop, Finish
<1>5. ASSUME CreateThread PROVE pc'[w] = pc[w] \/ w = i + 1
  BY <1>5 DEF CreateThread
<1>6. ASSUME Alloc \/ CreateDone \/ CreateFails \/ RollbackJoin \/ RollbackFree
             \/ Destroy \/ Join \/ DestroyFree
      PROVE  pc'[w] = pc[w]
  BY <1>6 DEF Alloc, CreateDone, CreateFails, RollbackJoin, RollbackFree,
              Destroy, Join, DestroyFree
<1>7. ASSUME Shutdown PROVE pc'[w] = pc[w]
  BY <1>7 DEF Shutdown, Moves, Waiting
<1>8. ASSUME UNCHANGED vars PROVE pc'[w] = pc[w]
  BY <1>8 DEF vars
<1> QED
  BY <1>1, <1>2, <1>3, <1>4, <1>5, <1>6, <1>7, <1>8
  DEF Next, SubmitStep, WorkerStep, CreateStep, DestroyStep

\* Main moves only by its own actions.
LEMMA MainStays ==
    ASSUME PCType(pc), DataType, [Next]_vars, pc[Main] \notin SubmitPC \cup {"api"}
    PROVE  \/ pc'[Main] = pc[Main] /\ i' = i /\ mem' = mem
           \/ Acquire(Main)
           \/ CreateStep \/ DestroyStep
<1> USE ThreadFacts DEF PCType, DataType, SubmitPC
<1>1. ASSUME NEW t \in Threads, t # Main,
             Acquire(t) \/ SubmitAlloc(t) \/ SubmitLink(t) \/ SubmitRefuse(t)
      PROVE  pc'[Main] = pc[Main] /\ i' = i /\ mem' = mem
  BY <1>1 DEF Acquire, SubmitAlloc, SubmitLink, SubmitRefuse, list
<1>2. ASSUME NEW t \in Threads, SubmitSignal(t)
      PROVE  pc'[Main] = pc[Main] /\ i' = i /\ mem' = mem
  <2>1. PICK S \in Signalled : Moves(t, Home(t), S)
    BY <1>2 DEF SubmitSignal
  <2>2. Main \notin S
    BY <2>1 DEF Signalled, Waiting
  <2>3. Main # t
    BY <1>2 DEF SubmitSignal
  <2> QED
    BY <1>2, <2>1, <2>2, <2>3 DEF SubmitSignal, Moves
<1>3. ASSUME SubmitAlloc(Main) \/ SubmitLink(Main) \/ SubmitRefuse(Main)
      PROVE  FALSE
  BY <1>3 DEF SubmitAlloc, SubmitLink, SubmitRefuse, Home
<1>4. ASSUME NEW w \in Workers,
             SpuriousWakeup(w) \/ Check(w) \/ Pop(w) \/ Finish(w)
      PROVE  pc'[Main] = pc[Main] /\ i' = i /\ mem' = mem
  BY <1>4 DEF SpuriousWakeup, Check, Pop, Finish
<1>5. ASSUME Destroy PROVE FALSE
  BY <1>5 DEF Destroy
<1>6. ASSUME UNCHANGED vars PROVE pc'[Main] = pc[Main] /\ i' = i /\ mem' = mem
  BY <1>6 DEF vars
<1> QED
  BY <1>1, <1>2, <1>3, <1>4, <1>5, <1>6 DEF Next, SubmitStep, WorkerStep

LEMMA MainAtApi ==
    ASSUME PCType(pc), DataType, [Next]_vars, pc[Main] \in SubmitPC \cup {"api"}
    PROVE  mem' = mem /\ pc'[Main] \in SubmitPC \cup {"api", "d_lock"}
<1> USE ThreadFacts DEF PCType, DataType, SubmitPC
<1>1. ASSUME NEW t \in Threads, Acquire(t)
      PROVE  mem' = mem /\ pc'[Main] \in SubmitPC \cup {"api", "d_lock"}
  BY <1>1, LockStepValues DEF Acquire
<1>2. ASSUME NEW t \in Threads,
             SubmitAlloc(t) \/ SubmitLink(t) \/ SubmitRefuse(t)
      PROVE  mem' = mem /\ pc'[Main] \in SubmitPC \cup {"api", "d_lock"}
  BY <1>2 DEF SubmitAlloc, SubmitLink, SubmitRefuse, Home
<1>3. ASSUME NEW t \in Threads, SubmitSignal(t)
      PROVE  mem' = mem /\ pc'[Main] \in SubmitPC \cup {"api", "d_lock"}
  <2>1. PICK S \in Signalled : Moves(t, Home(t), S)
    BY <1>3 DEF SubmitSignal
  <2>2. Main \notin S
    BY <2>1 DEF Signalled, Waiting
  <2> QED
    BY <1>3, <2>1, <2>2 DEF SubmitSignal, Moves, Home
<1>4. ASSUME NEW w \in Workers,
             SpuriousWakeup(w) \/ Check(w) \/ Pop(w) \/ Finish(w)
      PROVE  mem' = mem /\ pc'[Main] \in SubmitPC \cup {"api", "d_lock"}
  BY <1>4 DEF SpuriousWakeup, Check, Pop, Finish
<1>5. ASSUME CreateStep \/ Destroy \/ DestroyStep
      PROVE  mem' = mem /\ pc'[Main] \in SubmitPC \cup {"api", "d_lock"}
  BY <1>5 DEF CreateStep, Alloc, CreateThread, CreateDone, CreateFails,
              RollbackJoin, RollbackFree, Destroy, DestroyStep, Shutdown,
              Join, DestroyFree
<1>6. ASSUME UNCHANGED vars
      PROVE  mem' = mem /\ pc'[Main] \in SubmitPC \cup {"api", "d_lock"}
  BY <1>6 DEF vars
<1> QED
  BY <1>1, <1>2, <1>3, <1>4, <1>5, <1>6 DEF Next, SubmitStep, WorkerStep

LEMMA LifeStepInv ==
    ASSUME PCType(pc), DataType, LifeInv, [Next]_vars
    PROVE  LifeInv'
<1> USE PoolAssumption, ThreadFacts DEF PCType, DataType
<1>1. CASE pc[Main] \in SubmitPC \cup {"api"}
  <2>1. mem # "freed"
    BY <1>1 DEF LifeInv, SubmitPC
  <2>2. mem' = mem /\ pc'[Main] \in SubmitPC \cup {"api", "d_lock"}
    BY <1>1, <2>1, MainAtApi
  <2> QED
    BY <2>1, <2>2 DEF LifeInv, SubmitPC
<1>2. ASSUME pc'[Main] = pc[Main], i' = i, mem' = mem, ~CreateThread
      PROVE  LifeInv'
  <2>1. \A w \in Workers : Gone(w) => pc'[w] = pc[w]
    BY <1>2, GoneStays
  <2> QED
    BY <1>2, <2>1 DEF LifeInv, Gone
<1>3. CASE Acquire(Main)
  <2>1. \A w \in Workers : pc'[w] = pc[w]
    BY <1>3 DEF Acquire
  <2>2. /\ pc[Main] = "c_lock" /\ pc'[Main] = "c_stop"
        \/ pc'[Main] \in {"s_check", "d_stop", "check"}
    BY <1>3, LockStepValues DEF Acquire
  <2>3. i' = i /\ mem' = mem /\ mem # "freed"
    BY <1>3, LockStepValues DEF Acquire, LifeInv
  <2> QED
    BY <2>1, <2>2, <2>3 DEF LifeInv, Gone
<1>4. CASE CreateThread
  <2>1. \A w \in Workers : w > i' => pc'[w] = pc[w]
    BY <1>4 DEF CreateThread
  <2>2. pc'[Main] = "create" /\ pc[Main] = "create" /\ mem' = mem /\ i' > i
    BY <1>4 DEF CreateThread, Workers
  <2>3. \A w \in Workers : w > i' => w > i
    BY <2>2, <1>4 DEF CreateThread, Workers
  <2> QED
    BY <2>1, <2>2, <2>3 DEF LifeInv
<1>5. CASE Alloc \/ CreateDone \/ CreateFails \/ RollbackFree \/ DestroyFree
  <2>1. \A w \in Workers : pc'[w] = pc[w]
    BY <1>5 DEF Alloc, CreateDone, CreateFails, RollbackFree, DestroyFree
  <2>2. CASE Alloc \/ CreateDone \/ CreateFails
    BY <2>1, <2>2 DEF LifeInv, Gone, Alloc, CreateDone, CreateFails, Workers
  <2>3. CASE RollbackFree \/ DestroyFree
    BY <2>1, <2>3 DEF LifeInv, Gone, RollbackFree, DestroyFree, Workers
  <2> QED
    BY <1>5, <2>2, <2>3
<1>6. CASE RollbackJoin
  BY <1>6 DEF RollbackJoin, LifeInv, Gone, Workers
<1>7. CASE Join
  BY <1>7 DEF Join, LifeInv, Gone, Workers
<1>8. CASE Shutdown
  <2>1. \A w \in Workers : Gone(w) => pc'[w] = pc[w]
    BY <1>8, GoneStays DEF Shutdown, CreateThread
  <2>2. mem' = mem /\ mem # "freed"
    BY <1>8 DEF Shutdown, LifeInv
  <2>3. CASE pc[Main] = "c_stop"
    <3>1. pc'[Main] = "c_join" /\ i' = i
      BY <1>8, <2>3 DEF Shutdown, Moves
    <3> QED
      BY <2>1, <2>2, <2>3, <3>1 DEF LifeInv, Gone
  <2>4. CASE pc[Main] = "d_stop"
    <3>1. pc'[Main] = "d_join" /\ i' = 0
      BY <1>8, <2>4 DEF Shutdown, Moves
    <3> QED
      BY <2>2, <3>1 DEF LifeInv, Workers
  <2> QED
    BY <1>8, <2>3, <2>4 DEF Shutdown
<1> QED
  BY <1>1, <1>2, <1>3, <1>4, <1>5, <1>6, <1>7, <1>8, MainStays
  DEF CreateStep, DestroyStep

IndInv == TypeInv /\ LockInv /\ LifeInv

LEMMA IndInvInit == Init => IndInv
<1> SUFFICES ASSUME Init PROVE LockInv /\ LifeInv
  BY TypeInit DEF IndInv
<1> USE PoolAssumption, ThreadFacts
<1>1. LockInv
  BY DEF Init, LockInv, HolderPC
<1>2. LifeInv
  BY DEF Init, LifeInv, Gone
<1> QED
  BY <1>1, <1>2

LEMMA IndInvStep == IndInv /\ [Next]_vars => IndInv'
BY TypeStep, LockStepInv, LifeStepInv DEF IndInv, TypeInv

\* The pool is never freed under a thread that can still use it: whenever it
\* is freed, every worker has left its loop and the mutex is free.
THEOREM FreedUnused == Spec => []NoUseAfterFree
<1>1. IndInv => NoUseAfterFree
  <2> SUFFICES ASSUME IndInv, mem = "freed"
               PROVE  (\A w \in Workers : pc[w] \in {"unborn", "exit"}) /\ lock = None
    BY DEF NoUseAfterFree
  <2>1. \A w \in Workers : Gone(w)
    BY DEF IndInv, LifeInv
  <2>2. pc[Main] \in {"done", "failed"}
    BY DEF IndInv, LifeInv
  <2>3. \A t \in Threads : lock # t
    BY <2>1, <2>2, ThreadFacts, NotHolder DEF Gone, IndInv, LockInv
  <2> QED
    BY <2>1, <2>3 DEF Gone, IndInv, TypeInv, DataType
<1> QED
  BY <1>1, IndInvInit, IndInvStep, PTL DEF Spec
-----------------------------------------------------------------------------
(***************************************************************************)
(* The queue: its shape, who owns its nodes, what is left of it at the     *)
(* end, and who is awake to serve it; and, from these, that ThreadPool     *)
(* implements TaskPool.                                                    *)
(***************************************************************************)
Elems(s) == {s[j] : j \in DOMAIN s}

\* A submitter that has a node of its own, and a worker that runs one.
Pending(t) == pc[t] \in {"s_lock", "s_check"}
Runs(w) == pc[w] \in {"run"} \cup SubmitPC

\* pool->tail, with the exception of the instant between its two updates.
TailFits(s) ==
    /\ Linking = {} => tail = IF s = <<>> THEN None ELSE s[Len(s)]
    /\ \A t \in Linking :
          /\ s # <<>> /\ s[Len(s)] = node[t]
          /\ tail = IF Len(s) = 1 THEN None ELSE s[Len(s) - 1]

Shape(s) == /\ s \in Seq(Nodes)
            /\ Chain(s)
            /\ Elems(s) \subseteq heap
            /\ TailFits(s)

\* The nodes off the queue belong to one thread each.
Apart(s) ==
    /\ \A t \in Threads : Pending(t) =>
          node[t] \in heap /\ node[t] \notin Elems(s) /\ next[node[t]] = None
    /\ \A w \in Workers : Runs(w) => task[w] \in heap /\ task[w] \notin Elems(s)
    /\ \A t, u \in Threads : Pending(t) /\ Pending(u) /\ node[t] = node[u] => t = u
    /\ \A v, w \in Workers : Runs(v) /\ Runs(w) /\ task[v] = task[w] => v = w
    /\ \A t \in Threads, w \in Workers : Pending(t) /\ Runs(w) => node[t] # task[w]

\* A worker remembers a node only while it dequeues or runs it.
Remembers ==
    /\ \A w \in Workers : pc[w] = "pop" => head \in Nodes /\ task[w] = head
    /\ \A w \in Workers : ~Runs(w) /\ pc[w] # "pop" => task[w] = None

\* No node leaks.
AllOwned(s) ==
    \A n \in heap : \/ n \in Elems(s)
                    \/ \E t \in Threads : Pending(t) /\ node[t] = n
                    \/ \E w \in Workers : Runs(w) /\ task[w] = n

ListInv(s) == Shape(s) /\ Apart(s) /\ Remembers /\ AllOwned(s)
QueueInv == \E s \in Seq(Nodes) : ListInv(s)

-----------------------------------------------------------------------------
\* Lists of nodes.

LEMMA SeqFacts ==
    ASSUME NEW s \in Seq(Nodes)
    PROVE  /\ Len(s) \in Nat /\ DOMAIN s = 1 .. Len(s)
           /\ s = <<>> <=> Len(s) = 0
           /\ \A j \in 1 .. Len(s) : s[j] \in Nodes
BY EmptySeq, LenProperties, ElementOfSeq

\* A chain has no node twice, so it is no longer than there are nodes.
LEMMA ChainIsList ==
    ASSUME NEW s \in Seq(Nodes), \A j, k \in DOMAIN s : s[j] = s[k] => j = k
    PROVE  s \in Lists
<1>1. s \in Injection(1 .. Len(s), Nodes)
  BY SeqFacts, LenProperties DEF Injection, IsInjective
<1>2. Cardinality(1 .. Len(s)) <= Cardinality(Nodes)
  BY <1>1, PoolAssumption, FS_Injection
<1>3. Cardinality(1 .. Len(s)) = Len(s)
  BY FS_Interval, SeqFacts
<1>4. Cardinality(Nodes) \in Nat
  BY PoolAssumption, FS_CardinalityType
<1>5. Len(s) \in 0 .. Cardinality(Nodes)
  BY <1>2, <1>3, <1>4, SeqFacts
<1>6. s \in [1 .. Len(s) -> Nodes]
  BY LenProperties
<1> QED
  BY <1>5, <1>6 DEF Lists

LEMMA ListIsSeq == ASSUME NEW s \in Lists PROVE s \in Seq(Nodes)
<1>1. PICK k \in 0 .. Cardinality(Nodes) : s \in [1 .. k -> Nodes]
  BY DEF Lists
<1>2. k \in Nat
  BY PoolAssumption, FS_CardinalityType
<1> QED
  BY <1>1, <1>2, SeqDef

\* The pointers determine the list: at the first place where two chains
\* differed, the nodes before would have different successors.
LEMMA ChainUnique ==
    ASSUME NEW s \in Seq(Nodes), NEW r \in Seq(Nodes), Chain(s), Chain(r)
    PROVE  s = r
<1>0. Len(s) \in Nat /\ Len(r) \in Nat
  BY SeqFacts
<1> PICK m \in Nat, l \in Nat : m = Len(s) /\ l = Len(r)
  BY <1>0
<1>1. /\ m \in Nat /\ DOMAIN s = 1 .. m /\ (s = <<>> <=> m = 0)
      /\ l \in Nat /\ DOMAIN r = 1 .. l /\ (r = <<>> <=> l = 0)
  BY SeqFacts
<1>2. /\ \A j \in 1 .. m : s[j] \in Nodes
      /\ \A j \in 1 .. l : r[j] \in Nodes
      /\ None \notin Nodes
  BY SeqFacts, PoolAssumption
<1>3. /\ \A j \in 1 .. m : next[s[j]] = IF j = m THEN None ELSE s[j + 1]
      /\ \A j \in 1 .. l : next[r[j]] = IF j = l THEN None ELSE r[j + 1]
  BY <1>1 DEF Chain
<1>4. head = (IF m = 0 THEN None ELSE s[1]) /\ head = (IF l = 0 THEN None ELSE r[1])
  BY <1>1 DEF Chain
<1> DEFINE D == {j \in Nat : j \in 1 .. m /\ j \in 1 .. l /\ s[j] # r[j]}
<1>5. D = {}
  <2> SUFFICES ASSUME D # {} PROVE FALSE
    OBVIOUS
  <2>1. PICK x \in D : \A y \in D : ~ (<<y, x>> \in OpToRel(<, Nat))
    BY WFMin, NatLessThanWellFounded
  <2>2. /\ x \in Nat /\ x \in 1 .. m /\ x \in 1 .. l /\ s[x] # r[x]
        /\ \A y \in D : ~ (y < x)
    BY <2>1 DEF OpToRel
  <2> HIDE DEF D
  <2>3. x # 1
    BY <2>2, <1>1, <1>4
  <2>4. x - 1 \in 1 .. m /\ x - 1 \in 1 .. l /\ x - 1 \in Nat /\ x - 1 < x
    BY <2>2, <2>3, <1>1
  <2>5. s[x - 1] = r[x - 1]
    BY <2>2, <2>4 DEF D
  <2>6. next[s[x - 1]] = s[x] /\ next[r[x - 1]] = r[x]
    BY <2>2, <2>4, <1>1, <1>3
  <2> QED
    BY <2>2, <2>5, <2>6
<1>6. \A j \in 1 .. m : j \in 1 .. l => s[j] = r[j]
  BY <1>1, <1>5
<1> HIDE DEF D
<1>7. ~ (m < l)
  <2> SUFFICES ASSUME m < l PROVE FALSE
    OBVIOUS
  <2>1. r[m + 1] \in Nodes
    BY <1>1, <1>2
  <2>2. CASE m = 0
    BY <2>1, <2>2, <1>1, <1>2, <1>4
  <2>3. CASE m # 0
    <3>1. m \in 1 .. m /\ m \in 1 .. l
      BY <2>3, <1>1
    <3> QED
      BY <3>1, <2>1, <1>1, <1>2, <1>3, <1>6
  <2> QED
    BY <2>2, <2>3
<1>8. ~ (l < m)
  <2> SUFFICES ASSUME l < m PROVE FALSE
    OBVIOUS
  <2>1. s[l + 1] \in Nodes
    BY <1>1, <1>2
  <2>2. CASE l = 0
    BY <2>1, <2>2, <1>1, <1>2, <1>4
  <2>3. CASE l # 0
    <3>1. l \in 1 .. l /\ l \in 1 .. m
      BY <2>3, <1>1
    <3> QED
      BY <3>1, <2>1, <1>1, <1>2, <1>3, <1>6
  <2> QED
    BY <2>2, <2>3
<1>9. m = l
  BY <1>1, <1>7, <1>8
<1> QED
  BY <1>6, <1>9, SeqEqual

LEMMA QueueIs ==
    ASSUME NEW s \in Seq(Nodes), Chain(s)
    PROVE  s \in Lists /\ Queue = s
<1>1. s \in Lists
  BY ChainIsList DEF Chain
<1>2. Queue \in Lists /\ Chain(Queue)
  BY <1>1 DEF Queue
<1> QED
  BY <1>1, <1>2, ListIsSeq, ChainUnique

-----------------------------------------------------------------------------
\* Steps that leave the list and the owners alone.

LEMMA OneHolder ==
    ASSUME LockInv, NEW t \in Threads, NEW u \in Threads,
           pc[t] \in HolderPC, pc[u] \in HolderPC
    PROVE  t = u
BY DEF LockInv

LEMMA Frame ==
    ASSUME NEW s \in Seq(Nodes), ListInv(s), UNCHANGED <<list, heap, node, task>>,
           \A t \in Threads : /\ Pending(t)' <=> Pending(t)
                              /\ pc'[t] = "s_tail" <=> pc[t] = "s_tail",
           \A w \in Workers : /\ Runs(w)' <=> Runs(w)
                              /\ pc'[w] = "pop" <=> pc[w] = "pop"
    PROVE  ListInv(s)'
<1> USE DEF list
<1>1. Linking' = Linking
  BY DEF Linking
<1>2. Shape(s)'
  <2>1. Chain(s)'
    BY DEF ListInv, Shape, Chain
  <2>2. TailFits(s)'
    BY <1>1 DEF ListInv, Shape, TailFits
  <2> QED
    BY <2>1, <2>2 DEF ListInv, Shape
<1>3. Apart(s)'
  BY DEF ListInv, Apart
<1>4. Remembers'
  BY DEF ListInv, Remembers
<1>5. AllOwned(s)'
  BY DEF ListInv, AllOwned
<1> QED
  BY <1>2, <1>3, <1>4, <1>5 DEF ListInv

LEMMA HomeKeeps ==
    \A t \in Threads : Home(t) \notin {"s_lock", "s_check", "s_tail", "pop"}
BY DEF Home

\* The part of Next that Frame covers: a wakeup, a wait, an exit, an Acquire,
\* and all that create and destroy do until the end.
Elsewhere ==
    \/ \E t \in Threads : Acquire(t)
    \/ \E w \in Workers : SpuriousWakeup(w)
    \/ \E w \in Workers : Check(w) /\ pc'[w] # "pop"
    \/ CreateStep \/ Destroy \/ Shutdown \/ Join
    \/ UNCHANGED vars

LEMMA ElsewhereKeeps ==
    ASSUME PCType(pc), DataType, LifeInv, NEW s \in Seq(Nodes), ListInv(s), Elsewhere
    PROVE  ListInv(s)'
<1> USE ThreadFacts DEF PCType, DataType
<1> DEFINE Same == /\ UNCHANGED <<list, heap, node, task>>
                   /\ \A t \in Threads : /\ Pending(t)' <=> Pending(t)
                                         /\ pc'[t] = "s_tail" <=> pc[t] = "s_tail"
                   /\ \A w \in Workers : /\ Runs(w)' <=> Runs(w)
                                         /\ pc'[w] = "pop" <=> pc[w] = "pop"
<1>1. SUFFICES Same
  BY Frame
<1> USE DEF Pending, Runs, SubmitPC
<1>2. ASSUME NEW t \in Threads, Acquire(t) PROVE Same
  BY <1>2, LockStepValues DEF Acquire
<1>3. ASSUME NEW w \in Workers, SpuriousWakeup(w) PROVE Same
  BY <1>3 DEF SpuriousWakeup
<1>4. ASSUME NEW w \in Workers, Check(w), pc'[w] # "pop" PROVE Same
  BY <1>4 DEF Check
<1>5. ASSUME CreateThread PROVE Same
  <2>1. i + 1 \in Workers /\ pc[i + 1] = "unborn"
    BY <1>5, PoolAssumption DEF CreateThread, Workers, LifeInv
  <2> QED
    BY <1>5, <2>1 DEF CreateThread
<1>6. ASSUME Alloc \/ CreateDone \/ CreateFails \/ RollbackJoin \/ RollbackFree
             \/ Destroy \/ Join
      PROVE  Same
  BY <1>6 DEF Alloc, CreateDone, CreateFails, RollbackJoin, RollbackFree,
              Destroy, Join
<1>7. ASSUME Shutdown PROVE Same
  <2>1. UNCHANGED <<list, heap, node, task>> /\ pc[Main] \in {"c_stop", "d_stop"}
    BY <1>7 DEF Shutdown
  <2>2. PICK p \in {"c_join", "d_join"} : Moves(Main, p, Waiting)
    BY <1>7 DEF Shutdown
  <2>3. pc'[Main] = p
    BY <2>2 DEF Moves
  <2>4. \A u \in Threads : u # Main =>
            pc'[u] = pc[u] \/ (pc[u] = "wait" /\ pc'[u] = "lock")
    BY <2>2 DEF Moves, Waiting
  <2>5. \A u \in Workers : u # Main
    OBVIOUS
  <2> QED
    BY <2>1, <2>3, <2>4, <2>5
<1>8. ASSUME UNCHANGED vars PROVE Same
  BY <1>8 DEF vars, list
<1> HIDE DEF Same
<1> QED
  BY <1>2, <1>3, <1>4, <1>5, <1>6, <1>7, <1>8 DEF Elsewhere, CreateStep

-----------------------------------------------------------------------------
\* Steps that change the list or an owner.

LEMMA AllocKeeps ==
    ASSUME PCType(pc), DataType, NEW s \in Seq(Nodes), ListInv(s),
           NEW t \in Threads, SubmitAlloc(t)
    PROVE  ListInv(s)'
<1> USE ThreadFacts DEF PCType, DataType
<1>1. PICK n \in Nodes \ heap :
          /\ heap' = heap \cup {n}
          /\ node' = [node EXCEPT ![t] = n]
          /\ next' = [next EXCEPT ![n] = None]
  BY DEF SubmitAlloc
<1>2. /\ pc' = [pc EXCEPT ![t] = "s_lock"] /\ pc[t] \in {"api", "run"}
      /\ UNCHANGED <<lock, head, tail, shutdown, mem, task, i>>
  BY DEF SubmitAlloc, Home
<1>3. n \notin Elems(s)
  BY <1>1 DEF ListInv, Shape
<1>4. \A u \in Threads : Pending(u)' <=> Pending(u) \/ u = t
  BY <1>2 DEF Pending
<1>5. ~ Pending(t)
  BY <1>2 DEF Pending
<1>6. \A w \in Workers : (Runs(w)' <=> Runs(w)) /\ (pc'[w] = "pop" <=> pc[w] = "pop")
  <2>1. t \in Workers => pc[t] = "run"
    BY <1>2 DEF WorkerPC, SubmitPC
  <2> QED
    BY <1>2, <2>1 DEF Runs, SubmitPC
<1>7. Linking' = Linking /\ t \notin Linking
  BY <1>2 DEF Linking
<1>8. Shape(s)'
  <2>1. Chain(s)'
    BY <1>1, <1>2, <1>3 DEF ListInv, Shape, Chain, Elems
  <2>2. TailFits(s)'
    BY <1>1, <1>2, <1>7 DEF ListInv, Shape, TailFits, Linking
  <2> QED
    BY <1>1, <2>1, <2>2 DEF ListInv, Shape
<1>9. Apart(s)'
  <2>1. \A u \in Threads : Pending(u) => node'[u] = node[u] /\ node[u] \in heap /\ node[u] # n
    BY <1>1, <1>5 DEF ListInv, Apart
  <2>2. node'[t] = n /\ next'[n] = None
    BY <1>1
  <2>3. \A w \in Workers : Runs(w) => task[w] \in heap /\ task[w] # n
    BY <1>1 DEF ListInv, Apart
  <2>4. \A u \in Threads : Pending(u) => next'[node[u]] = None
    BY <1>1, <2>1 DEF ListInv, Apart
  <2> QED
    BY <1>1, <1>2, <1>3, <1>4, <1>6, <2>1, <2>2, <2>3, <2>4 DEF ListInv, Apart
<1>10. Remembers'
  BY <1>2, <1>6 DEF ListInv, Remembers
<1>11. AllOwned(s)'
  BY <1>1, <1>2, <1>4, <1>5, <1>6 DEF ListInv, AllOwned
<1> QED
  BY <1>8, <1>9, <1>10, <1>11 DEF ListInv

LEMMA RefuseKeeps ==
    ASSUME PCType(pc), DataType, NEW s \in Seq(Nodes), ListInv(s),
           NEW t \in Threads, SubmitRefuse(t)
    PROVE  ListInv(s)'
<1> USE ThreadFacts DEF PCType, DataType
<1>1. /\ pc' = [pc EXCEPT ![t] = Home(t)] /\ pc[t] = "s_check"
      /\ heap' = heap \ {node[t]}
      /\ node' = [node EXCEPT ![t] = None]
      /\ UNCHANGED <<head, tail, next, task>>
  BY DEF SubmitRefuse, list
<1>2. \A u \in Threads : Pending(u)' <=> Pending(u) /\ u # t
  BY <1>1, HomeKeeps DEF Pending
<1>3. Pending(t)
  BY <1>1 DEF Pending
<1>4. \A w \in Workers : (Runs(w)' <=> Runs(w)) /\ (pc'[w] = "pop" <=> pc[w] = "pop")
  BY <1>1 DEF Runs, SubmitPC, Home
<1>5. Linking' = Linking /\ t \notin Linking
  BY <1>1, HomeKeeps DEF Linking
<1>6. Shape(s)'
  <2>1. Chain(s)'
    BY <1>1 DEF ListInv, Shape, Chain
  <2>2. TailFits(s)'
    BY <1>1, <1>5 DEF ListInv, Shape, TailFits, Linking
  <2>3. Elems(s) \subseteq heap'
    BY <1>1, <1>3 DEF ListInv, Shape, Apart
  <2> QED
    BY <2>1, <2>2, <2>3 DEF ListInv, Shape
<1>7. Apart(s)'
  BY <1>1, <1>2, <1>3, <1>4 DEF ListInv, Apart
<1>8. Remembers'
  BY <1>1, <1>4 DEF ListInv, Remembers
<1>9. AllOwned(s)'
  BY <1>1, <1>2, <1>4 DEF ListInv, AllOwned
<1> QED
  BY <1>6, <1>7, <1>8, <1>9 DEF ListInv

\* The mutex keeps other submitters away between the two pointer updates.
LEMMA SignalKeeps ==
    ASSUME PCType(pc), DataType, LockInv, NEW s \in Seq(Nodes), ListInv(s),
           NEW t \in Threads, SubmitSignal(t)
    PROVE  ListInv(s)'
<1> USE ThreadFacts DEF PCType, DataType
<1>1. /\ pc[t] = "s_tail" /\ tail' = node[t]
      /\ node' = [node EXCEPT ![t] = None]
      /\ UNCHANGED <<head, next, heap, task>>
  BY DEF SubmitSignal
<1>2. PICK S \in Signalled : Moves(t, Home(t), S)
  BY DEF SubmitSignal
<1>3. /\ pc'[t] = Home(t)
      /\ \A u \in Threads : u # t =>
            pc'[u] = pc[u] \/ (pc[u] = "wait" /\ pc'[u] = "lock")
  BY <1>2 DEF Moves, Signalled, Waiting
<1>4. \A u \in Threads : Pending(u)' <=> Pending(u)
  BY <1>1, <1>3, HomeKeeps DEF Pending
<1>5. \A w \in Workers : (Runs(w)' <=> Runs(w)) /\ (pc'[w] = "pop" <=> pc[w] = "pop")
  BY <1>1, <1>3 DEF Runs, SubmitPC, Home
<1>6. Linking = {t}
  BY <1>1, OneHolder DEF Linking, HolderPC
<1>7. Linking' = {}
  BY <1>1, <1>3, <1>6, HomeKeeps DEF Linking
<1>8. Shape(s)'
  <2>1. Chain(s)'
    BY <1>1 DEF ListInv, Shape, Chain
  <2>2. TailFits(s)'
    BY <1>1, <1>6, <1>7 DEF ListInv, Shape, TailFits
  <2> QED
    BY <1>1, <2>1, <2>2 DEF ListInv, Shape
<1>9. Apart(s)'
  <2>1. \A u \in Threads : Pending(u) => node'[u] = node[u]
    BY <1>1 DEF Pending
  <2> QED
    BY <1>1, <1>4, <1>5, <2>1 DEF ListInv, Apart
<1>10. Remembers'
  BY <1>1, <1>5 DEF ListInv, Remembers
<1>11. AllOwned(s)'
  <2>1. \A u \in Threads : Pending(u) => node'[u] = node[u]
    BY <1>1 DEF Pending
  <2> QED
    BY <1>1, <1>4, <1>5, <2>1 DEF ListInv, AllOwned
<1> QED
  BY <1>8, <1>9, <1>10, <1>11 DEF ListInv

LEMMA TakeKeeps ==
    ASSUME PCType(pc), DataType, NEW s \in Seq(Nodes), ListInv(s),
           NEW w \in Workers, Check(w), pc'[w] = "pop"
    PROVE  ListInv(s)'
<1> USE ThreadFacts DEF PCType, DataType
<1>1. /\ pc[w] = "check" /\ pc' = [pc EXCEPT ![w] = "pop"] /\ head # None
      /\ task' = [task EXCEPT ![w] = head]
      /\ UNCHANGED <<head, tail, next, heap, node>>
  BY DEF Check, list
<1>2. \A u \in Threads : Pending(u)' <=> Pending(u)
  BY <1>1 DEF Pending
<1>3. \A v \in Workers : /\ Runs(v)' <=> Runs(v)
                         /\ pc'[v] = "pop" <=> pc[v] = "pop" \/ v = w
  BY <1>1 DEF Runs, SubmitPC
<1>4. ~ Runs(w)
  BY <1>1 DEF Runs, SubmitPC
<1>5. Linking' = Linking
  BY <1>1 DEF Linking
<1>6. Shape(s)'
  <2>1. Chain(s)'
    BY <1>1 DEF ListInv, Shape, Chain
  <2>2. TailFits(s)'
    BY <1>1, <1>5 DEF ListInv, Shape, TailFits
  <2> QED
    BY <1>1, <2>1, <2>2 DEF ListInv, Shape
<1>7. Apart(s)'
  BY <1>1, <1>2, <1>3, <1>4 DEF ListInv, Apart
<1>8. Remembers'
  BY <1>1, <1>3 DEF ListInv, Remembers
<1>9. AllOwned(s)'
  BY <1>1, <1>2, <1>3, <1>4 DEF ListInv, AllOwned
<1> QED
  BY <1>6, <1>7, <1>8, <1>9 DEF ListInv

LEMMA FinishKeeps ==
    ASSUME PCType(pc), DataType, NEW s \in Seq(Nodes), ListInv(s),
           NEW w \in Workers, Finish(w)
    PROVE  ListInv(s)'
<1> USE ThreadFacts DEF PCType, DataType
<1>1. /\ pc[w] = "run" /\ pc' = [pc EXCEPT ![w] = "lock"]
      /\ heap' = heap \ {task[w]}
      /\ task' = [task EXCEPT ![w] = None]
      /\ UNCHANGED <<head, tail, next, node>>
  BY DEF Finish, list
<1>2. \A u \in Threads : Pending(u)' <=> Pending(u)
  BY <1>1 DEF Pending
<1>3. \A v \in Workers : /\ Runs(v)' <=> Runs(v) /\ v # w
                         /\ pc'[v] = "pop" <=> pc[v] = "pop"
  BY <1>1 DEF Runs, SubmitPC
<1>4. Runs(w)
  BY <1>1 DEF Runs
<1>5. Linking' = Linking
  BY <1>1 DEF Linking
<1>6. Shape(s)'
  <2>1. Chain(s)'
    BY <1>1 DEF ListInv, Shape, Chain
  <2>2. TailFits(s)'
    BY <1>1, <1>5 DEF ListInv, Shape, TailFits
  <2>3. Elems(s) \subseteq heap'
    BY <1>1, <1>4 DEF ListInv, Shape, Apart
  <2> QED
    BY <2>1, <2>2, <2>3 DEF ListInv, Shape
<1>7. Apart(s)'
  BY <1>1, <1>2, <1>3, <1>4 DEF ListInv, Apart
<1>8. Remembers'
  BY <1>1, <1>3 DEF ListInv, Remembers
<1>9. AllOwned(s)'
  BY <1>1, <1>2, <1>3 DEF ListInv, AllOwned
<1> QED
  BY <1>6, <1>7, <1>8, <1>9 DEF ListInv

LEMMA LinkKeeps ==
    ASSUME PCType(pc), DataType, LockInv, NEW s \in Seq(Nodes), ListInv(s),
           NEW t \in Threads, SubmitLink(t), NEW r, r = Append(s, node[t])
    PROVE  r \in Seq(Nodes) /\ ListInv(r)'
<1> USE ThreadFacts DEF PCType, DataType
<1>0. Len(s) \in Nat
  BY SeqFacts
<1> PICK m \in Nat : m = Len(s)
  BY <1>0
<1> PICK n : n = node[t]
  OBVIOUS
<1>1. /\ pc[t] = "s_check" /\ pc' = [pc EXCEPT ![t] = "s_tail"]
      /\ UNCHANGED <<tail, heap, node, task>>
  BY DEF SubmitLink
<1>2. Pending(t) /\ n \in heap /\ n \in Nodes /\ n \notin Elems(s) /\ next[n] = None
  BY <1>1 DEF Pending, ListInv, Apart
<1>3. Linking = {} /\ Linking' = {t}
  BY <1>1, OneHolder DEF Linking, HolderPC
<1>4. /\ DOMAIN s = 1 .. m /\ (s = <<>> <=> m = 0)
      /\ \A j \in 1 .. m : s[j] \in Nodes
      /\ None \notin Nodes
  BY SeqFacts, PoolAssumption
<1>5. /\ r \in Seq(Nodes) /\ Len(r) = m + 1 /\ r[m + 1] = n
      /\ \A j \in 1 .. m : r[j] = s[j]
  BY <1>2, AppendProperties
<1>6. DOMAIN r = 1 .. m + 1 /\ r # <<>>
  <2>1. DOMAIN r = 1 .. Len(r) /\ (r = <<>> <=> Len(r) = 0)
    BY <1>5, SeqFacts
  <2> QED
    BY <2>1, <1>5
<1>7. Elems(r) = Elems(s) \cup {n}
  <2>1. \A x \in Elems(r) : x \in Elems(s) \/ x = n
    BY <1>4, <1>5, <1>6 DEF Elems
  <2>2. \A x \in Elems(s) : x \in Elems(r)
    BY <1>4, <1>5, <1>6 DEF Elems
  <2>3. n \in Elems(r)
    BY <1>5, <1>6 DEF Elems
  <2> QED
    BY <2>1, <2>2, <2>3
<1>8. tail = (IF m = 0 THEN None ELSE s[m])
  BY <1>3, <1>4 DEF ListInv, Shape, TailFits
<1>9. /\ head = (IF m = 0 THEN None ELSE s[1])
      /\ \A j \in 1 .. m : next[s[j]] = IF j = m THEN None ELSE s[j + 1]
      /\ \A j, l \in 1 .. m : s[j] = s[l] => j = l
  BY <1>4 DEF ListInv, Shape, Chain
<1>10. \A j \in 1 .. m : s[j] # n
  BY <1>2, <1>4 DEF Elems
<1>11. \A j, l \in 1 .. m + 1 : r[j] = r[l] => j = l
  BY <1>5, <1>9, <1>10
<1>12. /\ head' = r[1]
       /\ \A j \in 1 .. m + 1 : next'[r[j]] = IF j = m + 1 THEN None ELSE r[j + 1]
  <2>1. CASE m = 0
    <3>1. head' = n /\ next' = next
      BY <2>1, <1>8 DEF SubmitLink
    <3> QED
      BY <2>1, <3>1, <1>2, <1>5
  <2>2. CASE m # 0
    <3>1. head' = head /\ next' = [next EXCEPT ![s[m]] = n]
      BY <2>2, <1>4, <1>8 DEF SubmitLink
    <3>2. m \in 1 .. m /\ 1 \in 1 .. m
      BY <2>2
    <3>3. head' = r[1]
      BY <3>1, <3>2, <2>2, <1>5, <1>9
    <3>4. next'[n] = None
      BY <3>1, <3>2, <1>2, <1>10
    <3>5. next'[s[m]] = n
      BY <3>1, <3>2, <1>4
    <3>6. \A j \in 1 .. m : j # m => next'[s[j]] = s[j + 1] /\ j + 1 \in 1 .. m
      BY <3>1, <3>2, <1>4, <1>9
    <3> QED
      BY <3>3, <3>4, <3>5, <3>6, <1>5
  <2> QED
    BY <2>1, <2>2
<1>13. \A x \in Nodes : x # n /\ x \notin Elems(s) => next'[x] = next[x]
  <2>1. CASE m = 0
    BY <2>1, <1>8 DEF SubmitLink
  <2>2. CASE m # 0
    <3>1. tail \in Elems(s)
      BY <2>2, <1>4, <1>8 DEF Elems
    <3> QED
      BY <3>1 DEF SubmitLink
  <2> QED
    BY <2>1, <2>2
<1>14. Shape(r)'
  <2>1. Chain(r)'
    BY <1>5, <1>6, <1>11, <1>12 DEF Chain
  <2>2. TailFits(r)'
    <3>1. tail' = IF m + 1 = 1 THEN None ELSE r[m + 1 - 1]
      BY <1>1, <1>5, <1>8
    <3> QED
      BY <3>1, <1>1, <1>3, <1>5, <1>6 DEF TailFits
  <2>3. Elems(r) \subseteq heap'
    BY <1>1, <1>2, <1>7 DEF ListInv, Shape
  <2> QED
    BY <1>5, <2>1, <2>2, <2>3 DEF Shape
<1>15. \A u \in Threads : Pending(u)' <=> Pending(u) /\ u # t
  BY <1>1 DEF Pending
<1>16. \A w \in Workers : (Runs(w)' <=> Runs(w)) /\ (pc'[w] = "pop" <=> pc[w] = "pop")
  BY <1>1 DEF Runs, SubmitPC
<1>17. Apart(r)'
  <2>1. \A u \in Threads : Pending(u) /\ u # t =>
            /\ node[u] \in heap /\ node[u] \notin Elems(s) /\ node[u] # n
            /\ next[node[u]] = None
    BY <1>2 DEF ListInv, Apart
  <2>2. \A u \in Threads : Pending(u) /\ u # t =>
            node'[u] \in heap' /\ node'[u] \notin Elems(r) /\ next'[node'[u]] = None
    BY <2>1, <1>1, <1>7, <1>13
  <2>3. \A w \in Workers : Runs(w) => task'[w] \in heap' /\ task'[w] \notin Elems(r)
    BY <1>1, <1>2, <1>7 DEF ListInv, Apart
  <2> QED
    BY <2>2, <2>3, <1>1, <1>15, <1>16 DEF ListInv, Apart
<1>18. Remembers'
  <2>1. \A w \in Workers : pc[w] # "pop"
    BY <1>1, OneHolder DEF HolderPC
  <2> QED
    BY <2>1, <1>1, <1>16 DEF ListInv, Remembers
<1>19. AllOwned(r)'
  BY <1>1, <1>7, <1>15, <1>16 DEF ListInv, AllOwned
<1> QED
  BY <1>5, <1>14, <1>17, <1>18, <1>19 DEF ListInv

\* A worker about to dequeue remembers the first node of a list that is not
\* empty, and nobody is linking.
LEMMA PopKeeps ==
    ASSUME PCType(pc), DataType, LockInv, NEW s \in Seq(Nodes), ListInv(s),
           NEW w \in Workers, Pop(w), NEW r, r = Tail(s)
    PROVE  /\ s # <<>> /\ r \in Seq(Nodes) /\ ListInv(r)'
           /\ task[w] = s[1]
<1> USE ThreadFacts DEF PCType, DataType
<1>0. Len(s) \in Nat
  BY SeqFacts
<1> PICK m \in Nat : m = Len(s)
  BY <1>0
<1>1. /\ pc[w] = "pop" /\ pc' = [pc EXCEPT ![w] = "run"]
      /\ head' = next[task[w]]
      /\ tail' = IF head' = None THEN None ELSE tail
      /\ UNCHANGED <<next, heap, node, task>>
  BY DEF Pop
<1>2. /\ DOMAIN s = 1 .. m /\ (s = <<>> <=> m = 0)
      /\ \A j \in 1 .. m : s[j] \in Nodes
      /\ None \notin Nodes
  BY SeqFacts, PoolAssumption
<1>3. /\ head = (IF m = 0 THEN None ELSE s[1])
      /\ \A j \in 1 .. m : next[s[j]] = IF j = m THEN None ELSE s[j + 1]
      /\ \A j, l \in 1 .. m : s[j] = s[l] => j = l
  BY <1>2 DEF ListInv, Shape, Chain
<1>4. task[w] = head /\ head \in Nodes
  BY <1>1 DEF ListInv, Remembers
<1>5. m # 0 /\ s # <<>> /\ 1 \in 1 .. m /\ m \in 1 .. m /\ task[w] = s[1]
  BY <1>2, <1>3, <1>4
<1>6. /\ r \in Seq(Nodes) /\ Len(r) = m - 1
      /\ \A j \in 1 .. m - 1 : r[j] = s[j + 1]
  BY <1>5, HeadTailProperties
<1>7. DOMAIN r = 1 .. m - 1 /\ (r = <<>> <=> m = 1)
  <2>1. DOMAIN r = 1 .. Len(r) /\ (r = <<>> <=> Len(r) = 0)
    BY <1>6, SeqFacts
  <2> QED
    BY <2>1, <1>5, <1>6
<1>8. \A x : x \in Elems(s) <=> x \in Elems(r) \/ x = s[1]
  <2>1. \A x \in Elems(s) : x \in Elems(r) \/ x = s[1]
    <3> SUFFICES ASSUME NEW j \in 1 .. m, s[j] # s[1] PROVE s[j] \in Elems(r)
      BY <1>2 DEF Elems
    <3>1. j - 1 \in 1 .. m - 1 /\ r[j - 1] = s[j]
      BY <1>6
    <3> QED
      BY <3>1, <1>7 DEF Elems
  <2>2. \A x \in Elems(r) : x \in Elems(s)
    <3> SUFFICES ASSUME NEW j \in 1 .. m - 1 PROVE r[j] \in Elems(s)
      BY <1>7 DEF Elems
    <3>1. j + 1 \in 1 .. m /\ r[j] = s[j + 1]
      BY <1>6
    <3> QED
      BY <3>1, <1>2 DEF Elems
  <2>3. s[1] \in Elems(s)
    BY <1>2, <1>5 DEF Elems
  <2> QED
    BY <2>1, <2>2, <2>3
<1>9. s[1] \notin Elems(r)
  BY <1>3, <1>5, <1>6, <1>7 DEF Elems
<1>10. Linking = {} /\ Linking' = {}
  BY <1>1, OneHolder DEF Linking, HolderPC
<1>11. tail = s[m]
  BY <1>5, <1>10 DEF ListInv, Shape, TailFits
<1>12. /\ head' = IF m = 1 THEN None ELSE r[1]
       /\ tail' = IF m = 1 THEN None ELSE r[m - 1]
  <2>1. CASE m = 1
    BY <2>1, <1>1, <1>3, <1>5
  <2>2. CASE m # 1
    <3>1. 1 \in 1 .. m - 1 /\ m - 1 \in 1 .. m - 1 /\ 2 \in 1 .. m
      BY <2>2, <1>5
    <3>2. head' = s[2]
      BY <2>2, <1>1, <1>3, <1>5
    <3>3. head' # None
      BY <3>1, <3>2, <1>2
    <3>4. r[1] = s[2] /\ r[m - 1] = s[m]
      <4>1. r[1] = s[1 + 1] /\ r[m - 1] = s[m - 1 + 1]
        BY <3>1, <1>6
      <4>2. m - 1 + 1 = m /\ 1 + 1 = 2
        OBVIOUS
      <4> QED
        BY <4>1, <4>2
    <3> QED
      BY <2>2, <3>2, <3>3, <3>4, <1>1, <1>11
  <2> QED
    BY <2>1, <2>2
<1>13. Shape(r)'
  <2>1. \A j \in 1 .. m - 1 : next'[r[j]] = IF j = m - 1 THEN None ELSE r[j + 1]
    <3> SUFFICES ASSUME NEW j \in 1 .. m - 1
                 PROVE  next[s[j + 1]] = IF j = m - 1 THEN None ELSE r[j + 1]
      BY <1>1, <1>6
    <3>1. j + 1 \in 1 .. m /\ (j + 1 = m <=> j = m - 1)
      OBVIOUS
    <3>2. j # m - 1 => j + 1 \in 1 .. m - 1 /\ r[j + 1] = s[j + 1 + 1]
      BY <1>6
    <3> QED
      BY <3>1, <3>2, <1>3
  <2>2. \A j, l \in 1 .. m - 1 : r[j] = r[l] => j = l
    <3> SUFFICES ASSUME NEW j \in 1 .. m - 1, NEW l \in 1 .. m - 1, s[j + 1] = s[l + 1]
                 PROVE  j = l
      BY <1>6
    <3>1. j + 1 \in 1 .. m /\ l + 1 \in 1 .. m
      OBVIOUS
    <3>2. j + 1 = l + 1
      BY <3>1, <1>3
    <3> QED
      BY <3>2
  <2>3. Chain(r)'
    BY <1>6, <1>7, <1>12, <2>1, <2>2 DEF Chain
  <2>4. TailFits(r)'
    BY <1>6, <1>7, <1>10, <1>12 DEF TailFits
  <2>5. Elems(r) \subseteq heap'
    BY <1>1, <1>8 DEF ListInv, Shape
  <2> QED
    BY <1>6, <2>3, <2>4, <2>5 DEF Shape
<1>14. \A u \in Threads : Pending(u)' <=> Pending(u)
  BY <1>1 DEF Pending
<1>15. \A v \in Workers : /\ Runs(v)' <=> Runs(v) \/ v = w
                          /\ pc'[v] = "pop" <=> pc[v] = "pop" /\ v # w
  BY <1>1 DEF Runs, SubmitPC
<1>16. ~ Runs(w) /\ task[w] \in Elems(s) /\ task[w] \in heap
  BY <1>1, <1>5, <1>8 DEF Runs, SubmitPC, ListInv, Shape
<1>17. Apart(r)'
  <2>1. \A u \in Threads : Pending(u)' =>
            node'[u] \in heap' /\ node'[u] \notin Elems(r) /\ next'[node'[u]] = None
    BY <1>1, <1>8, <1>14 DEF ListInv, Apart
  <2>2. \A v \in Workers : Runs(v)' => task'[v] \in heap' /\ task'[v] \notin Elems(r)
    BY <1>1, <1>5, <1>8, <1>9, <1>15, <1>16 DEF ListInv, Apart
  <2> QED
    BY <2>1, <2>2, <1>1, <1>14, <1>15, <1>16 DEF ListInv, Apart
<1>18. Remembers'
  <2>1. \A v \in Workers : v # w => pc[v] # "pop"
    BY <1>1, OneHolder DEF HolderPC
  <2> QED
    BY <2>1, <1>1, <1>15 DEF ListInv, Remembers
<1>19. AllOwned(r)'
  BY <1>1, <1>5, <1>8, <1>14, <1>15 DEF ListInv, AllOwned
<1> QED
  BY <1>5, <1>6, <1>13, <1>17, <1>18, <1>19 DEF ListInv

-----------------------------------------------------------------------------
\* The end of the pool: a worker leaves only an empty queue, nobody fills it
\* any more, and destroy waits for every worker there ever was.
Late == {"api", "d_lock", "d_stop", "d_join", "d_drain"} \cup SubmitPC

EndInv ==
    /\ \A w \in Workers : pc[w] = "exit" => shutdown /\ head = None
    /\ pc[Main] \in Late => \A w \in Workers : pc[w] # "unborn"
    /\ pc[Main] = "create" => \A w \in Workers : w <= i => pc[w] # "unborn"
    /\ (\A w \in Workers : pc[w] = "unborn") => head = None

\* What a step can do to the things EndInv speaks of.
LEMMA Born ==
    ASSUME PCType(pc), DataType, [Next]_vars, NEW w \in Workers, pc[w] # "unborn"
    PROVE  pc'[w] # "unborn"
<1> USE ThreadFacts DEF PCType, DataType
<1>1. ASSUME NEW t \in Threads,
             Acquire(t) \/ SubmitAlloc(t) \/ SubmitLink(t) \/ SubmitRefuse(t)
      PROVE  pc'[w] # "unborn"
  BY <1>1, LockStepValues DEF Acquire, SubmitAlloc, SubmitLink, SubmitRefuse, Home
<1>2. ASSUME NEW t \in Threads, SubmitSignal(t) PROVE pc'[w] # "unborn"
  BY <1>2 DEF SubmitSignal, Moves, Home
<1>3. ASSUME NEW v \in Workers,
             SpuriousWakeup(v) \/ Check(v) \/ Pop(v) \/ Finish(v)
      PROVE  pc'[w] # "unborn"
  BY <1>3 DEF SpuriousWakeup, Check, Pop, Finish
<1>4. ASSUME CreateStep \/ Destroy \/ Join \/ DestroyFree PROVE pc'[w] # "unborn"
  BY <1>4 DEF CreateStep, Alloc, CreateThread, CreateDone, CreateFails,
              RollbackJoin, RollbackFree, Destroy, Join, DestroyFree
<1>5. ASSUME Shutdown PROVE pc'[w] # "unborn"
  BY <1>5 DEF Shutdown, Moves
<1>6. ASSUME UNCHANGED vars PROVE pc'[w] # "unborn"
  BY <1>6 DEF vars
<1> QED
  BY <1>1, <1>2, <1>3, <1>4, <1>5, <1>6 DEF Next, SubmitStep, WorkerStep, DestroyStep

LEMMA HeadStays ==
    ASSUME [Next]_vars
    PROVE  \/ head' = head
           \/ \E w \in Workers : Pop(w)
           \/ \E t \in Threads : SubmitLink(t)
BY DEF Next, SubmitStep, WorkerStep, CreateStep, DestroyStep, Acquire,
       SubmitAlloc, SubmitRefuse, SubmitSignal, SpuriousWakeup, Check, Finish,
       Alloc, CreateThread, CreateDone, CreateFails, RollbackJoin,
       RollbackFree, Destroy, Shutdown, Join, DestroyFree, vars, list

LEMMA ShutdownStays ==
    ASSUME [Next]_vars, shutdown
    PROVE  shutdown'
BY DEF Next, SubmitStep, WorkerStep, CreateStep, DestroyStep, Acquire,
       SubmitAlloc, SubmitRefuse, SubmitLink, SubmitSignal, SpuriousWakeup,
       Check, Pop, Finish, Alloc, CreateThread, CreateDone, CreateFails,
       RollbackJoin, RollbackFree, Destroy, Shutdown, Join, DestroyFree, vars

LEMMA Leaves ==
    ASSUME PCType(pc), DataType, [Next]_vars, NEW w \in Workers, pc'[w] = "exit"
    PROVE  pc[w] = "exit" \/ (shutdown /\ head = None /\ UNCHANGED <<shutdown, head>>)
<1> USE ThreadFacts DEF PCType, DataType
<1> DEFINE Goal == \/ pc[w] = "exit"
                   \/ shutdown /\ head = None /\ UNCHANGED <<shutdown, head>>
<1>1. ASSUME NEW t \in Threads,
             Acquire(t) \/ SubmitAlloc(t) \/ SubmitLink(t) \/ SubmitRefuse(t)
      PROVE  Goal
  BY <1>1, LockStepValues DEF Acquire, SubmitAlloc, SubmitLink, SubmitRefuse, Home
<1>2. ASSUME NEW t \in Threads, SubmitSignal(t) PROVE Goal
  BY <1>2 DEF SubmitSignal, Moves, Home
<1>3. ASSUME NEW v \in Workers, SpuriousWakeup(v) \/ Pop(v) \/ Finish(v) PROVE Goal
  BY <1>3 DEF SpuriousWakeup, Pop, Finish
<1>4. ASSUME NEW v \in Workers, Check(v) PROVE Goal
  BY <1>4 DEF Check, list
<1>5. ASSUME CreateStep \/ Destroy \/ Join \/ DestroyFree PROVE Goal
  BY <1>5 DEF CreateStep, Alloc, CreateThread, CreateDone, CreateFails,
              RollbackJoin, RollbackFree, Destroy, Join, DestroyFree
<1>6. ASSUME Shutdown PROVE Goal
  BY <1>6 DEF Shutdown, Moves
<1>7. ASSUME UNCHANGED vars PROVE Goal
  BY <1>7 DEF vars
<1> HIDE DEF Goal
<1>8. Goal
  BY <1>1, <1>2, <1>3, <1>4, <1>5, <1>6, <1>7 DEF Next, SubmitStep, WorkerStep, DestroyStep
<1> QED
  BY <1>8 DEF Goal

LEMMA MainGetsOn ==
    ASSUME PCType(pc), DataType, [Next]_vars
    PROVE  /\ pc'[Main] \in Late => pc[Main] \in Late \/ CreateDone
           /\ pc'[Main] = "create" => \/ pc[Main] = "create" /\ i' = i
                                      \/ CreateThread \/ Alloc
<1>1. CASE pc[Main] \in SubmitPC \cup {"api"}
  BY <1>1, MainAtApi DEF Late, SubmitPC
<1>2. CASE pc[Main] \notin SubmitPC \cup {"api"}
  <2>1. \/ pc'[Main] = pc[Main] /\ i' = i /\ mem' = mem
        \/ Acquire(Main)
        \/ CreateStep \/ DestroyStep
    BY <1>2, MainStays
  <2> USE ThreadFacts DEF PCType
  <2>2. CASE Acquire(Main)
    <3>1. \/ pc[Main] = "c_lock" /\ pc'[Main] = "c_stop"
          \/ pc[Main] = "d_lock" /\ pc'[Main] = "d_stop"
      BY <2>2, <1>2, LockStepValues DEF Acquire, SubmitPC, MainPC
    <3> QED
      BY <3>1 DEF Late, SubmitPC
  <2>3. CASE CreateStep
    <3>1. CASE CreateThread \/ CreateDone \/ Alloc
      BY <3>1 DEF CreateThread, CreateDone, Alloc, Late, SubmitPC, Workers
    <3>2. CASE CreateFails \/ RollbackJoin \/ RollbackFree
      BY <3>2 DEF CreateFails, RollbackJoin, RollbackFree, Late, SubmitPC
    <3> QED
      BY <2>3, <3>1, <3>2 DEF CreateStep
  <2>4. CASE DestroyStep
    BY <2>4 DEF DestroyStep, Shutdown, Join, DestroyFree, Moves, Late, SubmitPC
  <2> QED
    BY <2>1, <2>2, <2>3, <2>4
<1> QED
  BY <1>1, <1>2

LEMMA EndStepInv ==
    ASSUME PCType(pc), DataType, LifeInv, Remembers, EndInv, [Next]_vars
    PROVE  EndInv'
<1> USE PoolAssumption, ThreadFacts
<1>1. ASSUME NEW w \in Workers, pc'[w] = "exit" PROVE shutdown' /\ head' = None
  <2>1. CASE pc[w] = "exit"
    <3>1. shutdown /\ head = None
      BY <2>1 DEF EndInv
    <3>2. \A v \in Workers : ~ Pop(v)
      BY <3>1 DEF Pop, Remembers
    <3>3. \A t \in Threads : ~ SubmitLink(t)
      BY <3>1 DEF SubmitLink
    <3> QED
      BY <3>1, <3>2, <3>3, HeadStays, ShutdownStays
  <2>2. CASE pc[w] # "exit"
    BY <1>1, <2>2, Leaves
  <2> QED
    BY <2>1, <2>2
<1>2. ASSUME pc'[Main] \in Late, NEW w \in Workers PROVE pc'[w] # "unborn"
  <2>1. CASE pc[Main] \in Late
    BY <2>1, Born DEF EndInv
  <2>2. CASE CreateDone
    <3>1. pc[w] # "unborn"
      BY <2>2 DEF CreateDone, EndInv, Workers
    <3> QED
      BY <3>1, Born
  <2> QED
    BY <1>2, <2>1, <2>2, MainGetsOn
<1>3. ASSUME pc'[Main] = "create", NEW w \in Workers, w <= i' PROVE pc'[w] # "unborn"
  <2>1. CASE pc[Main] = "create" /\ i' = i
    BY <1>3, <2>1, Born DEF EndInv
  <2>2. CASE CreateThread
    <3>1. pc' = [pc EXCEPT ![i + 1] = "lock"] /\ i' = i + 1 /\ pc[Main] = "create"
          /\ i \in Nat
      BY <2>2 DEF CreateThread, DataType
    <3>2. CASE w = i + 1
      BY <3>1, <3>2 DEF PCType
    <3>3. CASE w # i + 1
      <4>1. w <= i
        BY <1>3, <3>1, <3>3
      <4> QED
        BY <3>1, <4>1, Born DEF EndInv
    <3> QED
      BY <3>2, <3>3
  <2>3. CASE Alloc
    <3>1. i' = 0
      BY <2>3 DEF Alloc, LifeInv
    <3> QED
      BY <1>3, <3>1 DEF Workers
  <2> QED
    BY <1>3, <2>1, <2>2, <2>3, MainGetsOn
<1>4. ASSUME \A w \in Workers : pc'[w] = "unborn" PROVE head' = None
  <2>1. \A w \in Workers : pc[w] = "unborn"
    BY <1>4, Born
  <2>2. \A v \in Workers : ~ Pop(v)
    BY <2>1 DEF Pop
  <2>3. \A t \in Threads : ~ SubmitLink(t)
    <3> SUFFICES ASSUME NEW t \in Threads, pc[t] = "s_check" PROVE FALSE
      BY DEF SubmitLink
    <3>1. t = Main
      BY <2>1
    <3>2. 1 \in Workers /\ pc[Main] \in Late
      BY <3>1 DEF Workers, Late, SubmitPC
    <3> QED
      BY <3>2, <2>1 DEF EndInv
  <2> QED
    BY <2>1, <2>2, <2>3, HeadStays DEF EndInv
<1> QED
  BY <1>1, <1>2, <1>3, <1>4 DEF EndInv

\* When destroy comes to its last loop, nothing is left.
LEMMA NothingLeft ==
    ASSUME PCType(pc), DataType, LifeInv, EndInv, NEW s \in Seq(Nodes), ListInv(s),
           pc[Main] = "d_drain"
    PROVE  head = None /\ heap = {} /\ s = <<>>
<1> USE PoolAssumption, ThreadFacts
<1>1. \A w \in Workers : pc[w] = "exit"
  BY DEF LifeInv, Gone, EndInv, Late
<1>2. 1 \in Workers
  BY DEF Workers
<1>3. head = None
  BY <1>1, <1>2 DEF EndInv
<1>4. s = <<>>
  <2> SUFFICES ASSUME s # <<>> PROVE FALSE
    OBVIOUS
  <2>1. s[1] \in Nodes
    BY SeqFacts
  <2> QED
    BY <1>3, <2>1 DEF ListInv, Shape, Chain
<1>5. \A t \in Threads : ~ Pending(t)
  BY <1>1 DEF Pending
<1>6. \A w \in Workers : ~ Runs(w)
  BY <1>1 DEF Runs, SubmitPC
<1>7. Elems(s) = {}
  BY <1>4, SeqFacts DEF Elems
<1> QED
  BY <1>3, <1>4, <1>5, <1>6, <1>7 DEF ListInv, AllOwned

LEMMA DrainKeeps ==
    ASSUME PCType(pc), DataType, LifeInv, EndInv, NEW s \in Seq(Nodes), ListInv(s),
           DestroyFree
    PROVE  ListInv(s)'
<1>1. heap = {} /\ pc[Main] = "d_drain"
  BY NothingLeft DEF DestroyFree
<1>2. UNCHANGED <<list, heap, node, task>> /\ pc' = [pc EXCEPT ![Main] = "done"]
  BY <1>1 DEF DestroyFree
<1>3. /\ \A t \in Threads : /\ Pending(t)' <=> Pending(t)
                            /\ pc'[t] = "s_tail" <=> pc[t] = "s_tail"
      /\ \A w \in Workers : /\ Runs(w)' <=> Runs(w)
                            /\ pc'[w] = "pop" <=> pc[w] = "pop"
  BY <1>1, <1>2, ThreadFacts DEF PCType, Pending, Runs, SubmitPC
<1> QED
  BY <1>2, <1>3, Frame

-----------------------------------------------------------------------------
\* The invariant of the queue.
PoolInv == IndInv /\ EndInv /\ QueueInv

LEMMA PoolInvInit == Init => PoolInv
<1> SUFFICES ASSUME Init PROVE EndInv /\ QueueInv
  BY IndInvInit DEF PoolInv
<1> USE PoolAssumption, ThreadFacts
<1>1. EndInv
  BY DEF Init, EndInv, Late, SubmitPC
<1>2. <<>> \in Seq(Nodes) /\ Len(<<>>) = 0 /\ DOMAIN <<>> = {}
  BY EmptySeq
<1>3. Linking = {}
  BY DEF Init, Linking
<1>4. Shape(<<>>)
  BY <1>2, <1>3 DEF Init, Shape, Chain, TailFits, Elems
<1>5. (\A t \in Threads : ~ Pending(t)) /\ (\A w \in Workers : ~ Runs(w))
  BY DEF Init, Pending, Runs, SubmitPC
<1>6. Apart(<<>>) /\ Remembers /\ AllOwned(<<>>)
  BY <1>5 DEF Init, Apart, Remembers, AllOwned
<1> QED
  BY <1>1, <1>2, <1>4, <1>6 DEF QueueInv, ListInv

\* What a step does to the queue.
LEMMA QueueStep ==
    ASSUME PCType(pc), DataType, LockInv, LifeInv, EndInv, [Next]_vars,
           NEW s \in Seq(Nodes), ListInv(s)
    PROVE  \/ ListInv(s)' /\ (\A w \in Workers : ~ Pop(w))
                          /\ (\A t \in Threads : ~ SubmitLink(t))
           \/ \E t \in Threads : /\ SubmitLink(t) /\ node[t] \in Nodes
                                 /\ \E r \in Seq(Nodes) :
                                       r = Append(s, node[t]) /\ ListInv(r)'
           \/ \E w \in Workers : /\ Pop(w) /\ s # <<>> /\ task[w] = s[1]
                                 /\ \E r \in Seq(Nodes) : r = Tail(s) /\ ListInv(r)'
<1>1. CASE \E t \in Threads : SubmitLink(t)
  <2>1. PICK t \in Threads : SubmitLink(t)
    BY <1>1
  <2>2. PICK r : r = Append(s, node[t])
    OBVIOUS
  <2>3. r \in Seq(Nodes) /\ ListInv(r)'
    BY <2>1, <2>2, LinkKeeps
  <2>4. node[t] \in Nodes
    BY <2>1 DEF SubmitLink, ListInv, Apart, Pending, DataType
  <2> QED
    BY <2>1, <2>2, <2>3, <2>4
<1>2. CASE \E w \in Workers : Pop(w)
  <2>1. PICK w \in Workers : Pop(w)
    BY <1>2
  <2>2. PICK r : r = Tail(s)
    OBVIOUS
  <2>3. s # <<>> /\ r \in Seq(Nodes) /\ ListInv(r)' /\ task[w] = s[1]
    BY <2>1, <2>2, PopKeeps
  <2> QED
    BY <2>1, <2>2, <2>3
<1>3. CASE (\A w \in Workers : ~ Pop(w)) /\ (\A t \in Threads : ~ SubmitLink(t))
  <2>1. \/ Elsewhere
        \/ \E t \in Threads : SubmitAlloc(t) \/ SubmitRefuse(t) \/ SubmitSignal(t)
        \/ \E w \in Workers : (Check(w) /\ pc'[w] = "pop") \/ Finish(w)
        \/ DestroyFree
    BY <1>3 DEF Elsewhere, Next, SubmitStep, WorkerStep, DestroyStep
  <2>2. ListInv(s)'
    BY <2>1, ElsewhereKeeps, AllocKeeps, RefuseKeeps, SignalKeeps, TakeKeeps,
       FinishKeeps, DrainKeeps
  <2> QED
    BY <1>3, <2>2
<1> QED
  BY <1>1, <1>2, <1>3

LEMMA PoolInvStep == PoolInv /\ [Next]_vars => PoolInv'
<1> SUFFICES ASSUME PoolInv, [Next]_vars PROVE PoolInv'
  OBVIOUS
<1>1. PCType(pc) /\ DataType /\ LockInv /\ LifeInv /\ EndInv
  BY DEF PoolInv, IndInv, TypeInv
<1>2. PICK s \in Seq(Nodes) : ListInv(s)
  BY DEF PoolInv, QueueInv
<1>3. QueueInv'
  BY <1>1, <1>2, QueueStep DEF QueueInv
<1>4. EndInv'
  BY <1>1, <1>2, EndStepInv DEF ListInv
<1>5. IndInv'
  BY IndInvStep DEF PoolInv
<1> QED
  BY <1>3, <1>4, <1>5 DEF PoolInv

-----------------------------------------------------------------------------
\* The queue is a real list of allocated nodes with the right tail, whatever
\* the threads do between the pointer updates.
THEOREM QueueStaysList == Spec => []QueueWellFormed
<1>1. PoolInv => QueueWellFormed
  <2> SUFFICES ASSUME PoolInv PROVE QueueWellFormed
    OBVIOUS
  <2>1. PICK s \in Seq(Nodes) : ListInv(s)
    BY DEF PoolInv, QueueInv
  <2>2. s \in Lists /\ Chain(s)
    BY <2>1, QueueIs DEF ListInv, Shape
  <2>3. \A j \in DOMAIN s : s[j] \in heap
    BY <2>1 DEF ListInv, Shape, Elems
  <2>4. Linking = {} => tail = TailOf(s)
    BY <2>1 DEF ListInv, Shape, TailFits, TailOf
  <2>5. ASSUME NEW t \in Linking
        PROVE  s # <<>> /\ s[Len(s)] = node[t] /\ tail = TailOf(SubSeq(s, 1, Len(s) - 1))
    <3>1. s # <<>> /\ s[Len(s)] = node[t] /\ tail = IF Len(s) = 1 THEN None ELSE s[Len(s) - 1]
      BY <2>1 DEF ListInv, Shape, TailFits
    <3>2. Len(s) \in Nat /\ Len(s) # 0
      BY <3>1, SeqFacts
    <3> PICK m \in Nat : m = Len(s) - 1 /\ m + 1 = Len(s)
      BY <3>2
    <3>3. \A j \in 1 .. m : s[j] \in Nodes
      BY SeqFacts
    <3>4. /\ SubSeq(s, 1, m) \in Seq(Nodes) /\ Len(SubSeq(s, 1, m)) = m
          /\ \A j \in 1 .. m - 1 + 1 : SubSeq(s, 1, m)[j] = s[1 + j - 1]
      BY <3>3, SubSeqProperties
    <3>5. m # 0 => SubSeq(s, 1, m)[m] = s[m]
      BY <3>4
    <3>6. SubSeq(s, 1, m) = <<>> <=> m = 0
      BY <3>4, SeqFacts
    <3> QED
      BY <3>1, <3>4, <3>5, <3>6 DEF TailOf
  <2> QED
    BY <2>2, <2>3, <2>4, <2>5 DEF QueueWellFormed
<1> QED
  BY <1>1, PoolInvInit, PoolInvStep, PTL DEF Spec

\* No node leaks, none has two owners.
THEOREM NodesOwned == Spec => []OwnershipExact
<1>1. PoolInv => OwnershipExact
  <2> SUFFICES ASSUME PoolInv PROVE OwnershipExact
    OBVIOUS
  <2>1. PICK s \in Seq(Nodes) : ListInv(s)
    BY DEF PoolInv, QueueInv
  <2>2. PCType(pc) /\ DataType /\ LockInv
    BY DEF PoolInv, IndInv, TypeInv
  <2>3. Queued = Elems(s)
    BY <2>1, QueueIs DEF ListInv, Shape, Queued, Elems
  <2>4. /\ BeingSubmitted = {node[t] : t \in {u \in Threads : Pending(u)}}
        /\ BeingRun = {task[w] : w \in {v \in Workers : Runs(v)}}
    BY DEF BeingSubmitted, BeingRun, Pending, Runs
  <2>5. heap = Queued \cup BeingSubmitted \cup BeingRun
    BY <2>1, <2>3, <2>4 DEF ListInv, Shape, Apart, AllOwned
  <2>6. /\ Queued \cap (BeingSubmitted \cup BeingRun) = {}
        /\ BeingSubmitted \cap BeingRun = {}
    BY <2>1, <2>3, <2>4 DEF ListInv, Apart
  <2>7. ASSUME NEW v \in Workers, NEW w \in Workers, v # w, task[v] = task[w],
               task[v] # None
        PROVE  FALSE
    <3>1. /\ Runs(v) \/ pc[v] = "pop"
          /\ Runs(w) \/ pc[w] = "pop"
      BY <2>1, <2>7 DEF ListInv, Remembers
    <3>2. pc[v] = "pop" \/ pc[w] = "pop" => task[v] = head /\ head \in Nodes
      BY <2>1, <2>7 DEF ListInv, Remembers
    <3>3. head \in Nodes => head \in Elems(s)
      BY <2>1, SeqFacts, PoolAssumption DEF ListInv, Shape, Chain, Elems
    <3>4. ~ (pc[v] = "pop" /\ pc[w] = "pop")
      BY <2>2, <2>7, OneHolder, ThreadFacts DEF HolderPC
    <3> QED
      BY <2>1, <2>7, <3>1, <3>2, <3>3, <3>4 DEF ListInv, Apart
  <2> QED
    BY <2>5, <2>6, <2>7 DEF OwnershipExact
<1> QED
  BY <1>1, PoolInvInit, PoolInvStep, PTL DEF Spec

\* Every accepted task has been run when destroy frees what is left.
THEOREM NothingToDrain == Spec => []DrainFindsNothing
<1>1. PoolInv => DrainFindsNothing
  BY NothingLeft DEF PoolInv, QueueInv, IndInv, TypeInv, DrainFindsNothing
<1> QED
  BY <1>1, PoolInvInit, PoolInvStep, PTL DEF Spec

-----------------------------------------------------------------------------
\* Nobody sleeps while the queue needs him.
WakeInv(s) ==
    Waiting # {} =>
        /\ ~shutdown
        /\ Len(s) - Cardinality(Linking) <= Cardinality(OnTheWay)

LEMMA WorkerSets ==
    ASSUME NEW S, S \subseteq Workers
    PROVE  IsFiniteSet(S) /\ Cardinality(S) \in Nat
<1>1. IsFiniteSet(Workers)
  BY FS_Interval, PoolAssumption DEF Workers
<1> QED
  BY <1>1, FS_Subset, FS_CardinalityType

LEMMA SetSizes ==
    /\ \A t : IsFiniteSet({t}) /\ Cardinality({t}) = 1
    /\ Cardinality({}) = 0
BY FS_Singleton, FS_EmptySet

\* A step that makes nobody sleep and takes nobody off the way.
LEMMA Calmer ==
    ASSUME NEW s \in Seq(Nodes), WakeInv(s), shutdown' = shutdown,
           Linking' = Linking, Waiting' \subseteq Waiting,
           OnTheWay \subseteq OnTheWay', OnTheWay' \subseteq Workers,
           Cardinality(Linking) \in Nat
    PROVE  WakeInv(s)'
<1>1. IsFiniteSet(OnTheWay') /\ Cardinality(OnTheWay') \in Nat
  BY WorkerSets
<1>2. Cardinality(OnTheWay) <= Cardinality(OnTheWay') /\ Cardinality(OnTheWay) \in Nat
  BY <1>1, FS_Subset, WorkerSets
<1>3. Len(s) \in Nat
  BY SeqFacts
<1> QED
  BY <1>1, <1>2, <1>3 DEF WakeInv

\* At most the owner of the mutex is linking.
LEMMA LinkingSize ==
    ASSUME LockInv
    PROVE  Cardinality(Linking) \in {0, 1}
<1>1. CASE Linking = {}
  BY <1>1, SetSizes
<1>2. CASE Linking # {}
  <2>1. PICK t \in Threads : pc[t] = "s_tail"
    BY <1>2 DEF Linking
  <2>2. Linking = {t}
    BY <2>1, OneHolder DEF Linking, HolderPC
  <2> QED
    BY <2>2, SetSizes
<1> QED
  BY <1>1, <1>2

LEMMA WakeElsewhere ==
    ASSUME PCType(pc), DataType, LockInv, LifeInv, NEW s \in Seq(Nodes),
           ListInv(s), WakeInv(s),
           \/ Elsewhere
           \/ \E t \in Threads : SubmitAlloc(t) \/ SubmitRefuse(t)
           \/ \E w \in Workers : (Check(w) /\ pc'[w] = "pop") \/ Finish(w)
           \/ DestroyFree
    PROVE  WakeInv(s)'
<1> USE ThreadFacts DEF PCType, DataType
<1> DEFINE Easy == /\ shutdown' = shutdown /\ Linking' = Linking
                   /\ Waiting' \subseteq Waiting /\ OnTheWay \subseteq OnTheWay'
<1>1. ASSUME Easy PROVE WakeInv(s)'
  <2>1. OnTheWay' \subseteq Workers
    BY DEF OnTheWay
  <2>2. Cardinality(Linking) \in Nat
    BY LinkingSize
  <2> QED
    BY <1>1, <2>1, <2>2, Calmer
<1>2. ASSUME shutdown' = shutdown,
             \A t \in Threads : pc'[t] = "s_tail" <=> pc[t] = "s_tail",
             \A w \in Workers : pc'[w] = "wait" => pc[w] = "wait",
             \A w \in Workers : pc[w] \in {"lock", "check", "pop"} =>
                                    pc'[w] \in {"lock", "check", "pop"}
      PROVE  Easy
  BY <1>2 DEF Linking, Waiting, OnTheWay
<1> HIDE DEF Easy
<1>3. ASSUME NEW t \in Threads, Acquire(t) PROVE Easy
  BY <1>3, <1>2, LockStepValues DEF Acquire
<1>4. ASSUME NEW t \in Threads, SubmitAlloc(t) \/ SubmitRefuse(t) PROVE Easy
  BY <1>4, <1>2 DEF SubmitAlloc, SubmitRefuse, Home
<1>5. ASSUME NEW w \in Workers,
             SpuriousWakeup(w) \/ (Check(w) /\ pc'[w] = "pop") \/ Finish(w)
      PROVE  Easy
  BY <1>5, <1>2 DEF SpuriousWakeup, Check, Finish
<1>6. ASSUME CreateThread PROVE Easy
  <2>1. i + 1 \in Workers /\ pc[i + 1] = "unborn"
    BY <1>6, PoolAssumption DEF CreateThread, Workers, LifeInv
  <2> QED
    BY <1>6, <1>2, <2>1 DEF CreateThread
<1>7. ASSUME Alloc \/ CreateDone \/ CreateFails \/ RollbackJoin \/ RollbackFree
             \/ Destroy \/ Join \/ DestroyFree
      PROVE  Easy
  BY <1>7, <1>2 DEF Alloc, CreateDone, CreateFails, RollbackJoin, RollbackFree,
                    Destroy, Join, DestroyFree
<1>8. ASSUME UNCHANGED vars PROVE Easy
  BY <1>8, <1>2 DEF vars
<1>9. ASSUME Shutdown PROVE WakeInv(s)'
  <2>1. Waiting' = {}
    BY <1>9 DEF Shutdown, Moves, Waiting
  <2> QED
    BY <2>1 DEF WakeInv
<1>10. ASSUME NEW w \in Workers, Check(w), pc'[w] # "pop" PROVE WakeInv(s)'
  <2>1. CASE MustSleep
    <3>1. head = None /\ ~shutdown /\ shutdown' = shutdown
      BY <1>10, <2>1 DEF Check
    <3>2. Len(s) = 0
      BY <3>1, SeqFacts, PoolAssumption DEF ListInv, Shape, Chain
    <3>3. Cardinality(Linking') \in Nat
      <4>1. Linking' = Linking
        BY <1>10, <2>1 DEF Check, Linking
      <4> QED
        BY <4>1, LinkingSize
    <3>4. Cardinality(OnTheWay') \in Nat
      BY WorkerSets DEF OnTheWay
    <3> QED
      BY <3>1, <3>2, <3>3, <3>4 DEF WakeInv
  <2>2. CASE ~ MustSleep
    <3>1. shutdown /\ pc' = [pc EXCEPT ![w] = "exit"]
      BY <1>10, <2>2 DEF Check
    <3>2. Waiting' = {}
      BY <3>1 DEF WakeInv, Waiting
    <3> QED
      BY <3>2 DEF WakeInv
  <2> QED
    BY <2>1, <2>2
<1> QED
  BY <1>1, <1>3, <1>4, <1>5, <1>6, <1>7, <1>8, <1>9, <1>10
  DEF Elsewhere, CreateStep

LEMMA WakeSignal ==
    ASSUME PCType(pc), DataType, LockInv, NEW s \in Seq(Nodes), WakeInv(s),
           NEW t \in Threads, SubmitSignal(t)
    PROVE  WakeInv(s)'
<1> USE ThreadFacts DEF PCType, DataType
<1>1. pc[t] = "s_tail" /\ shutdown' = shutdown
  BY DEF SubmitSignal
<1>2. PICK S \in Signalled : Moves(t, Home(t), S)
  BY DEF SubmitSignal
<1>3. Linking = {t}
  BY <1>1, OneHolder DEF Linking, HolderPC
<1>4. Linking' = {}
  BY <1>2, <1>3, HomeKeeps DEF Moves, Linking
<1>5. CASE Waiting = {}
  <2>1. S = {}
    BY <1>2, <1>5 DEF Signalled
  <2>2. Waiting' = {}
    BY <1>2, <1>5, <2>1 DEF Moves, Waiting, Home
  <2> QED
    BY <2>2 DEF WakeInv
<1>6. CASE Waiting # {}
  <2>1. PICK v \in Waiting : S = {v}
    BY <1>2, <1>6 DEF Signalled
  <2>2. v \in Workers /\ pc[v] = "wait" /\ v # t
    BY <2>1, <1>1 DEF Waiting
  <2>3. OnTheWay' = OnTheWay \cup {v}
    <3>1. pc'[v] = "lock"
      BY <1>2, <2>1, <2>2 DEF Moves
    <3>2. \A w \in Workers : w # v /\ w # t => pc'[w] = pc[w]
      BY <1>2, <2>1 DEF Moves
    <3>3. pc'[t] \notin {"lock", "check", "pop"}
      BY <1>2 DEF Moves, Home
    <3> QED
      BY <3>1, <3>2, <3>3, <1>1, <2>2 DEF OnTheWay
  <2>4. v \notin OnTheWay /\ IsFiniteSet(OnTheWay) /\ Cardinality(OnTheWay) \in Nat
    BY <2>2, WorkerSets DEF OnTheWay
  <2>5. Cardinality(OnTheWay') = Cardinality(OnTheWay) + 1
    BY <2>3, <2>4, FS_AddElement
  <2>6. Len(s) \in Nat /\ Cardinality(Linking) = 1 /\ Cardinality(Linking') = 0
    BY <1>3, <1>4, SeqFacts, SetSizes
  <2>7. ~shutdown /\ Len(s) - 1 <= Cardinality(OnTheWay)
    BY <1>6, <2>6 DEF WakeInv
  <2> QED
    BY <1>1, <2>4, <2>5, <2>6, <2>7 DEF WakeInv
<1> QED
  BY <1>5, <1>6

LEMMA WakeLink ==
    ASSUME PCType(pc), DataType, LockInv, NEW s \in Seq(Nodes), WakeInv(s),
           NEW t \in Threads, SubmitLink(t), node[t] \in Nodes,
           NEW r, r = Append(s, node[t])
    PROVE  WakeInv(r)'
<1> USE ThreadFacts DEF PCType, DataType
<1>1. /\ pc[t] = "s_check" /\ pc' = [pc EXCEPT ![t] = "s_tail"]
      /\ shutdown' = shutdown
  BY DEF SubmitLink
<1>2. Linking = {} /\ Linking' = {t}
  BY <1>1, OneHolder DEF Linking, HolderPC
<1>3. Waiting' = Waiting /\ OnTheWay' = OnTheWay
  BY <1>1 DEF Waiting, OnTheWay
<1>4. Len(r) = Len(s) + 1 /\ Len(s) \in Nat
  BY AppendProperties, SeqFacts
<1>5. Cardinality(Linking) = 0 /\ Cardinality(Linking') = 1
  BY <1>2, SetSizes
<1>6. Cardinality(OnTheWay) \in Nat
  BY WorkerSets DEF OnTheWay
<1> QED
  BY <1>1, <1>3, <1>4, <1>5, <1>6 DEF WakeInv

LEMMA WakePop ==
    ASSUME PCType(pc), DataType, LockInv, NEW s \in Seq(Nodes), WakeInv(s),
           NEW w \in Workers, Pop(w), s # <<>>, NEW r, r = Tail(s)
    PROVE  WakeInv(r)'
<1> USE ThreadFacts DEF PCType, DataType
<1>1. pc[w] = "pop" /\ pc' = [pc EXCEPT ![w] = "run"] /\ shutdown' = shutdown
  BY DEF Pop
<1>2. Linking = {} /\ Linking' = {}
  BY <1>1, OneHolder DEF Linking, HolderPC
<1>3. Waiting' = Waiting /\ OnTheWay' = OnTheWay \ {w} /\ w \in OnTheWay
  BY <1>1 DEF Waiting, OnTheWay
<1>4. Len(r) = Len(s) - 1 /\ Len(s) \in Nat
  BY HeadTailProperties, SeqFacts
<1>5. Cardinality(Linking) = 0 /\ Cardinality(Linking') = 0
  BY <1>2, SetSizes
<1>6. IsFiniteSet(OnTheWay) /\ Cardinality(OnTheWay) \in Nat
  BY WorkerSets DEF OnTheWay
<1>7. Cardinality(OnTheWay') = Cardinality(OnTheWay) - 1
  BY <1>3, <1>6, FS_RemoveElement
<1> QED
  BY <1>1, <1>3, <1>4, <1>5, <1>6, <1>7 DEF WakeInv

AwakeInv == WakeInv(Queue)

LEMMA QueueUnique == \A s \in Seq(Nodes) : Chain(s) => Queue = s
BY QueueIs

LEMMA QueueUniqueNext == \A s \in Seq(Nodes) : Chain(s)' => Queue' = s
<1>1. (\A s \in Seq(Nodes) : Chain(s) => Queue = s)'
  BY QueueUnique, PTL
<1> QED
  BY <1>1

LEMMA AwakeStep ==
    ASSUME PoolInv, AwakeInv, [Next]_vars
    PROVE  AwakeInv'
<1>1. PCType(pc) /\ DataType /\ LockInv /\ LifeInv /\ EndInv
  BY DEF PoolInv, IndInv, TypeInv
<1>2. PICK s \in Seq(Nodes) : ListInv(s)
  BY DEF PoolInv, QueueInv
<1>3. WakeInv(s)
  BY <1>2, QueueUnique DEF ListInv, Shape, AwakeInv
<1>4. \E r \in Seq(Nodes) : ListInv(r)' /\ WakeInv(r)'
  <2>1. CASE /\ ListInv(s)'
             /\ \A w \in Workers : ~ Pop(w)
             /\ \A t \in Threads : ~ SubmitLink(t)
    <3>1. \/ Elsewhere
          \/ \E t \in Threads : SubmitAlloc(t) \/ SubmitRefuse(t) \/ SubmitSignal(t)
          \/ \E w \in Workers : (Check(w) /\ pc'[w] = "pop") \/ Finish(w)
          \/ DestroyFree
      BY <2>1 DEF Elsewhere, Next, SubmitStep, WorkerStep, DestroyStep
    <3>2. WakeInv(s)'
      BY <3>1, <1>1, <1>2, <1>3, WakeElsewhere, WakeSignal
    <3> QED
      BY <2>1, <3>2
  <2>2. ASSUME NEW t \in Threads, SubmitLink(t), node[t] \in Nodes,
               NEW r \in Seq(Nodes), r = Append(s, node[t]), ListInv(r)'
        PROVE  \E q \in Seq(Nodes) : ListInv(q)' /\ WakeInv(q)'
    <3>1. WakeInv(r)'
      BY <2>2, <1>1, <1>3, WakeLink
    <3> QED
      BY <2>2, <3>1
  <2>3. ASSUME NEW w \in Workers, Pop(w), s # <<>>,
               NEW r \in Seq(Nodes), r = Tail(s), ListInv(r)'
        PROVE  \E q \in Seq(Nodes) : ListInv(q)' /\ WakeInv(q)'
    <3>1. WakeInv(r)'
      BY <2>3, <1>1, <1>3, WakePop
    <3> QED
      BY <2>3, <3>1
  <2>4. \/ ListInv(s)' /\ (\A w \in Workers : ~ Pop(w))
                       /\ (\A t \in Threads : ~ SubmitLink(t))
        \/ \E t \in Threads : /\ SubmitLink(t) /\ node[t] \in Nodes
                              /\ \E r \in Seq(Nodes) :
                                    r = Append(s, node[t]) /\ ListInv(r)'
        \/ \E w \in Workers : /\ Pop(w) /\ s # <<>> /\ task[w] = s[1]
                              /\ \E r \in Seq(Nodes) : r = Tail(s) /\ ListInv(r)'
    BY <1>1, <1>2, QueueStep
  <2> QED
    BY <2>1, <2>2, <2>3, <2>4
<1>5. PICK r \in Seq(Nodes) : ListInv(r)' /\ WakeInv(r)'
  BY <1>4
<1>6. Queue' = r
  BY <1>5, QueueUniqueNext DEF ListInv, Shape
<1> QED
  BY <1>5, <1>6 DEF AwakeInv, WakeInv

\* No wakeup is lost: while a worker sleeps, every task on the queue has a
\* worker of its own on its way to it, and the shutdown has not begun.
THEOREM WakeupsSuffice == Spec => []NoLostWakeup
<1>1. Init => AwakeInv
  BY ThreadFacts DEF Init, AwakeInv, WakeInv, Waiting
<1>2. AwakeInv => NoLostWakeup
  BY DEF AwakeInv, WakeInv, NoLostWakeup
<1>3. PoolInv /\ AwakeInv /\ [Next]_vars => AwakeInv'
  BY AwakeStep
<1> QED
  BY <1>1, <1>2, <1>3, PoolInvInit, PoolInvStep, PTL DEF Spec

-----------------------------------------------------------------------------
\* Once main joins, shutdown is set; and the rollback joins only workers that
\* were created.
Failing == {"c_lock", "c_stop", "c_join"}
StopInv ==
    /\ pc[Main] \in {"c_join", "d_join"} => shutdown
    /\ pc[Main] \in Failing => \A w \in Workers : w <= i => pc[w] # "unborn"

LEMMA StopStep ==
    ASSUME PCType(pc), DataType, EndInv, StopInv, [Next]_vars
    PROVE  StopInv'
<1> USE ThreadFacts DEF PCType
<1>1. CASE pc[Main] \in SubmitPC \cup {"api"}
  BY <1>1, MainAtApi DEF StopInv, Failing, SubmitPC
<1>2. CASE pc'[Main] = pc[Main] /\ i' = i
  BY <1>2, Born, ShutdownStays DEF StopInv
<1>3. CASE Acquire(Main)
  <2>1. \/ pc[Main] = "c_lock" /\ pc'[Main] = "c_stop"
        \/ pc'[Main] \notin Failing \cup {"d_join"}
    BY <1>3, LockStepValues DEF Acquire, Failing
  <2>2. i' = i
    BY <1>3 DEF Acquire
  <2> QED
    BY <2>1, <2>2, Born DEF StopInv, Failing
<1>4. CASE CreateFails
  <2>1. pc[Main] = "create" /\ pc'[Main] = "c_lock" /\ i' = i
    BY <1>4 DEF CreateFails
  <2> QED
    BY <2>1, Born DEF StopInv, EndInv
<1>5. CASE RollbackJoin
  <2>1. pc' = pc /\ shutdown' = shutdown /\ i' = i - 1
    BY <1>5 DEF RollbackJoin
  <2>2. \A w \in Workers : w <= i' => w <= i
    BY <2>1 DEF DataType, Workers
  <2> QED
    BY <2>1, <2>2 DEF StopInv
<1>6. CASE Alloc \/ CreateThread \/ CreateDone \/ RollbackFree \/ DestroyFree
  BY <1>6 DEF Alloc, CreateThread, CreateDone, RollbackFree, DestroyFree,
              StopInv, Failing, Workers
<1>7. CASE Shutdown
  <2>1. shutdown' /\ (pc[Main] = "c_stop" => i' = i)
    BY <1>7 DEF Shutdown
  <2>2. \/ pc[Main] = "c_stop" /\ pc'[Main] = "c_join"
        \/ pc'[Main] = "d_join"
    BY <1>7 DEF Shutdown, Moves
  <2> QED
    BY <2>1, <2>2, Born DEF StopInv, Failing
<1>8. CASE Join
  <2>1. pc'[Main] \in {"d_join", "d_drain"} /\ pc[Main] = "d_join"
    BY <1>8 DEF Join
  <2> QED
    BY <1>8, <2>1, ShutdownStays DEF StopInv, Failing
<1> QED
  BY <1>1, <1>2, <1>3, <1>4, <1>5, <1>6, <1>7, <1>8, MainStays
  DEF CreateStep, DestroyStep

\* When nobody holds the mutex, a worker that was created and does not sleep
\* can go on or has left.
LEMMA BornGoesOn ==
    ASSUME PCType(pc), LockInv, lock = None,
           NEW w \in Workers, pc[w] \notin {"unborn", "wait"}
    PROVE  CanRun(w) \/ pc[w] = "exit"
<1>1. pc[w] \notin HolderPC
  BY PoolAssumption, ThreadFacts DEF LockInv
<1>2. pc[w] \in {"lock", "run", "exit", "s_lock"}
  BY <1>1 DEF PCType, WorkerPC, SubmitPC, HolderPC
<1> QED
  BY <1>2, LockStepValues DEF CanRun

LEMMA SomebodyRuns ==
    ASSUME PoolInv, AwakeInv, StopInv, Unfinished
    PROVE  \E t \in Threads : CanRun(t)
<1> USE ThreadFacts, PoolAssumption
<1>1. PCType(pc) /\ DataType /\ LockInv /\ LifeInv /\ EndInv
  BY DEF PoolInv, IndInv, TypeInv
<1>2. CASE lock # None
  <2>1. lock \in Threads /\ pc[lock] \in HolderPC
    BY <1>1, <1>2 DEF DataType, LockInv
  <2> QED
    BY <2>1 DEF CanRun, HolderPC
<1>3. CASE lock = None /\ \E t \in Threads : pc[t] \in SubmitPC
  <2>1. PICK t \in Threads : pc[t] \in SubmitPC
    BY <1>3
  <2> QED
    BY <1>3, <2>1, LockStepValues DEF CanRun, SubmitPC
<1>4. CASE lock = None /\ shutdown /\ pc[Main] \in {"c_join", "d_join"}
  <2>1. Waiting = {}
    BY <1>4 DEF AwakeInv, WakeInv
  <2>2. \A w \in Workers : pc[w] # "wait"
    BY <2>1 DEF Waiting
  <2>3. CASE pc[Main] = "c_join" /\ i # 0
    <3>1. i \in Workers /\ pc[i] # "unborn"
      BY <1>1, <2>3 DEF DataType, StopInv, Failing, Workers
    <3>2. CanRun(i) \/ pc[i] = "exit"
      BY <1>1, <1>4, <2>2, <3>1, BornGoesOn
    <3> QED
      BY <2>3, <3>1, <3>2 DEF CanRun
  <2>4. CASE pc[Main] = "d_join" /\ i # N
    <3>1. i + 1 \in Workers
      BY <1>1, <2>4 DEF DataType, Workers
    <3>2. pc[i + 1] # "unborn"
      BY <1>1, <2>4, <3>1 DEF EndInv, Late
    <3>3. CanRun(i + 1) \/ pc[i + 1] = "exit"
      BY <1>1, <1>4, <2>2, <3>1, <3>2, BornGoesOn
    <3> QED
      BY <2>4, <3>1, <3>3 DEF CanRun
  <2> QED
    BY <1>4, <2>3, <2>4 DEF CanRun
<1>5. CASE lock = None /\ pc[Main] \in MainPC
                          \ {"api", "failed", "done", "c_join", "d_join"}
  <2>1. pc[Main] \notin HolderPC
    BY <1>1, <1>5 DEF LockInv
  <2>2. pc[Main] \in {"alloc", "create", "c_lock", "d_lock", "d_drain"}
    BY <1>5, <2>1 DEF MainPC, HolderPC
  <2> QED
    BY <1>5, <2>2, LockStepValues DEF CanRun
<1>6. CASE lock = None /\ head # None
  <2>1. \A w \in Workers : pc[w] # "exit"
    BY <1>1, <1>6 DEF EndInv
  <2>2. PICK w \in Workers : pc[w] # "unborn"
    BY <1>1, <1>6 DEF EndInv
  <2>3. CASE pc[w] # "wait"
    BY <1>1, <1>6, <2>1, <2>2, <2>3, BornGoesOn
  <2>4. CASE pc[w] = "wait"
    <3>1. Waiting # {}
      BY <2>4 DEF Waiting
    <3>2. PICK s \in Seq(Nodes) : ListInv(s)
      BY DEF PoolInv, QueueInv
    <3>3. Queue = s /\ Len(s) \in Nat /\ Len(s) # 0
      <4>1. Queue = s
        BY <3>2, QueueUnique DEF ListInv, Shape
      <4>2. s # <<>>
        BY <1>6, <3>2 DEF ListInv, Shape, Chain
      <4> QED
        BY <4>1, <4>2, SeqFacts
    <3>4. Linking = {}
      <4>1. \A t \in Threads : pc[t] # "s_tail"
        BY <1>1, <1>6 DEF LockInv, HolderPC
      <4> QED
        BY <4>1 DEF Linking
    <3>5. Cardinality(OnTheWay) # 0
      <4>1. Cardinality(Linking) = 0
        BY <3>4, SetSizes
      <4> QED
        BY <3>1, <3>3, <4>1 DEF AwakeInv, WakeInv
    <3>6. PICK v \in Workers : v \in OnTheWay
      BY <3>5, SetSizes DEF OnTheWay
    <3> QED
      BY <1>1, <1>6, <2>1, <3>6, BornGoesOn DEF OnTheWay
  <2> QED
    BY <2>3, <2>4
<1> QED
  BY <1>2, <1>3, <1>4, <1>5, <1>6 DEF Unfinished, StopInv

\* Nobody waits in a circle: the pool never comes to a halt while a call is
\* under way or a task is queued.
THEOREM NobodyIsStuck == Spec => []NobodyStuck
<1>1. Init => AwakeInv /\ StopInv
  BY ThreadFacts DEF Init, AwakeInv, WakeInv, Waiting, StopInv, Failing
<1>2. PoolInv /\ AwakeInv /\ StopInv => NobodyStuck
  BY SomebodyRuns DEF NobodyStuck
<1>3. PoolInv /\ AwakeInv /\ [Next]_vars => AwakeInv'
  BY AwakeStep
<1>4. PoolInv /\ StopInv /\ [Next]_vars => StopInv'
  BY StopStep DEF PoolInv, IndInv, TypeInv
<1> QED
  BY <1>1, <1>2, <1>3, <1>4, PoolInvInit, PoolInvStep, PTL DEF Spec

-----------------------------------------------------------------------------
(***************************************************************************)
(* ThreadPool implements TaskPool: its initial state is one of TaskPool,   *)
(* and every step is a step of TaskPool or changes nothing that TaskPool   *)
(* speaks of.                                                              *)
(***************************************************************************)
\* The refinement mapping of ThreadPool, by name.
Running == [w \in Workers |-> IF Runs(w) THEN task[w] ELSE None]
Closed == mem = "freed" \/ pc[Main] = "failed"
Phase == IF Closed THEN "closed" ELSE IF shutdown THEN "closing" ELSE "open"

\* The actions of TaskPool under the mapping.
LEMMA AbstractActions ==
    /\ Abstract!PoolInit <=> /\ Queue = <<>>
                             /\ Running = [w \in Workers |-> None]
                             /\ Phase = "open"
    /\ \A n : Abstract!Accept(n) <=> /\ Phase = "open"
                                     /\ Queue' = Append(Queue, n)
                                     /\ Running' = Running /\ Phase' = Phase
    /\ \A w : Abstract!Start(w) <=>
          /\ Phase # "closed" /\ Running[w] = None /\ Queue # <<>>
          /\ Running' = [Running EXCEPT ![w] = Head(Queue)]
          /\ Queue' = Tail(Queue) /\ Phase' = Phase
    /\ \A w : Abstract!Finish(w) <=>
          /\ Running[w] # None /\ Running' = [Running EXCEPT ![w] = None]
          /\ Queue' = Queue /\ Phase' = Phase
    /\ Abstract!Close <=> /\ Phase = "open" /\ Phase' = "closing"
                          /\ Queue' = Queue /\ Running' = Running
    /\ Abstract!Vanish <=> /\ Phase # "closed" /\ Queue = <<>>
                           /\ \A w \in Workers : Running[w] = None
                           /\ Phase' = "closed"
                           /\ Queue' = Queue /\ Running' = Running
    /\ UNCHANGED Abstract!poolVars <=>
          Queue' = Queue /\ Running' = Running /\ Phase' = Phase
BY DEF Abstract!PoolInit, Abstract!Accept, Abstract!Start, Abstract!Finish,
       Abstract!Close, Abstract!Vanish, Abstract!Quiet, Abstract!Idle,
       Abstract!poolVars, Running, Runs, Phase, Closed

-----------------------------------------------------------------------------
Quiescent == /\ Queue' = Queue /\ Running' = Running /\ Phase' = Phase

LEMMA RunningSame ==
    ASSUME \A w \in Workers : /\ Runs(w)' <=> Runs(w)
                              /\ Runs(w) => task'[w] = task[w]
    PROVE  Running' = Running
BY DEF Running

LEMMA PhaseSame ==
    ASSUME mem' = mem, shutdown' = shutdown,
           pc'[Main] = "failed" <=> pc[Main] = "failed"
    PROVE  Phase' = Phase
BY DEF Phase, Closed

\* A queue without a head is empty; a thread inside the pool keeps it open.
LEMMA NoHead == PoolInv /\ head = None => Queue = <<>>
<1> SUFFICES ASSUME PoolInv, head = None PROVE Queue = <<>>
  OBVIOUS
<1>1. PICK s \in Seq(Nodes) : ListInv(s)
  BY DEF PoolInv, QueueInv
<1>2. Queue = s
  BY <1>1, QueueUnique DEF ListInv, Shape
<1>3. s = <<>>
  BY <1>1, SeqFacts, PoolAssumption DEF ListInv, Shape, Chain
<1> QED
  BY <1>2, <1>3

LEMMA InsideMeansOpen ==
    ASSUME PoolInv, NEW w \in Workers, ~ Gone(w)
    PROVE  ~ Closed
BY DEF PoolInv, IndInv, LifeInv, Closed

LEMMA MainInsideMeansOpen ==
    ASSUME PoolInv, pc[Main] \notin {"done", "failed"}
    PROVE  ~ Closed
BY DEF PoolInv, IndInv, LifeInv, Closed

\* Steps that TaskPool does not see.
LEMMA UnseenSteps ==
    ASSUME PoolInv, Queue' = Queue,
           \/ \E t \in Threads : Acquire(t) \/ SubmitAlloc(t) \/ SubmitRefuse(t)
                                  \/ SubmitSignal(t)
           \/ \E w \in Workers : SpuriousWakeup(w) \/ Check(w)
           \/ Alloc /\ pc'[Main] = "create"
           \/ CreateThread \/ CreateDone \/ CreateFails \/ RollbackJoin
           \/ Destroy \/ Join \/ UNCHANGED vars
    PROVE  Quiescent
<1>1. PCType(pc) /\ DataType /\ LifeInv
  BY DEF PoolInv, IndInv, TypeInv
<1> USE ThreadFacts DEF PCType, DataType
<1> DEFINE Calm == /\ mem' = mem /\ shutdown' = shutdown
                   /\ pc'[Main] = "failed" <=> pc[Main] = "failed"
                   /\ \A w \in Workers : /\ Runs(w)' <=> Runs(w)
                                         /\ Runs(w) => task'[w] = task[w]
<1>2. SUFFICES Calm \/ (Running' = Running /\ Phase' = Phase)
  BY RunningSame, PhaseSame DEF Quiescent
<1> USE <1>1 DEF Runs, SubmitPC
<1>3. ASSUME NEW t \in Threads, Acquire(t) PROVE Calm
  BY <1>3, LockStepValues DEF Acquire
<1>4. ASSUME NEW t \in Threads, SubmitAlloc(t) \/ SubmitRefuse(t) PROVE Calm
  BY <1>4 DEF SubmitAlloc, SubmitRefuse, Home
<1>5. ASSUME NEW t \in Threads, SubmitSignal(t) PROVE Calm
  <2>1. PICK S \in Signalled : Moves(t, Home(t), S)
    BY <1>5 DEF SubmitSignal
  <2>2. /\ pc[t] = "s_tail" /\ pc'[t] = Home(t)
        /\ \A u \in Threads : u # t =>
              pc'[u] = pc[u] \/ (pc[u] = "wait" /\ pc'[u] = "lock")
    BY <1>5, <2>1 DEF SubmitSignal, Moves, Signalled, Waiting
  <2>3. UNCHANGED <<mem, shutdown, task>>
    BY <1>5 DEF SubmitSignal
  <2> QED
    BY <2>2, <2>3 DEF Home
<1>6. ASSUME NEW w \in Workers, SpuriousWakeup(w) \/ Check(w) PROVE Calm
  BY <1>6 DEF SpuriousWakeup, Check
<1>7. ASSUME Alloc, pc'[Main] = "create" PROVE Running' = Running /\ Phase' = Phase
  <2>1. mem = "none" /\ pc[Main] = "alloc" /\ mem' \in {"none", "live"} /\ shutdown' = shutdown
    BY <1>7 DEF Alloc, LifeInv
  <2>2. \A w \in Workers : (Runs(w)' <=> Runs(w)) /\ task'[w] = task[w]
    BY <1>7 DEF Alloc
  <2>3. Phase' = Phase
    BY <2>1, <1>7 DEF Phase, Closed
  <2> QED
    BY <2>2, <2>3, RunningSame
<1>8. ASSUME CreateThread PROVE Calm
  <2>1. i + 1 \in Workers /\ pc[i + 1] = "unborn"
    BY <1>8, PoolAssumption DEF CreateThread, MoreToCreate, Workers, LifeInv
  <2> QED
    BY <1>8, <2>1 DEF CreateThread
<1>9. ASSUME CreateDone \/ CreateFails \/ RollbackJoin \/ Destroy \/ Join PROVE Calm
  BY <1>9 DEF CreateDone, CreateFails, RollbackJoin, Destroy, Join
<1>10. ASSUME UNCHANGED vars PROVE Calm
  BY <1>10 DEF vars
<1> HIDE DEF Calm
<1> QED
  BY <1>3, <1>4, <1>5, <1>6, <1>7, <1>8, <1>9, <1>10

LEMMA LinkAccepts ==
    ASSUME PoolInv, NEW t \in Threads, SubmitLink(t),
           Queue' = Append(Queue, node[t])
    PROVE  Abstract!Accept(node[t])
<1>1. PCType(pc) /\ DataType /\ LifeInv
  BY DEF PoolInv, IndInv, TypeInv
<1> USE ThreadFacts DEF PCType, DataType
<1>2. /\ pc[t] = "s_check" /\ pc' = [pc EXCEPT ![t] = "s_tail"] /\ ~shutdown
      /\ UNCHANGED <<shutdown, mem, task>>
  BY DEF SubmitLink, Accepting
<1>3. ~ Closed
  BY <1>2, InsideMeansOpen, MainInsideMeansOpen DEF Gone
<1>4. Phase = "open" /\ Phase' = Phase
  BY <1>1, <1>2, <1>3, PhaseSame DEF Phase
<1>5. Running' = Running
  BY <1>1, <1>2, RunningSame DEF Runs, SubmitPC
<1> QED
  BY <1>4, <1>5, AbstractActions

LEMMA PopStarts ==
    ASSUME PoolInv, NEW w \in Workers, Pop(w), Queue # <<>>,
           task[w] = Head(Queue), Queue' = Tail(Queue)
    PROVE  Abstract!Start(w)
<1>1. PCType(pc) /\ DataType /\ LifeInv
  BY DEF PoolInv, IndInv, TypeInv
<1> USE ThreadFacts DEF PCType, DataType
<1>2. /\ pc[w] = "pop" /\ pc' = [pc EXCEPT ![w] = "run"]
      /\ UNCHANGED <<shutdown, mem, task>>
  BY DEF Pop
<1>3. ~ Closed
  BY <1>2, InsideMeansOpen DEF Gone
<1>4. Phase # "closed" /\ Phase' = Phase
  BY <1>1, <1>2, <1>3, PhaseSame DEF Phase
<1>5. \A v \in Workers : Runs(v)' <=> Runs(v) \/ v = w
  BY <1>1, <1>2 DEF Runs, SubmitPC
<1>6. ~ Runs(w)
  BY <1>2 DEF Runs, SubmitPC
<1>7. Running[w] = None /\ Running' = [Running EXCEPT ![w] = task[w]]
  BY <1>2, <1>5, <1>6 DEF Running
<1> QED
  BY <1>4, <1>7, AbstractActions

LEMMA FinishFinishes ==
    ASSUME PoolInv, NEW w \in Workers, Finish(w), Queue' = Queue
    PROVE  Abstract!Finish(w)
<1>1. PCType(pc) /\ DataType /\ LifeInv
  BY DEF PoolInv, IndInv, TypeInv
<1> USE ThreadFacts, PoolAssumption DEF PCType, DataType
<1>2. /\ pc[w] = "run" /\ pc' = [pc EXCEPT ![w] = "lock"]
      /\ task' = [task EXCEPT ![w] = None]
      /\ UNCHANGED <<shutdown, mem>>
  BY DEF Finish
<1>3. Phase' = Phase
  BY <1>1, <1>2, PhaseSame
<1>4. \A v \in Workers : Runs(v)' <=> Runs(v) /\ v # w
  BY <1>1, <1>2 DEF Runs, SubmitPC
<1>5. Runs(w)
  BY <1>2 DEF Runs
<1>6. task[w] \in Nodes
  BY <1>1, <1>5 DEF PoolInv, QueueInv, ListInv, Apart
<1>7. Running[w] # None /\ Running' = [Running EXCEPT ![w] = None]
  BY <1>1, <1>2, <1>4, <1>5, <1>6 DEF Running
<1> QED
  BY <1>3, <1>7, AbstractActions

LEMMA ShutdownCloses ==
    ASSUME PoolInv, Shutdown, Queue' = Queue
    PROVE  Abstract!Close \/ Quiescent
<1>1. PCType(pc) /\ DataType
  BY DEF PoolInv, IndInv, TypeInv
<1> USE ThreadFacts DEF PCType, DataType
<1>2. /\ shutdown' = TRUE /\ mem' = mem /\ task' = task
      /\ pc[Main] \in {"c_stop", "d_stop"}
  BY DEF Shutdown
<1>3. PICK p \in {"c_join", "d_join"} : Moves(Main, p, Waiting)
  BY DEF Shutdown, Broadcast
<1>4. /\ pc'[Main] = p
      /\ \A u \in Workers : pc'[u] = pc[u] \/ (pc[u] = "wait" /\ pc'[u] = "lock")
  BY <1>3 DEF Moves, Waiting
<1>5. Running' = Running
  BY <1>2, <1>4, RunningSame DEF Runs, SubmitPC
<1>6. ~ Closed
  BY <1>2, MainInsideMeansOpen
<1>7. Phase' = "closing" /\ Phase = IF shutdown THEN "closing" ELSE "open"
  BY <1>2, <1>4, <1>6 DEF Phase, Closed
<1> QED
  BY <1>5, <1>7, AbstractActions DEF Quiescent

\* The pool goes away when nothing is queued and nobody runs.
LEMMA FreeVanishes ==
    ASSUME PoolInv, Queue' = Queue,
           (Alloc /\ pc'[Main] # "create") \/ RollbackFree \/ DestroyFree
    PROVE  Abstract!Vanish
<1>1. PCType(pc) /\ DataType /\ LifeInv /\ EndInv
  BY DEF PoolInv, IndInv, TypeInv
<1> USE <1>1, ThreadFacts, PoolAssumption DEF PCType, DataType
<1>2. /\ pc[Main] \in {"alloc", "c_join", "d_drain"}
      /\ pc'[Main] = "failed" \/ mem' = "freed"
      /\ \A w \in Workers : pc'[w] = pc[w] /\ task'[w] = task[w]
  BY DEF Alloc, RollbackFree, DestroyFree
<1>3. \A w \in Workers : Gone(w)
  BY DEF Alloc, RollbackFree, DestroyFree, LifeInv, Gone, Workers
<1>4. \A w \in Workers : ~ Runs(w)
  BY <1>3 DEF Gone, Runs, SubmitPC
<1>5. head = None
  BY <1>3 DEF Gone, EndInv
<1>6. Queue = <<>>
  BY <1>5, NoHead
<1>7. ~ Closed
  BY <1>2, MainInsideMeansOpen
<1>8. Phase # "closed" /\ Phase' = "closed"
  BY <1>2, <1>7 DEF Phase, Closed
<1>9. \A w \in Workers : Running[w] = None
  BY <1>4 DEF Running
<1>10. Running' = Running
  BY <1>2, RunningSame DEF Runs
<1> QED
  BY <1>6, <1>8, <1>9, <1>10, AbstractActions

-----------------------------------------------------------------------------
LEMMA InitMaps == Init => Abstract!PoolInit
<1> SUFFICES ASSUME Init PROVE Abstract!PoolInit
  OBVIOUS
<1>1. Queue = <<>>
  BY NoHead, PoolInvInit DEF Init
<1>2. Running = [w \in Workers |-> None]
  BY ThreadFacts DEF Init, Running, Runs, SubmitPC
<1>3. Phase = "open"
  BY ThreadFacts DEF Init, Phase, Closed
<1> QED
  BY <1>1, <1>2, <1>3, AbstractActions

LEMMA StepMaps ==
    ASSUME PoolInv, [Next]_vars
    PROVE  [Abstract!PoolNext]_(Abstract!poolVars)
<1>1. PCType(pc) /\ DataType /\ LockInv /\ LifeInv /\ EndInv
  BY DEF PoolInv, IndInv, TypeInv
<1>2. PICK s \in Seq(Nodes) : ListInv(s)
  BY DEF PoolInv, QueueInv
<1>3. Queue = s
  BY <1>2, QueueUnique DEF ListInv, Shape
<1>4. \A r \in Seq(Nodes) : ListInv(r)' => Queue' = r
  BY QueueUniqueNext DEF ListInv, Shape
<1>5. CASE /\ ListInv(s)'
           /\ \A w \in Workers : ~ Pop(w)
           /\ \A t \in Threads : ~ SubmitLink(t)
  <2>1. Queue' = Queue
    BY <1>3, <1>4, <1>5
  <2>2. CASE Quiescent
    BY <2>2, AbstractActions DEF Quiescent
  <2>3. CASE \E w \in Workers : Finish(w)
    BY <2>1, <2>3, FinishFinishes DEF Abstract!PoolNext
  <2>4. CASE Shutdown
    BY <2>1, <2>2, <2>4, ShutdownCloses DEF Abstract!PoolNext
  <2>5. CASE (Alloc /\ pc'[Main] # "create") \/ RollbackFree \/ DestroyFree
    BY <2>1, <2>5, FreeVanishes DEF Abstract!PoolNext
  <2>6. CASE \/ \E t \in Threads : Acquire(t) \/ SubmitAlloc(t) \/ SubmitRefuse(t)
                                    \/ SubmitSignal(t)
             \/ \E w \in Workers : SpuriousWakeup(w) \/ Check(w)
             \/ Alloc /\ pc'[Main] = "create"
             \/ CreateThread \/ CreateDone \/ CreateFails \/ RollbackJoin
             \/ Destroy \/ Join \/ UNCHANGED vars
    BY <2>1, <2>2, <2>6, UnseenSteps
  <2> QED
    BY <1>5, <2>3, <2>4, <2>5, <2>6
    DEF Next, SubmitStep, WorkerStep, CreateStep, DestroyStep
<1>6. ASSUME NEW t \in Threads, SubmitLink(t), node[t] \in Nodes,
             NEW r \in Seq(Nodes), r = Append(s, node[t]), ListInv(r)'
      PROVE  Abstract!PoolNext
  <2>1. Abstract!Accept(node[t])
    BY <1>3, <1>4, <1>6, LinkAccepts
  <2> QED
    BY <1>6, <2>1 DEF Abstract!PoolNext
<1>7. ASSUME NEW w \in Workers, Pop(w), s # <<>>, task[w] = s[1],
             NEW r \in Seq(Nodes), r = Tail(s), ListInv(r)'
      PROVE  Abstract!PoolNext
  <2>1. Head(s) = s[1]
    OBVIOUS
  <2>2. Abstract!Start(w)
    BY <1>3, <1>4, <1>7, <2>1, PopStarts
  <2> QED
    BY <2>2 DEF Abstract!PoolNext
<1>8. \/ ListInv(s)' /\ (\A w \in Workers : ~ Pop(w))
                     /\ (\A t \in Threads : ~ SubmitLink(t))
      \/ \E t \in Threads : /\ SubmitLink(t) /\ node[t] \in Nodes
                            /\ \E r \in Seq(Nodes) :
                                  r = Append(s, node[t]) /\ ListInv(r)'
      \/ \E w \in Workers : /\ Pop(w) /\ s # <<>> /\ task[w] = s[1]
                            /\ \E r \in Seq(Nodes) : r = Tail(s) /\ ListInv(r)'
  BY <1>1, <1>2, QueueStep
<1> QED
  BY <1>5, <1>6, <1>7, <1>8

\* The pool implements the abstract task pool: tasks start in the order in
\* which they were accepted, each once, and the pool goes away only when
\* every accepted task has been run.
THEOREM PoolRefines == Spec => ImplementsTaskPool
<1>1. PoolInv /\ [Next]_vars => [Abstract!PoolNext]_(Abstract!poolVars)
  BY StepMaps
<1> QED
  BY <1>1, InitMaps, PoolInvInit, PoolInvStep, PTL
  DEF Spec, ImplementsTaskPool, Abstract!PoolSpec
=============================================================================
