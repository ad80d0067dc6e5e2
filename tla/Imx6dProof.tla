----------------------------- MODULE Imx6dProof -----------------------------
(***************************************************************************)
(* Theorems about the daemon, for any number of workers, any window and    *)
(* any bound on the backlog.                                               *)
(***************************************************************************)
EXTENDS Imx6d, SequenceTheorems, TLAPS

Places == {"idle", "try", "read", "feed", "unlock"}
MainPlaces == {"find", "pool", "timer", "arm", "epoll", "add", "wait", "read",
               "submit_ap", "submit_icm", "cleanup", "destroy", "join",
               "exit", "no_device"}

\* The parts of ImxTypeOK.
PoolType == /\ queue \in Seq(Tasks) /\ Len(queue) <= MaxQueue
            /\ running \in [Workers -> Tasks \cup {None}]
            /\ phase \in {"open", "closing", "closed"}
MainType == mpc \in MainPlaces /\ fds \in [Descriptors -> Int] /\ due \in BOOLEAN
TaskType == /\ place \in [Workers -> Places]
            /\ k \in [Workers -> Channels]
            /\ slock \in [Tasks -> Workers \cup {None}]
FiltType == filt \in [Channels -> [idx : 0 .. Window - 1, count : 0 .. Window]]

TypeInv == PoolType /\ MainType /\ TaskType /\ FiltType

USE DEF Idle, Joined, Busy, Entered, OnError, NextIdx, Released

LEMMA TypeSplit == ImxTypeOK <=> TypeInv
BY DEF ImxTypeOK, TypeInv, PoolType, MainType, TaskType, FiltType, Places,
       MainPlaces

LEMMA AttrsAreChannels == \A t \in Tasks : Attrs(t) \in Channels
BY DEF Attrs, Channels

-----------------------------------------------------------------------------
LEMMA AcceptType ==
    ASSUME PoolType, NEW t \in Tasks, Len(queue) < MaxQueue, Accept(t)
    PROVE  PoolType'
<1>1. queue' \in Seq(Tasks) /\ Len(queue') = Len(queue) + 1
  BY AppendProperties DEF PoolType, Accept
<1> QED
  BY <1>1, ImxAssumption, LenProperties DEF PoolType, Accept

LEMMA StartType ==
    ASSUME PoolType, NEW w \in Workers, Start(w)
    PROVE  PoolType' /\ running'[w] \in Tasks
<1>1. Head(queue) \in Tasks /\ queue' \in Seq(Tasks) /\ Len(queue') = Len(queue) - 1
  BY HeadTailProperties DEF PoolType, Start
<1> QED
  BY <1>1, ImxAssumption, LenProperties DEF PoolType, Start

LEMMA PoolStepType ==
    ASSUME PoolType,
           \/ \E w \in Workers : Finish(w)
           \/ Close
           \/ Vanish
           \/ UNCHANGED poolVars
    PROVE  PoolType'
BY DEF PoolType, Finish, Close, Vanish, poolVars

LEMMA TypeInit == Init => TypeInv
<1> SUFFICES ASSUME Init PROVE TypeInv
  OBVIOUS
<1>1. PoolType
  BY ImxAssumption, EmptySeq DEF Init, PoolInit, PoolType
<1>2. MainType
  <2>1. fds \in [Descriptors -> Int]
    BY DEF Init
  <2> QED
    BY <2>1 DEF Init, MainType, MainPlaces
<1>3. TaskType
  <2>1. 1 \in Channels
    BY DEF Channels
  <2> QED
    BY <2>1 DEF Init, TaskType, Places
<1>4. FiltType
  BY ImxAssumption DEF Init, FiltType
<1> QED
  BY <1>1, <1>2, <1>3, <1>4 DEF TypeInv

LEMMA TypeStep == TypeInv /\ [Next]_vars => TypeInv'
<1> SUFFICES ASSUME PoolType, MainType, TaskType, FiltType, [Next]_vars
             PROVE  PoolType' /\ MainType' /\ TaskType' /\ FiltType'
  BY DEF TypeInv
<1> USE DEF mainVars, taskVars
<1>1. CASE UNCHANGED vars
  BY <1>1 DEF vars, poolVars, PoolType, MainType, TaskType, FiltType
<1>2. CASE MainStep
  <2>1. UNCHANGED taskVars
    BY <1>2 DEF MainStep, FindDevices, CreatePool, CreateTimer, ArmTimer,
                CreateEpoll, AddToEpoll, Wait, Read, SubmitPair, Submit,
                Cleanup, DestroyPool, Return
  <2>2. MainType'
    <3>1. GiveUp => MainType'
      BY <1>2 DEF MainStep, FindDevices, CreatePool, CreateTimer, ArmTimer,
                  CreateEpoll, AddToEpoll, Wait, Read, SubmitPair, Submit,
                  Cleanup, DestroyPool, Return, GiveUp, MainType, MainPlaces
    <3>2. CASE CreateTimer \/ ArmTimer \/ CreateEpoll \/ AddToEpoll \/ Cleanup
      BY <3>1, <3>2 DEF CreateTimer, ArmTimer, CreateEpoll, AddToEpoll,
                        Cleanup, Opened, Reached, MainType, MainPlaces
    <3>3. CASE FindDevices \/ CreatePool \/ Wait \/ Read \/ SubmitPair
                 \/ DestroyPool \/ Return
      BY <3>3 DEF FindDevices, CreatePool, Wait, Read, SubmitPair, Submit,
                  DestroyPool, Return, MainType, MainPlaces
    <3> QED
      BY <1>2, <3>2, <3>3 DEF MainStep
  <2>3. PoolType'
    <3>1. CASE SubmitPair
      <4>1. \/ \E t \in Tasks : Len(queue) < MaxQueue /\ Accept(t)
            \/ UNCHANGED poolVars
        BY <3>1, ImxAssumption DEF SubmitPair, Submit
      <4> QED
        BY <4>1, AcceptType, PoolStepType
    <3>2. CASE ~SubmitPair
      <4>1. Close \/ Vanish \/ UNCHANGED poolVars
        BY <1>2, <3>2 DEF MainStep, FindDevices, CreatePool, CreateTimer,
                ArmTimer, CreateEpoll, AddToEpoll, Wait, Read, Cleanup,
                DestroyPool, Return
      <4> QED
        BY <4>1, PoolStepType
    <3> QED
      BY <3>1, <3>2
  <2> QED
    BY <2>1, <2>2, <2>3 DEF TaskType, FiltType
<1>3. CASE Expire
  BY <1>3, PoolStepType DEF Expire, MainType, TaskType, FiltType
<1>4. ASSUME NEW w \in Workers, Call(w)
      PROVE  PoolType' /\ MainType' /\ TaskType' /\ FiltType'
  BY <1>4, StartType DEF Call, MainType, TaskType, Places, FiltType
<1>5. ASSUME NEW w \in Workers, TryLock(w)
      PROVE  PoolType' /\ MainType' /\ TaskType' /\ FiltType'
  BY <1>5, PoolStepType DEF TryLock, MainType, TaskType, Places, FiltType
<1>6. ASSUME NEW w \in Workers, TryFails(w) \/ Unlock(w)
      PROVE  PoolType' /\ MainType' /\ TaskType' /\ FiltType'
  BY <1>6, PoolStepType DEF TryFails, Unlock, MainType, TaskType, Places, FiltType
<1>7. ASSUME NEW w \in Workers, Feed(w)
      PROVE  PoolType' /\ MainType' /\ TaskType' /\ FiltType'
  <2>1. PoolType' /\ MainType' /\ TaskType'
    BY <1>7, PoolStepType DEF Feed, MainType, TaskType, Places, Channels
  <2>2. FiltType'
    <3>1. /\ filt[k[w]].idx \in 0 .. Window - 1
          /\ filt[k[w]].count \in 0 .. Window
      BY DEF FiltType, TaskType
    <3>2. (filt[k[w]].idx + 1) % Window \in 0 .. Window - 1
      BY <3>1, ImxAssumption
    <3>3. (IF filt[k[w]].count < Window THEN filt[k[w]].count + 1
                                        ELSE filt[k[w]].count) \in 0 .. Window
      BY <3>1, ImxAssumption
    <3> QED
      BY <1>7, <3>2, <3>3 DEF Feed, FiltType
  <2> QED
    BY <2>1, <2>2
<1>8. ASSUME NEW w \in Workers, ReadAttr(w)
      PROVE  PoolType' /\ MainType' /\ TaskType' /\ FiltType'
  <2>1. UNCHANGED <<poolVars, mainVars, due, slock, filt>>
    BY <1>8 DEF ReadAttr
  <2>2. TaskType'
    <3>1. k[w] < Attrs(running[w]) => k[w] + 1 \in Channels
      BY DEF Attrs, Channels, TaskType
    <3>2. PICK result \in {"value", "overflow", "error"} :
            IF ~Tolerated(running[w], k[w], result)
            THEN place' = [place EXCEPT ![w] = OnError] /\ k' = [k EXCEPT ![w] = 1]
            ELSE IF k[w] < Attrs(running[w])
            THEN k' = [k EXCEPT ![w] = @ + 1] /\ UNCHANGED place
            ELSE /\ place' = [place EXCEPT ![w] = IF running[w] = Icm
                                                  THEN "feed" ELSE "unlock"]
                 /\ k' = [k EXCEPT ![w] = 1]
      BY <1>8 DEF ReadAttr
    <3>3. 1 \in Channels
      BY DEF Channels
    <3> QED
      BY <2>1, <3>1, <3>2, <3>3 DEF TaskType, Places
  <2> QED
    BY <2>1, <2>2, PoolStepType DEF MainType, FiltType
<1> QED
  BY <1>1, <1>2, <1>3, <1>4, <1>5, <1>6, <1>7, <1>8 DEF Next, TaskStep

\* Every variable keeps its type.
THEOREM ImxTypeCorrect == Spec => []ImxTypeOK
BY TypeInit, TypeStep, TypeSplit, PTL DEF Spec
-----------------------------------------------------------------------------
\* The loop, with the way out of it.
Loop == {"wait", "read", "submit_ap", "submit_icm", "cleanup"}

\* Where main is, what is open there, which each list of Closes has to fit, and
\* whether tasks can be around: none before the pool is there and none once it
\* is closed.
MainInv ==
    /\ mpc \in {"find", "pool", "no_device"} => Quiet
    /\ fds["tfd"] = IF mpc \in {"arm", "epoll", "add"} \cup Loop THEN 1 ELSE 0
    /\ fds["ep"] = IF mpc \in {"add"} \cup Loop THEN 1 ELSE 0
    /\ mpc = "exit" => phase = "closed"
    /\ phase = "closed" => Quiet

\* A worker calls a task function exactly when the pool says that it runs a
\* task, and only the ICM20608 has filters to feed.
RunInv == \A w \in Workers : /\ place[w] = "idle" <=> running[w] = None
                             /\ place[w] = "feed" => running[w] = Icm

LEMMA QuietStays ==
    ASSUME PoolType, Quiet, phase' = phase, queue' = queue, running' = running
    PROVE  Quiet'
BY DEF Quiet, PoolType

LEMMA MainStepInv ==
    ASSUME PoolType, MainType, MainInv, [Next]_vars
    PROVE  MainInv'
<1> USE DEF Quiet
<1>1. CASE UNCHANGED vars \/ Expire
  BY <1>1 DEF vars, poolVars, mainVars, Expire, MainInv
<1>2. CASE MainStep
  <2>1. CASE FindDevices \/ CreatePool
    BY <2>1 DEF FindDevices, CreatePool, MainInv, Loop, poolVars, Vanish
  <2>2. CASE Wait \/ Read
    BY <2>2 DEF Wait, Read, MainInv, Loop, poolVars
  <2>5. CASE CreateTimer \/ ArmTimer \/ CreateEpoll \/ AddToEpoll \/ Cleanup
    <3>1. UNCHANGED poolVars
      BY <2>5 DEF CreateTimer, ArmTimer, CreateEpoll, AddToEpoll, Cleanup
    <3>2. CASE GiveUp
      <4>1. mpc \in {"timer", "arm", "epoll", "add", "cleanup"}
        BY <2>5 DEF CreateTimer, ArmTimer, CreateEpoll, AddToEpoll, Cleanup
      <4>2. \A f \in Descriptors :
              fds'[f] = IF f \in Closes[mpc] THEN fds[f] - 1 ELSE fds[f]
        BY <3>2 DEF GiveUp
      <4>3. fds'["tfd"] = 0 /\ fds'["ep"] = 0
        BY <4>1, <4>2 DEF Closes, Descriptors, MainInv, Loop
      <4> QED
        BY <3>1, <3>2, <4>1, <4>3 DEF GiveUp, MainInv, Loop, poolVars
    <3>3. CASE ~GiveUp
      BY <2>5, <3>1, <3>3 DEF CreateTimer, ArmTimer, CreateEpoll, AddToEpoll,
             Cleanup, Opened, Reached, Descriptors, MainType, MainInv, Loop,
             poolVars
    <3> QED
      BY <3>2, <3>3
  <2>3. CASE SubmitPair
    BY <2>3 DEF SubmitPair, Submit, Accept, MainInv, Loop, poolVars
  <2>4. CASE DestroyPool \/ Return
    BY <2>4 DEF DestroyPool, Return, Close, Vanish, MainInv, Loop, poolVars
  <2> QED
    BY <1>2, <2>1, <2>2, <2>3, <2>4, <2>5 DEF MainStep
<1>3. ASSUME NEW w \in Workers, Call(w) PROVE MainInv'
  BY <1>3 DEF Call, Start, mainVars, MainInv
<1>4. ASSUME NEW w \in Workers, TryLock(w) \/ Feed(w) \/ ReadAttr(w)
      PROVE  MainInv'
  BY <1>4 DEF TryLock, Feed, ReadAttr, mainVars, poolVars, MainInv
<1>5. ASSUME NEW w \in Workers, TryFails(w) \/ Unlock(w) PROVE MainInv'
  BY <1>5 DEF TryFails, Unlock, Finish, mainVars, MainInv
<1> QED
  BY <1>1, <1>2, <1>3, <1>4, <1>5 DEF Next, TaskStep

\* main's own steps, and the passing of time, leave every running task alone.
LEMMA MainLeavesTasks ==
    ASSUME MainStep \/ Expire \/ UNCHANGED vars
    PROVE  UNCHANGED <<running, place, k, slock, filt>>
BY DEF MainStep, FindDevices, CreatePool, CreateTimer, ArmTimer, CreateEpoll,
       AddToEpoll, Wait, Read, SubmitPair, Submit, Cleanup, DestroyPool, Return,
       Expire, Accept, Close, Vanish, vars, poolVars, taskVars

LEMMA RunStepInv ==
    ASSUME TypeInv, RunInv, [Next]_vars
    PROVE  RunInv'
<1> USE TaskPoolAssumption, ImxAssumption DEF TypeInv, PoolType, TaskType
<1>1. CASE MainStep \/ Expire \/ UNCHANGED vars
  BY <1>1, MainLeavesTasks DEF RunInv
<1>2. ASSUME NEW w \in Workers, Call(w) PROVE RunInv'
  BY <1>2, StartType DEF Call, Start, RunInv
<1>3. ASSUME NEW w \in Workers, TryLock(w) \/ Feed(w) PROVE RunInv'
  BY <1>3 DEF TryLock, Feed, poolVars, RunInv
<1>4. ASSUME NEW w \in Workers, ReadAttr(w) PROVE RunInv'
  <2>1. UNCHANGED running /\ place[w] = "read"
    BY <1>4 DEF ReadAttr, poolVars
  <2>2. \/ UNCHANGED place
        \/ place' = [place EXCEPT ![w] = "unlock"]
        \/ place' = [place EXCEPT ![w] = "feed"] /\ running[w] = Icm
    BY <1>4 DEF ReadAttr
  <2> QED
    BY <2>1, <2>2 DEF RunInv
<1>5. ASSUME NEW w \in Workers, TryFails(w) \/ Unlock(w) PROVE RunInv'
  BY <1>5 DEF TryFails, Unlock, Finish, RunInv
<1> QED
  BY <1>1, <1>2, <1>3, <1>4, <1>5 DEF Next, TaskStep

LEMMA LockStepInv ==
    ASSUME TypeInv, RunInv, SampleLockOwned, [Next]_vars
    PROVE  SampleLockOwned'
<1> USE TaskPoolAssumption, ImxAssumption DEF TypeInv, PoolType, TaskType
<1>1. CASE MainStep \/ Expire \/ UNCHANGED vars
  BY <1>1, MainLeavesTasks DEF SampleLockOwned
<1>2. ASSUME NEW w \in Workers, Call(w) PROVE SampleLockOwned'
  BY <1>2 DEF Call, Start, SampleLockOwned, RunInv
<1>3. ASSUME NEW w \in Workers, TryLock(w) PROVE SampleLockOwned'
  <2>1. running[w] \in Tasks
    BY <1>3 DEF TryLock, RunInv
  <2> QED
    BY <1>3, <2>1 DEF TryLock, poolVars, SampleLockOwned
<1>4. ASSUME NEW w \in Workers, Feed(w) PROVE SampleLockOwned'
  BY <1>4 DEF Feed, poolVars, SampleLockOwned
<1>5. ASSUME NEW w \in Workers, ReadAttr(w) PROVE SampleLockOwned'
  <2>1. UNCHANGED <<running, slock>> /\ place[w] = "read"
    BY <1>5 DEF ReadAttr, poolVars
  <2>2. \/ UNCHANGED place
        \/ place' = [place EXCEPT ![w] = "unlock"]
        \/ place' = [place EXCEPT ![w] = "feed"]
    BY <1>5 DEF ReadAttr
  <2> QED
    BY <2>1, <2>2 DEF SampleLockOwned
<1>6. ASSUME NEW w \in Workers, TryFails(w) PROVE SampleLockOwned'
  BY <1>6 DEF TryFails, Finish, SampleLockOwned, RunInv
<1>7. ASSUME NEW w \in Workers, Unlock(w) PROVE SampleLockOwned'
  <2>1. running[w] \in Tasks /\ slock[running[w]] = w
    BY <1>7 DEF Unlock, RunInv, SampleLockOwned
  <2> QED
    BY <1>7, <2>1 DEF Unlock, Finish, SampleLockOwned, RunInv
<1> QED
  BY <1>1, <1>2, <1>3, <1>4, <1>5, <1>6, <1>7 DEF Next, TaskStep

-----------------------------------------------------------------------------
\* One more sample, as ma_filter counts it.
Advanced(f) == [idx |-> NextIdx(f.idx),
                count |-> IF f.count < Window THEN f.count + 1 ELSE f.count]

\* The filters already fed are exactly one sample ahead of the others.
Lead == \A c, d \in Channels : Fed(c) /\ ~Fed(d) => filt[c] = Advanced(filt[d])

LEMMA OneFeeder ==
    ASSUME RunInv, SampleLockOwned, NEW v \in Workers, NEW w \in Workers,
           place[v] = "feed", place[w] \in {"read", "feed"}, running[w] = Icm
    PROVE  v = w
<1>1. slock[Icm] = v /\ slock[Icm] = w
  BY ImxAssumption DEF RunInv, SampleLockOwned
<1> QED
  BY <1>1

LEMMA FeedStepInv ==
    ASSUME TypeInv, RunInv, SampleLockOwned, FiltersInStep, Lead,
           NEW w \in Workers, Feed(w)
    PROVE  FiltersInStep' /\ Lead'
<1> USE DEF TypeInv, TaskType, FiltType, Channels
<1>1. place[w] = "feed" /\ running[w] = Icm /\ k[w] \in Channels
  BY DEF Feed, RunInv
<1>2. \A v \in Workers : place[v] = "feed" => v = w
  BY <1>1, OneFeeder
<1>3. \A c \in Channels : Fed(c) <=> c < k[w]
  BY <1>1, <1>2 DEF Fed
<1>4. filt' = [filt EXCEPT ![k[w]] = Advanced(filt[k[w]])]
  BY DEF Feed, Advanced
<1>5. \A c \in Channels : filt'[c] = IF c <= k[w] THEN Advanced(filt[k[w]])
                                                  ELSE filt[k[w]]
  <2>1. \A c \in Channels : c < k[w] => filt[c] = Advanced(filt[k[w]])
    BY <1>1, <1>3 DEF Lead
  <2>2. \A c \in Channels : c > k[w] => filt[c] = filt[k[w]]
    BY <1>1, <1>3 DEF FiltersInStep
  <2> QED
    BY <1>1, <1>4, <2>1, <2>2
<1>6. CASE k[w] < 7
  <2>1. \A c \in Channels : Fed(c)' <=> c <= k[w]
    <3>1. place' = place /\ k'[w] = k[w] + 1
      BY <1>6 DEF Feed
    <3>2. \A c \in Channels : Fed(c)' <=> c < k'[w]
      BY <1>1, <1>2, <3>1 DEF Fed
    <3> QED
      BY <1>1, <3>1, <3>2
  <2>2. FiltersInStep'
    BY <2>1, <1>5 DEF FiltersInStep
  <2>3. Lead'
    <3>1. \A c, d \in Channels : Fed(c)' /\ ~Fed(d)' =>
              filt'[c] = Advanced(filt'[d])
      BY <2>1, <1>5
    <3> QED
      BY <3>1 DEF Lead, Advanced
  <2> QED
    BY <2>2, <2>3
<1>7. CASE ~(k[w] < 7)
  <2>1. k[w] = 7 /\ place' = [place EXCEPT ![w] = "unlock"]
    BY <1>1, <1>7 DEF Feed
  <2>2. \A c \in Channels : ~Fed(c)'
    BY <1>2, <2>1 DEF Fed
  <2>3. \A c \in Channels : filt'[c] = Advanced(filt[k[w]])
    BY <1>5, <2>1
  <2> QED
    BY <2>2, <2>3 DEF FiltersInStep, Lead
<1> QED
  BY <1>6, <1>7

\* A step that feeds nobody and moves no feeder.
LEMMA FedStays ==
    ASSUME FiltersInStep, Lead, filt' = filt,
           \A c \in Channels : Fed(c)' <=> Fed(c)
    PROVE  FiltersInStep' /\ Lead'
BY DEF FiltersInStep, Lead, Advanced

LEMMA FiltStepInv ==
    ASSUME TypeInv, RunInv, SampleLockOwned, FiltersInStep, Lead, [Next]_vars
    PROVE  FiltersInStep' /\ Lead'
<1> USE DEF TypeInv, TaskType
<1>1. CASE MainStep \/ Expire \/ UNCHANGED vars
  BY <1>1, MainLeavesTasks, FedStays DEF Fed
<1>2. ASSUME NEW w \in Workers, Call(w) \/ TryLock(w) \/ TryFails(w) \/ Unlock(w)
      PROVE  FiltersInStep' /\ Lead'
  <2>1. filt' = filt /\ k' = k
    BY <1>2 DEF Call, TryLock, TryFails, Unlock
  <2>2. \A v \in Workers : place'[v] = "feed" <=> place[v] = "feed"
    BY <1>2 DEF Call, Start, TryLock, TryFails, Unlock, RunInv
  <2> QED
    BY <2>1, <2>2, FedStays DEF Fed
<1>3. ASSUME NEW w \in Workers, Feed(w) PROVE FiltersInStep' /\ Lead'
  BY <1>3, FeedStepInv
<1>4. ASSUME NEW w \in Workers, ReadAttr(w) PROVE FiltersInStep' /\ Lead'
  <2>1. filt' = filt /\ place[w] = "read"
    BY <1>4 DEF ReadAttr
  <2>2. \A v \in Workers : v # w => place'[v] = place[v] /\ k'[v] = k[v]
    BY <1>4 DEF ReadAttr
  <2>3. CASE place'[w] = "feed"
    <3>1. running[w] = Icm /\ k'[w] = 1
      BY <1>4, <2>1, <2>3 DEF ReadAttr
    <3>2. \A v \in Workers : place[v] # "feed"
      BY <2>1, <3>1, OneFeeder
    <3>3. \A c \in Channels : ~Fed(c) /\ ~Fed(c)'
      BY <2>2, <3>1, <3>2 DEF Fed, Channels
    <3> QED
      BY <2>1, <3>3, FedStays
  <2>4. CASE place'[w] # "feed"
    <3>1. \A c \in Channels : Fed(c)' <=> Fed(c)
      BY <2>1, <2>2, <2>4 DEF Fed
    <3> QED
      BY <2>1, <3>1, FedStays
  <2> QED
    BY <2>3, <2>4
<1> QED
  BY <1>1, <1>2, <1>3, <1>4 DEF Next, TaskStep

-----------------------------------------------------------------------------
IndInv == TypeInv /\ MainInv /\ RunInv /\ SampleLockOwned /\ FiltersInStep /\ Lead

LEMMA IndInvInit == Init => IndInv
<1> SUFFICES ASSUME Init
             PROVE  MainInv /\ RunInv /\ SampleLockOwned /\ FiltersInStep /\ Lead
  BY TypeInit DEF IndInv
<1>1. MainInv
  BY DEF Init, PoolInit, MainInv, Loop, Descriptors, Quiet
<1>2. RunInv
  BY DEF Init, PoolInit, RunInv
<1>3. SampleLockOwned
  BY ImxAssumption DEF Init, SampleLockOwned
<1>4. \A c \in Channels : ~Fed(c)
  BY DEF Init, Fed
<1>5. FiltersInStep /\ Lead
  BY <1>4 DEF Init, FiltersInStep, Lead
<1> QED
  BY <1>1, <1>2, <1>3, <1>5

LEMMA IndInvStep == IndInv /\ [Next]_vars => IndInv'
BY TypeStep, MainStepInv, RunStepInv, LockStepInv, FiltStepInv
   DEF IndInv, TypeInv

\* main outlives every task it has handed a pointer into its stack frame.
THEOREM MainOutlivesTasks == Spec => []PathsAlive
<1>1. IndInv => PathsAlive
  BY DEF IndInv, MainInv, PathsAlive, Ended
<1> QED
  BY <1>1, IndInvInit, IndInvStep, PTL DEF Spec

\* However main returns, each descriptor has been closed as often as it was
\* opened, by the list of the way out it takes, and the pool is gone.
THEOREM MainExitsClean == Spec => []CleanExit
<1>1. IndInv => CleanExit
  BY DEF IndInv, MainInv, Loop, Descriptors, CleanExit, Ended
<1> QED
  BY <1>1, IndInvInit, IndInvStep, PTL DEF Spec

\* A sample lock is held exactly while its holder samples.
THEOREM SampleLocksOwned == Spec => []SampleLockOwned
<1>1. IndInv => SampleLockOwned
  BY DEF IndInv
<1> QED
  BY <1>1, IndInvInit, IndInvStep, PTL DEF Spec

\* The seven filters of the ICM20608 advance together.
THEOREM FiltersStayInStep == Spec => []FiltersInStep
<1>1. IndInv => FiltersInStep
  BY DEF IndInv
<1> QED
  BY <1>1, IndInvInit, IndInvStep, PTL DEF Spec

\* With more workers than sensors - the daemon has four - one is always free of
\* both sensors.
THEOREM ServiceGoesOn ==
    ASSUME NEW a \in Workers, NEW b \in Workers, NEW c \in Workers,
           a # b, b # c, a # c
    PROVE  Spec => []SomeoneServes
<1>1. IndInv => SomeoneServes
  <2> SUFFICES ASSUME IndInv, \A w \in Workers : HeldUp(w) PROVE FALSE
    BY DEF SomeoneServes
  <2>1. \A w \in Workers : place[w] = "read" /\ running[w] \in Tasks
    BY DEF IndInv, TypeInv, PoolType, RunInv, HeldUp
  <2>2. \A w \in Workers : slock[running[w]] = w
    BY <2>1 DEF IndInv, SampleLockOwned
  <2> QED
    BY <2>1, <2>2, ImxAssumption
<1> QED
  BY <1>1, IndInvInit, IndInvStep, PTL DEF Spec
=============================================================================
