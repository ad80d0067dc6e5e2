------------------------------- MODULE Imx6d -------------------------------
(***************************************************************************)
(* The sampling daemon app/imx6d.c on top of its thread pool: main with    *)
(* the timerfd / epoll loop and its cleanup paths, and the two sampling    *)
(* tasks with their static sample locks and the seven moving averages.     *)
(*                                                                         *)
(* The pool is TaskPool, which ThreadPool is shown to implement: the       *)
(* queue, what each worker runs, and the phase are TaskPool's variables.   *)
(* The two tasks are named after their sensors.  A sysfs attribute is read *)
(* in one step that returns a value, -EOVERFLOW or another error.          *)
(* The number of timer expirations that read() returns in `exp` is not     *)
(* looked at by the code, so the timer is the bit "readable".              *)
(***************************************************************************)
EXTENDS TaskPool, FiniteSets

CONSTANTS Ap, Icm,   \* the tasks: task_read_ap3216c, task_read_icm20608
          Window,    \* FILTER_WINDOW
          MaxQueue,  \* bound: a submit finds no memory beyond this backlog
          Stuck      \* fairness only: sensors whose reads may hang forever

ASSUME ImxAssumption ==
    /\ Tasks = {Ap, Icm} /\ Ap # Icm
    /\ None \notin Workers
    /\ Window \in Nat \ {0}
    /\ MaxQueue \in Nat
    /\ Stuck \subseteq Tasks

VARIABLES
    mpc,      \* where main is
    fds,      \* fds[f]: how often main opened f less how often it closed it
    due,      \* the timerfd is readable
    place,    \* where the task function each worker runs is
    k,        \* ... and at which attribute or filter (1 outside)
    slock,    \* slock[t]: the worker that holds t's static sample_lock, or None
    filt      \* idx and count of fax .. ftemp

taskVars == <<place, k, slock, filt>>
mainVars == <<mpc, fds>>
vars == <<poolVars, mainVars, due, taskVars>>

Attrs(t) == IF t = Ap THEN 4 ELSE 7   \* attributes read for one sample
Channels == 1 .. 7                    \* the filters of the ICM20608
Descriptors == {"tfd", "ep"}          \* the timerfd, the epoll instance

Init ==
    /\ PoolInit
    /\ mpc = "find"
    /\ fds = [f \in Descriptors |-> 0]
    /\ due = FALSE
    /\ place = [w \in Workers |-> "idle"]
    /\ k = [w \in Workers |-> 1]
    /\ slock = [t \in Tasks |-> None]
    /\ filt = [c \in Channels |-> [idx |-> 0, count |-> 0]]

-----------------------------------------------------------------------------
\* main, before the loop.  Both devices must be there ...
FindDevices ==
    /\ mpc = "find"
    /\ mpc' \in {"pool", "no_device"}
    /\ UNCHANGED <<poolVars, fds, due, taskVars>>

\* ... thread_pool_create may fail: then the pool is gone, and main returns ...
CreatePool ==
    /\ mpc = "pool"
    /\ \/ mpc' = "timer" /\ UNCHANGED poolVars
       \/ mpc' = "exit" /\ Vanish
    /\ UNCHANGED <<fds, due, taskVars>>

\* ... and each later way out, by where main is then, has its own list of what
\* it closes before thread_pool_destroy.
TimerForgotten ==   \* bug: the failure of epoll_ctl closes ep only
    [timer |-> {}, arm |-> {"tfd"}, epoll |-> {"tfd"}, add |-> {"ep"},
     cleanup |-> {"ep", "tfd"}]
Closes ==
    [timer |-> {}, arm |-> {"tfd"}, epoll |-> {"tfd"}, add |-> {"ep", "tfd"},
     cleanup |-> {"ep", "tfd"}]

GiveUp ==
    /\ mpc' = "destroy"
    /\ fds' = [f \in Descriptors |->
                 IF f \in Closes[mpc] THEN fds[f] - 1 ELSE fds[f]]

Opened(fd, to) == mpc' = to /\ fds' = [fds EXCEPT ![fd] = @ + 1]
Reached(to) == mpc' = to /\ UNCHANGED fds

\* creat_periodic_timer: timerfd_create, then timerfd_settime, whose failure
\* closes the timer inside that function.
CreateTimer ==
    /\ mpc = "timer" /\ (Opened("tfd", "arm") \/ GiveUp)
    /\ UNCHANGED <<poolVars, due, taskVars>>

ArmTimer ==
    /\ mpc = "arm" /\ (Reached("epoll") \/ GiveUp)
    /\ UNCHANGED <<poolVars, due, taskVars>>

CreateEpoll ==
    /\ mpc = "epoll" /\ (Opened("ep", "add") \/ GiveUp)
    /\ UNCHANGED <<poolVars, due, taskVars>>

AddToEpoll ==
    /\ mpc = "add" /\ (Reached("wait") \/ GiveUp)
    /\ UNCHANGED <<poolVars, due, taskVars>>

\* The armed timer expires every 200 ms; expirations nobody reads coalesce.
Expire ==
    /\ fds["tfd"] > 0 /\ mpc # "arm"
    /\ due' = TRUE
    /\ UNCHANGED <<poolVars, mainVars, taskVars>>

\* epoll_wait returns the readable timer or fails (EINTR waits again).
Wait ==
    /\ mpc = "wait"
    /\ \/ due /\ mpc' = "read"
       \/ mpc' = "cleanup"
    /\ UNCHANGED <<poolVars, fds, due, taskVars>>

\* read(tfd): all 8 bytes, interrupted, or failed or short.
Read ==
    /\ mpc = "read"
    /\ \/ mpc' = "submit_ap" /\ due' = FALSE
       \/ mpc' = "wait" /\ UNCHANGED due
       \/ mpc' = "cleanup" /\ UNCHANGED due
    /\ UNCHANGED <<poolVars, fds, taskVars>>

\* thread_pool_submit, whose result main ignores.
Submit(from, t, to) ==
    /\ mpc = from
    /\ mpc' = to
    /\ \/ Len(queue) < MaxQueue /\ Accept(t)
       \/ UNCHANGED poolVars
    /\ UNCHANGED <<fds, due, taskVars>>

SubmitPair == \/ Submit("submit_ap", Ap, "submit_icm")
              \/ Submit("submit_icm", Icm, "wait")

\* After the loop: close both descriptors, then thread_pool_destroy.
Cleanup ==
    /\ mpc = "cleanup" /\ GiveUp
    /\ UNCHANGED <<poolVars, due, taskVars>>

\* thread_pool_destroy: refuse new tasks, then join every worker.
DestroyPool ==
    /\ mpc = "destroy"
    /\ mpc' = "join"
    /\ Close
    /\ UNCHANGED <<fds, due, taskVars>>

NoJoin == UNCHANGED poolVars   \* bug: main returns without joining
Joined == Vanish

Return ==
    /\ mpc = "join"
    /\ mpc' = "exit"
    /\ Joined
    /\ UNCHANGED <<fds, due, taskVars>>

-----------------------------------------------------------------------------
\* A worker takes a task and calls its function.
Call(w) ==
    /\ Start(w)
    /\ place' = [place EXCEPT ![w] = "try"]
    /\ UNCHANGED <<mainVars, due, k, slock, filt>>

Blocked(w) == FALSE     \* bug: pthread_mutex_lock instead of trylock
Busy(w) == slock[running[w]] # None
NotTried(w) == TRUE     \* bug: enters whatever trylock says
Entered(w) == slock[running[w]] = None

\* pthread_mutex_trylock(&sample_lock): enter, or return at once.
TryLock(w) ==
    /\ place[w] = "try"
    /\ Entered(w)
    /\ slock' = [slock EXCEPT ![running[w]] = w]
    /\ place' = [place EXCEPT ![w] = "read"]
    /\ UNCHANGED <<poolVars, mainVars, due, k, filt>>

TryFails(w) ==
    /\ place[w] = "try"
    /\ Busy(w)
    /\ place' = [place EXCEPT ![w] = "idle"]
    /\ Finish(w)
    /\ UNCHANGED <<mainVars, due, k, slock, filt>>

\* in_intensity_ir_raw and in_proximity_raw may be over range; every other
\* error ends the sample.
Tolerated(t, n, result) ==
    \/ result = "value"
    \/ result = "overflow" /\ t = Ap /\ n \in {3, 4}

RetryForever == "read"   \* bug: an error is read again instead of given up
OnError == "unlock"

ReadAttr(w) ==
    /\ place[w] = "read"
    /\ \E result \in {"value", "overflow", "error"} :
          IF ~Tolerated(running[w], k[w], result)
          THEN place' = [place EXCEPT ![w] = OnError] /\ k' = [k EXCEPT ![w] = 1]
          ELSE IF k[w] < Attrs(running[w])
          THEN k' = [k EXCEPT ![w] = @ + 1] /\ UNCHANGED place
          ELSE /\ place' = [place EXCEPT ![w] = IF running[w] = Icm
                                                THEN "feed" ELSE "unlock"]
               /\ k' = [k EXCEPT ![w] = 1]
    /\ UNCHANGED <<poolVars, mainVars, due, slock, filt>>

NextIdx(n) == (n + 1) % Window

\* ma_filter on the next channel, then the line is printed.
Feed(w) ==
    /\ place[w] = "feed"
    /\ filt' = [filt EXCEPT ![k[w]] =
                  [idx |-> NextIdx(@.idx),
                   count |-> IF @.count < Window THEN @.count + 1 ELSE @.count]]
    /\ IF k[w] < 7
       THEN k' = [k EXCEPT ![w] = @ + 1] /\ UNCHANGED place
       ELSE place' = [place EXCEPT ![w] = "unlock"] /\ k' = [k EXCEPT ![w] = 1]
    /\ UNCHANGED <<poolVars, mainVars, due, slock>>

Leaked(t) == slock   \* bug: a path returns without unlocking
Released(t) == [slock EXCEPT ![t] = None]

\* unlock: the task function returns.
Unlock(w) ==
    /\ place[w] = "unlock"
    /\ slock' = Released(running[w])
    /\ place' = [place EXCEPT ![w] = "idle"]
    /\ Finish(w)
    /\ UNCHANGED <<mainVars, due, k, filt>>

-----------------------------------------------------------------------------
MainStep == \/ FindDevices \/ CreatePool \/ CreateTimer \/ ArmTimer
            \/ CreateEpoll \/ AddToEpoll \/ Wait \/ Read \/ SubmitPair
            \/ Cleanup \/ DestroyPool \/ Return
TaskStep(w) == TryLock(w) \/ TryFails(w) \/ Feed(w) \/ Unlock(w)
Ended == mpc \in {"exit", "no_device"}

Next == \/ MainStep
        \/ Expire
        \/ \E w \in Workers : Call(w) \/ TaskStep(w) \/ ReadAttr(w)
        \/ Ended /\ UNCHANGED vars

Spec == Init /\ [][Next]_vars

\* main and the task functions run on; some idle worker takes a queued task
\* (ThreadPool: NoLostWakeup, AcceptedRuns); a sysfs read returns, except that
\* the reads of a sensor in Stuck may hang.  Nothing makes main leave its loop.
Fairness ==
    /\ WF_vars(MainStep)
    /\ WF_vars(\E w \in Workers : Call(w))
    /\ \A w \in Workers : /\ WF_vars(TaskStep(w))
                          /\ WF_vars(running[w] \notin Stuck /\ ReadAttr(w))

FairSpec == Spec /\ Fairness

-----------------------------------------------------------------------------
ImxTypeOK ==
    /\ queue \in Seq(Tasks) /\ Len(queue) <= MaxQueue
    /\ running \in [Workers -> Tasks \cup {None}]
    /\ phase \in {"open", "closing", "closed"}
    /\ mpc \in {"find", "pool", "timer", "arm", "epoll", "add", "wait", "read",
                "submit_ap", "submit_icm", "cleanup", "destroy", "join",
                "exit", "no_device"}
    /\ fds \in [Descriptors -> Int]
    /\ due \in BOOLEAN
    /\ place \in [Workers -> {"idle", "try", "read", "feed", "unlock"}]
    /\ k \in [Workers -> Channels]
    /\ slock \in [Tasks -> Workers \cup {None}]
    /\ filt \in [Channels -> [idx : 0 .. Window - 1, count : 0 .. Window]]

\* A task reads the device path through a pointer into main's stack frame
\* (lines 585-586, 677, 681).  The frame outlives every task: while one is
\* queued or runs, main has not returned.
PathsAlive == Ended => Quiet

\* On every way out of main, the failure of each start-up step included, each
\* descriptor has been closed as often as it was opened: five ways out have a
\* list each of what they close, and none forgets one, or closes one that was
\* not opened or is closed already.  And the pool, if created, is gone.
CleanExit == Ended => /\ \A f \in Descriptors : fds[f] = 0
                      /\ mpc = "exit" => phase = "closed"

\* A sample lock is held exactly while its one holder samples that sensor.  A
\* lock leaked by one of the error paths would silence the sensor for good,
\* since the tasks only ever try it.
SampleLockOwned ==
    \A t \in Tasks, w \in Workers :
        slock[t] = w <=> running[w] = t /\ place[w] \in {"read", "feed", "unlock"}

\* The seven filters of the ICM20608 advance together.  They differ only while
\* the one task that holds the lock feeds them, and then the ones it has fed
\* are one sample ahead: no frame is ever fed to some of the filters, and the
\* averages that are printed together cover the same samples.
Fed(c) == \E w \in Workers : place[w] = "feed" /\ c < k[w]
FiltersInStep ==
    \A c, d \in Channels : (Fed(c) <=> Fed(d)) => filt[c] = filt[d]

\* A worker is held up by a sensor that does not answer, or by a sample lock.
HeldUp(w) == \/ place[w] = "read"
             \/ place[w] = "try" /\ ~Entered(w) /\ ~Busy(w)

\* However long both sensors keep silent, and however many samples main has
\* asked for by then, they hold up two workers at most: of the four that the
\* daemon has, there is always one to take or give up the next task (line 364).
SomeoneServes == \E w \in Workers : ~HeldUp(w)

\* Every sample of the ICM20608 that main asked for is attempted, even when
\* the reads of the AP3216C hang: the tasks of a hung sensor give up at
\* trylock, so at most one worker hangs and the others keep serving the queue.
IcmQueued == \E j \in DOMAIN queue : queue[j] = Icm
IcmNotStarved == IcmQueued ~> slock[Icm] # None

\* Once main gives up it returns, unless a sensor read hangs for good and
\* thread_pool_destroy waits for it in pthread_join.
HungRead == \E w \in Workers : place[w] = "read" /\ running[w] \in Stuck
DaemonExits == [](mpc = "destroy" => <>(mpc = "exit") \/ <>[]HungRead)
=============================================================================
