# TLA+ models of tinykernel-lab

tinykernel-lab is a set of Linux drivers for an i.MX6ULL board, and the user
programs and scripts that use them. This directory holds a TLA+ specification of
the parts in which something can go wrong that is hard to test: the threads of
the sampling daemon, the interrupt and the timer of the key driver, drivers that
share one structure or one chip between many callers, and start-up and shutdown
sequences any step of which may fail.

## 1. The system

| part | source | state it keeps | operations | who it talks to |
|---|---|---|---|---|
| thread pool | `app/imx6d.c` 240-318, 509-581 | mutex, condition variable, linked list `head`/`tail`, `shutdown`, threads | create, submit, worker loop, destroy | called by main; runs the task functions |
| imx6d daemon | `app/imx6d.c` 349-507, 583-695 | descriptors, two static sample locks, seven static filters | main loop on a timerfd, two sampling tasks | submits to the pool; reads the two IIO drivers through sysfs |
| moving average | `app/imx6d.c` 23-42, `app/myctl.c` 22-47 | ring, index, count, sum | `ma_filter`, `ma_init` | called by the ICM20608 task and by myctl |
| sysfs access | `app/imx6d.c` 44-238 | none | read a text, an integer, a float; find a device | between the daemon and the IIO drivers |
| key driver | `INPUT_KEY/input_key.c` | interrupt, kernel timer, input device | interrupt, timer handler, init, exit | the input core; myctl reads its events |
| ICM20608 char driver | `SPIICM-20608/spi_ICM20608.c` | one global structure, registrations | probe, remove, open, read | the SPI core, the chip |
| AP3216C char driver | `IIC_AP3216C/iic_ap3216c.c` | one global structure, registrations | probe, remove, open (resets the chip), read | the I2C core, the chip |
| AP3216C IIO driver | `IIO_IIC_AP3216C/iio_ap3216c.c` | a mutex, the chip's mode | probe, remove, channel read | the I2C core, the IIO core, the chip |
| ICM20608 IIO driver | `IIO_SPI_ICM_20608/iio_icm_20608.c` | the chip's registers | probe, remove, channel read | the SPI core, the IIO core |
| RAM block device | `BLOCK_DEV/ramdisk.c` | the buffer, queue, disk | init, exit, bio transfer | the block layer |
| LED driver | `LED/leddriver.c` | one global structure, registrations, the GPIO level | probe, remove, open, write | `task_blink_led`, myctl |
| myctl | `app/myctl.c` | seven filters, the menu | menu and sampling loops | sysfs, LED, key events |
| tracing script | `debug_tools/driver_debug.sh` | the kernel's ftrace settings | start, stop, reset, kprobes | tracefs |
| build files | `build.sh`, Makefiles, cmake | none | build | - |

What is hard about each, and what makes it right:

- **Thread pool.** Lost wakeups, a stale tail, tasks dropped by the shutdown, a
  submit that races the destruction, a `pthread_create` that fails half way. It
  is right when every accepted task runs once and in order, every node has one
  owner, and the pool is freed only when no thread can reach it.
- **Daemon.** Tasks overlap because a period is 200 ms and a read may take
  longer, or hang. They are given pointers into main's stack. It is right when
  the sample locks are never leaked, the filters stay in step, a hung sensor
  does not starve the other one, and every way out of main cleans up.
- **Moving average.** Index wrap-around, and the running sum that must lose
  exactly what it once gained.
- **Key driver.** An interrupt, a timer handler that can be interrupted between
  its two halves, and init and exit that run while the key may move. It is right
  when a bounce never ends in a wrong key state and no handler runs into
  something that is missing.
- **Character drivers.** No locks; all open files share one structure; results
  of bus transfers are dropped; a failed probe undoes nothing; the SPI driver
  moves chip select by hand, around the set-up's accesses as around each read's.
  They are right when an undisturbed read hands out one sample, a disturbed one
  nothing worse than a frame cut short, and a bound driver is set up.
- **IIO AP3216C.** Set-up and rollback of the chip, decoding with overflow flags.
- **RAM disk.** Init goes on after each failure and returns the error at the end;
  bios are copied without the lock. It is right when an init that returns 0 has
  everything, and a bio gets, word by word, what was there or what it wrote.
- **LED driver.** The device file works while led_init is half way and after
  remove, probe ignores led_init's result, and a blink holds the LED over a sleep.
  It is right when the LED shows what was last asked for, no blink leaves it on,
  and remove gives back what was taken.
- **IIO ICM20608.** Probe ignores every write to the chip; a frame is seven reads.
  It is right when the scales fit the ranges unless a write was lost, and frames
  are fresh, in order, and (for the daemon) free of errors.
- **Tracing script.** Settings made by one command and met by a later one.

`PROJECT.json` lists under "hazards" where in the code each of these bites, and
which property is about it.

## 2. The modules

| # | module | models | proved |
|---|---|---|---|
| 1 | `TaskPool` | abstract specification of the pool: a FIFO, one task per worker, open / closing / closed | - |
| 2 | `ThreadPool`, `MCThreadPool` | the pool itself; implements `TaskPool` | every safety property, and the refinement: `ThreadPoolProof` |
| 3 | `Imx6d`, `MCImx6d` | the daemon, composed with `TaskPool` | every safety property: `Imx6dProof` |
| 4 | `MovingAverage`, `MCMovingAverage` | the filter | every property: `BufferProof` |
| 5 | `KeyInput` | the key driver with its init and exit | every safety property: `KeyInputProof` |
| 6 | `SpiIcm20608`, `MCSpiIcm20608` | the SPI character driver, its chip and its chip select line | every property, frames for one read() at a time: `SpiIcm20608Proof` |
| 7 | `Ap3216cChip`, `IicAp3216c`, `IioAp3216c`, `MCAp3216c` | two drivers that take turns on one chip | every property: `Ap3216cProof` |
| 8 | `IioIcm20608` | the IIO driver of the ICM20608 with its readers in both programs | every property: `IioIcm20608Proof` |
| 9 | `LedDriver` | the LED driver, blink tasks and `myctl led` | every property: `LedDriverProof` |
| 10 | `Ramdisk` | init that falls through its failures, bios segment by segment, memcpy word by word | every property: `BufferProof` |
| 11 | `AtomicRead` | abstract specification of reading a sensor; `IioAp3216c` implements it | the refinement, in the proof module of 7 |

### ThreadPool and TaskPool

A thread's place is `pc[t]`. A step is one stretch of code between two points at
which another thread can be seen. Taking the mutex is a step (`Acquire`, also
after a wakeup); the two pointer updates of an enqueue (`SubmitLink`,
`SubmitSignal`) and of a dequeue (`Check` reads the head, `Pop` advances it) are
separate steps inside the critical section, so what another thread without the
mutex would see in between is there to be seen. Allocation and freeing of nodes
happen outside the mutex, as in the code, and an address that was freed can be
handed out again at once.

- worker loop 267-292: `Acquire`, `Check`, `Pop`, `Finish`, `SpuriousWakeup`
- submit 294-318: `SubmitAlloc`, `SubmitRefuse`, `SubmitLink`, `SubmitSignal`
- create 509-553: `Alloc`, `CreateThread`, `CreateFails`, `Shutdown`,
  `RollbackJoin`, `RollbackFree`, `CreateDone`
- destroy 555-581: `Destroy`, `Shutdown`, `Join`, `DestroyFree`

External: pthread mutexes, condition variables (a signal wakes one waiter if
there is one, a broadcast all, a wait may end by itself), join, malloc. Any
thread may submit. In this program only main does; the pool has no such rule,
and a submit from a task function is the only one that can meet the shutdown.

`TaskPool` is what the pool promises. The refinement maps its `queue` to the
nodes found by following `next` from `head`, `running` to the node between its
dequeue and its free, and `phase` to `mem` and `shutdown`. A task counts as
accepted when its node is linked.

A worker that sleeps may always wake up spuriously, so that TLC's own deadlock
check says little of the pool. `NobodyStuck` names the threads that can go on
(`CanRun`) and counts no sleeper among them.

### Imx6d

`Imx6d` EXTENDS `TaskPool`: the daemon is modelled on top of the abstract pool,
which `ThreadPool` is checked to implement. main is a sequence of steps (`mpc`)
with every failure of each: `FindDevices`, `CreatePool`, `CreateTimer`,
`ArmTimer`, `CreateEpoll`, `AddToEpoll`, then `Wait`, `Read`, `SubmitPair`, and `Cleanup`,
`DestroyPool`, `Return`. `Closes` has, for each way out, the descriptors that
its own lines close (none, `tfd`, or both), and `fds` counts what is opened and
closed, so that a forgotten descriptor and one closed twice both show. A task is
at `place[w]`, at attribute or filter `k[w]`; `trylock`, each attribute read, each
filter update and the unlock are steps of their own. A read yields a value, `-EOVERFLOW`, or another error, and the code's
distinction between them is `Tolerated`.

### MovingAverage

`Filter(val)` is one call of `ma_filter`. Samples are integers. The history
variable `total` holds the prefix sums of what was fed, so that the sum over
a window is a difference of two of them and no recursion is needed.

### KeyInput

`Edge` moves the key; `Interrupt` is `key0_handler`; `Expire` and `Report` are
the two halves of the timer handler, which the interrupt may separate. Init and
exit are one action per call. Time is counted in ticks of the debounce time.
`fault` becomes true where a handler uses a timer that was not set up, an input
device that is not there, or the memory of an unloaded module; then nothing
happens any more. `Calm` says whether the key rests during load and unload.
Exit is modelled as the code has it: `Unregister` gives the device's only
reference back and `FreeDevice` a second one in freed memory, which may go
unnoticed or stop the kernel; and `DelTimerSync` does not come back when
keyio_init had failed and the timer was never initialised.

### SpiIcm20608

Probe is one registration after the other (`Acquire`); a failure keeps the
earlier ones. An access to the chip is three steps, whoever makes it: chip select
low, the transfer (which begins when the bus is free, and ends), chip select
high. They are `RegSelect`, `RegTransfer`, `RegTransferEnds`, `RegDeselect` for
the set-up, in the order of `RegSteps`, and `Select`, `Transfer`, `TransferEnds`,
`Deselect` for a read(), which before them loads the spi_device pointer (`Load`)
and after them makes one store per axis into the global structure (`Store`) and
one copy per axis out of it (`Copy`). `Release` is a step of remove; the last of
them is the gpio_free of a line that probe does not request, and `line` says who
had requested it.

Chip select is a plain level that every party sets. `cs` also tells what the chip
has heard since it fell: nothing, the command to read, or to write. Raised in the
middle of a burst, it leaves the axes before the cut valid and the rest of the
buffer as it was, that is, garbage; raised or lowered around a write it
makes the chip miss it, or take other bytes for settings (`Start`). A sample is a
number, and a frame is whole when all its axes carry the same one. The history
variables `hurt` and `failed.overlap` remember that two accesses met.

### Ap3216cChip, IicAp3216c, IioAp3216c, MCAp3216c

The chip is external: a mode register that ignores writes during a reset, six
data registers in the layout of iio_ap3216c.c 45-58, transactions that may fail.
`IicAp3216c` is the character driver (open resets and enables, read fetches six
bytes in six transactions, decodes them into the global structure and copies
them from there, an unsigned short into a short of 16 bits: `ShortOf`). `IioAp3216c` is the IIO driver (probe with read-back and
rollback, remove, reads under the mutex). `MCAp3216c` composes the two over one
chip: both match the same device, so one binds only when the other is away, and
meets the chip as the other has left it.

### IioIcm20608

`stage` is the next of probe's writes (reset, wake-up, gyroscope range,
accelerometer range), then the identity check, the registration, and what
follows. Each write reaches the chip or is lost, and probe does not look;
`lost` remembers which were, in this probe. The chip may have been left as the
character driver leaves it, with other ranges. A user reads channel after
channel: `Transfer` fills `buf` of its own icm20608_read_raw, `Decode` makes the
value of it, and another user, the chip and a remove may come between. The
daemon gives a frame up at the first error, the monitor of myctl takes it for 0.
myctl feeds its filters after each group of three values; the model does it at the
end of the frame, as the filters are its own.

### AtomicRead

What a program may expect of reading a sensor: the read takes effect in one
moment between its call and its return (`Perform`), and yields what the sensor
shows then, or an error. `IioAtomic` says that the IIO driver of the AP3216C
implements it for each channel, with `now` the three channels decoded from the
registers: the effect is the bus transfer, and the decoding after the mutex is
released belongs to the answer already. The other drivers implement no such
thing: a frame of the SPI driver may be cut short (`FrameCutShort`), the character
driver of the AP3216C fetches byte by byte (`IicExact` says when that does no
harm), and a frame of the IIO ICM20608 is a read per channel (`FrameInOrder`).

### LedDriver

`stage` is the next step of led_init, `held` what it has got. A registration that
fails ends led_init (but for the device number, which it does not check), and
the device is bound all the same. The device file is there from `HasDevice` on,
so users may write before the GPIO is known. `Remove` is led_exit as a whole:
cdev_del comes first, and nothing after it can be seen by a user; a class pointer
that is an error stops it in device_destroy. `others` are the lines other
drivers own; gpio_free takes the line whose number it is given from whoever has
it. `last` remembers who set the LED's line last and what that should show.

### Ramdisk

One action per step of init with its failure, one for exit, and for bios
`Submit`, the memcpy of a segment word by word, `End`. A segment is one sector
of `Width` words; `CopyWord` moves one of them and `CopyLast` the last, which
goes on to the next segment, and any other bio may come between two words, as no
lock is held. Submitters write their own name, so a read tells whose write it
met. `held` collects what each word has held since a bio was submitted. `CopyStray` is a copy where the buffer is NULL
or freed or the module dropped, which its init's failures allow.

## 3. What is checked

| run | specification and bounds | shows |
|---|---|---|
| `pool` | `ThreadPool`, 3 workers + main, 3 addresses, all submit, fair | list well formed, exact ownership of nodes, nothing freed too early, nothing left at the drain, no lost wakeup, no deadlock; the pool implements `TaskPool`; accepted tasks run; create and destroy return |
| `imx6d_safety` | `Imx6d`, 4 workers, backlog 3, window 3 | main outlives its tasks; clean exit on every path; sample locks owned; filters in step; a worker free of silent sensors |
| `imx6d_live` | 3 workers, reads of the AP3216C may hang | the ICM20608 is not starved; main returns unless a hung read holds it |
| `moving_average` | window 3, 8 samples | the sum is that of the last window |
| `key_debounce` | debounce 10 ticks, key at rest during load and unload | no fault; sampled only after a quiet debounce time; the last state is reported, and in time |
| `key_exit` | the key moves at any time | **violated**: the timer outlives `del_timer_sync` |
| `spi_read` | `MCSpiIcm20608`, 2 files, one read() at a time, 2 axes, 2 probes, bus faults | an undisturbed read hands out one current sample, a disturbed one a frame cut short; a bound chip is set up unless a write failed or accesses overlapped; remove gives back all that probe took; the null pointer only kills a read() that began on an unfinished probe |
| `spi_torn` | 2 files, two reads at once, 2 axes | **violated**: a read hands out axes of two samples |
| `ap3216c` | 2 users each, 2 readings, 1 bus error, 2 opens | decoding exact, chip on while open or bound, off when the IIO driver has left; the IIO driver implements `AtomicRead` |
| `iio_icm20608` | the daemon and a monitor, 3 channels, 3 samples, any write lost | scales fit the chip unless just those writes were lost; frames fresh and in order |
| `led` | 2 blinks, 1 command, a failure at every step | the LED shows what was last asked for; remove is complete, and exact after a whole init |
| `ramdisk` | 2 submitters, 2 sectors of 2 words, a failure at every step | bios exact word by word; an init that returns 0 is sound |

The two violations are recorded as findings. `input_key_exit` deletes the timer
(its comment: delete the timer and wait for its handler) before it frees the
interrupt that arms it again. The technical manual promises a complete frame of
a read() of the SPI driver; two concurrent reads tear one through the global
structure.

### Bounds

- Three workers and three addresses: two workers can race over one signal while
  a third sleeps, the list has a head, a middle and a tail, and an address comes
  back while two others are in use. More addresses than workers is not needed for
  a backlog: tasks may run for as long as they like. The daemon's four workers
  are all there in `imx6d_safety`; the liveness run has three, which is one
  hung, one at trylock and one that works.
- `MaxQueue` (backlog) is 3 and 2: longer than the pair main submits at once, and
  reached, so that a refused submit happens. The code has no such bound.
- `Window` 3 and 8 samples wrap the ring more than twice; the proof covers every
  window. In `imx6d_live` the window is 1, as no property there looks at it.
- `Debounce` 10 ticks is the code's 10 ms; bounces can come at each of them.
- `NAxes` 2 stands for the seven: a tear or a cut needs two, and chip select can
  fall and rise before, between and after them. `MaxProbes` 2 gives a probe after
  a failed or a removed one; `MaxSample` is 1 in `spi_read`, an older and a newer
  sample (the chip starts with sample 0), and 2 in `spi_torn`. The proofs cover every
  number of axes, samples and probes.
- `MaxErrors` 1: every single transaction of every sequence fails in some
  behaviour. `MaxOpens` 2: one open in the middle of another.
- `MaxConcurrent` 1 in `spi_read` and `ap3216c`: what holds of reads that are
  alone. Overlapping reads are the business of `spi_torn`, and in `ap3216c`
  open() of one file still races read() of another. Of the properties of
  `spi_read` only the two about frames need the bound; the theorems
  for the others (`SpiBound` among them, where three and more parties move chip
  select) hold without it.
- `iio_icm20608`: three channels have a first, a middle and a last, three samples
  can be taken between any two of them. `ramdisk`: with two sectors two bios
  overlap wholly, in part or not at all, and with two words a copy can be met in
  the middle of a sector; the proof covers every capacity and width. `led`: two blinks that overlap and a
  command between them; the life of the module repeats without a bound.
- Symmetry is used over workers, users and open files, in runs without liveness.

### Deadlock

Deadlock is checked in all runs but these. Where a program ends (`Over`,
`Ended`, `BoundReached`) a stuttering disjunct says so. The SPI, AP3216C and
`key_exit` configurations switch the check off: a driver that is removed with
its last probe used up, or a kernel that has faulted, really stops; so do `led`
and `ramdisk`, for a kernel that stopped in device_destroy or in init.

### Fairness

- `ThreadPool`: a thread that can run does (weak). A thread that asks for a mutex
  which is released again and again gets it (strong on `Acquire`), as the futex
  queue gives it. A task function returns (strong on `Finish`, since a task may
  also submit). Nobody has to submit or to destroy, and a sleeping worker is
  woken by nothing but a signal: spurious wakeups get no fairness.
- `Imx6d`: main's steps, the taking of a queued task by some idle worker, and the
  steps of a task are weakly fair. Reads of a sensor in `Stuck` get no fairness.
  main need not leave its loop, and the timer need not expire.
- The LED, ICM20608 IIO and RAM disk models state no fairness, and their runs
  check safety only.
- `KeyInput`: the interrupt, the expired timer and the passing of time are fair,
  and so are the steps of init and exit. Moving the key is not.

## 4. What is proved

TLAPS checks, for every value of the constants that the named assumptions allow:

| theorem | says | from |
|---|---|---|
| `TypeCorrect` | `Spec => []TypeOK` of the pool | `TypeInv` |
| `FreedUnused` | `Spec => []NoUseAfterFree`: the pool is never freed under a thread that can reach it | `IndInv` |
| `QueueStaysList` | `Spec => []QueueWellFormed` | `PoolInv` |
| `NodesOwned` | `Spec => []OwnershipExact` | `PoolInv` |
| `NothingToDrain` | `Spec => []DrainFindsNothing` | `PoolInv` |
| `WakeupsSuffice` | `Spec => []NoLostWakeup` | `PoolInv`, `AwakeInv` |
| `NobodyIsStuck` | `Spec => []NobodyStuck`: no deadlock, at the mutex, asleep or in a join | `PoolInv`, `AwakeInv`, `StopInv` |
| `PoolRefines` | `Spec => ImplementsTaskPool` | `PoolInv`, `StepMaps` |
| `FilterTypes` | `FilterSpec => []FilterTypeOK` | `FilterStep` |
| `FilterAveragesWindow` | `FilterSpec => []AveragesWindow`: the sum is that of exactly the last `Window` samples | `FilterStep` |
| `FilterRing` | `FilterSpec => []RingHoldsWindow` | `FilterStep` |
| `ImxTypeCorrect` | `Spec => []ImxTypeOK` of the daemon | `TypeInv` |
| `MainOutlivesTasks` | `Spec => []PathsAlive` | `IndInv` |
| `MainExitsClean` | `Spec => []CleanExit` | `IndInv` |
| `SampleLocksOwned` | `Spec => []SampleLockOwned` | `IndInv` |
| `FiltersStayInStep` | `Spec => []FiltersInStep` | `IndInv` |
| `ServiceGoesOn` | three workers imply `Spec => []SomeoneServes` | `IndInv` |
| `KeyTypeCorrect` | `Spec => []KeyTypeOK` of the key driver | itself |
| `NeverSampledEarly` | `Spec => SampledWhenQuiet` | `Countdown` |
| `CalmIsSafe` | `Calm` implies `Spec => []NoFault` | `CalmInv` |
| `RestingKeyReported` | `Calm` implies `Spec => []SettledInTime` | `CalmInv`, `Countdown`, `Followed` |
| `IcmTypes` | `Spec => []IcmTypeOK` of the IIO ICM20608 | `IcmInv` |
| `IcmScales` | `Spec => []ScaleTrue` | `IcmInv` |
| `IcmFrames` | `Spec => []FrameInOrder` | `IcmInv` |
| `LedTypes` | `Spec => []LedTypeOK` of the LED driver | `LedInv` |
| `LedObeys` | `Spec => []LedAsAsked` | `LedInv` |
| `LedRemoves` | `Spec => []RemoveExact` | `LedInv` |
| `SpiTypes` | `Spec => []SpiTypeOK` of the SPI driver | `DriverInv` |
| `SpiBound` | `Spec => []BoundReady`, however many reads move chip select | `DriverInv`, `LineInv` |
| `SpiReleases` | `Spec => []RemoveReleasesAll` | `DriverInv` |
| `SpiNull` | `Spec => []NullOnlyUnfinished` | `DriverInv` |
| `SpiFrames` | `MaxConcurrent = 1` implies `Spec => []FrameComplete` | `DriverInv`, `Frames` |
| `SpiCuts` | `MaxConcurrent = 1` implies `Spec => []FrameCutShort` | `Frames` |
| `ApTypes` | `Spec => []ApTypeOK` of the two AP3216C drivers | `Places` |
| `OpensLeaveOn` | `Spec => []OpenChipOn` | `Modes` |
| `BoundLeavesOn` | `Spec => []BoundChipOn` | `Modes` |
| `GoneLeavesOff` | `Spec => GoneChipDown` | `Modes` |
| `IioReadsExact` | `Spec => []IioExact` | `Fetched` |
| `IioReadsAtomic` | `Spec => IioAtomic` | `Places`, `Asks` |
| `IicReadsExact` | `Spec => []IicExact` | `Calms` |
| `RamTypes` | `Spec => []RamTypeOK` of the RAM disk | `RamInv` |
| `RamBios` | `Spec => []BiosExact` | `RamInv` |
| `RamZero` | `Spec => []ZeroMeansSound` | `RamInv` |

**Pool, life.** Assumption `PoolAssumption`: at least one worker, main is not one
of them, NULL is no address, finitely many addresses. `TypeOK` is not inductive
alone: `Pop` follows `next` from the worker's `task`, so `TypeInv` adds
`Popping`, that a worker about to advance the head remembers a real node. For
`NoUseAfterFree`, `IndInv` adds two invariants. `LockInv`: a thread is between
lock and unlock exactly when it owns the mutex. `LifeInv`: how far creation,
rollback and destruction have got, in terms of the loop variable `i` - workers
not created are unborn, workers already joined have left - which is what makes
"freed" follow from the two join loops, of which one counts up and the other
down. `GoneStays` says that no step of another thread brings a worker back that
has left.

**Pool, queue.** `QueueWellFormed` says nothing of the nodes that are not queued,
and a freed address comes back, so alone it is not inductive. `QueueInv` says
that some sequence `s` of nodes satisfies `ListInv(s)`: the pointers spell `s` and
`tail` fits it (`Shape`), the nodes off the list belong to one submitter or one
worker each and are not on it (`Apart`), a worker at "pop" remembers the present
head (`Remembers`), and nothing else is allocated (`AllOwned`). There is a lemma
for each step that touches the list or an owner; `LinkKeeps` takes `s` to
`Append(s, node)` and `PopKeeps` to `Tail(s)`, `Frame` does the others. `EndInv`
adds what the end needs: a worker leaves only when `shutdown` is set and the head
is NULL, and both stay so, since a submit is refused from then on; and main is at
`destroy` only with every worker born, so that at least one has left that way.
`QueueIs` then shows that the pointers determine the list (the least position at
which two lists differed would have equal predecessors, which is where the
well-foundedness of `<` comes in), so that `Queue`, defined by CHOOSE, is `s`.
`AwakeInv` counts: what a step adds to the list it adds to the awake workers.

**Pool, deadlock.** `SomebodyRuns` goes through the ways to wait. Whoever holds the
mutex is inside a critical section and goes on (`LockInv`). If nobody does, every
thread at a lock goes on. main in a join waits for a worker that was created
(`EndInv`, and `StopInv` for the rollback) and cannot be asleep, since shutdown is
set (`StopInv`, `AwakeInv`); so the worker goes on or has left (`BornGoesOn`). And
with a task queued and main outside, some worker is awake, since otherwise
`AwakeInv` would count more tasks than workers on their way.

**Pool, refinement.** `AbstractActions` spells out TaskPool's actions under the
mapping, and one lemma per step that TaskPool sees says which it is: `LinkAccepts`,
`PopStarts`, `FinishFinishes`, `ShutdownCloses`, `FreeVanishes` (both ways of
freeing the pool, and the failed allocation). `UnseenSteps` is the rest.

**Filter.** Assumption `FilterAssumption`: the window is positive, samples are
integers. `AveragesWindow` is not inductive: that the subtracted slot is the
oldest sample in the window is `RingHoldsWindow`, which places every sample of
the window in the ring by its age (`SlotOf`). The proof splits on the ring being
full or not; `RingStep` shows that every sample gets one older.

**Daemon.** Assumptions `ImxAssumption` and `TaskPoolAssumption`: two tasks, a
positive window, any set of workers, any bound on the backlog. `MainInv` says
which descriptors are open at each of main's places, and each list of `Closes`
is held against it, `RunInv` that a worker has a place exactly
when it runs a task, and feeds filters only for the ICM20608. `FiltersInStep` compares
filters that have been fed equally often in the current pass; what makes it
inductive is `Lead`: a filter that has been fed is exactly one sample ahead of one
that has not. That there is only one feeder follows from `SampleLockOwned`; so does
`ServiceGoesOn`, in which each sensor holds up its one lock owner and nobody else.

**Key driver.** Assumption `KeyAssumption`: the debounce time is positive.
`Countdown`: the ticks an armed timer has left and the ticks since the last
interrupt add up to the debounce time. `CalmInv` says for each stage of init and
exit which of interrupt, timer and input device may be there; it needs `Calm`,
and `key_exit` shows what happens without. `Followed` is what makes `SettledInTime`
inductive: a live driver with neither an interrupt to handle nor a timer running has
the present level in its hand or has reported it. `Countdown` then turns "running"
into "due".

**IIO ICM20608.** Assumption `IcmAssumption`: the daemon's threads are not the
monitors; at least one channel, any bound on the samples. `Settings` says what the
chip is set to after each write that was not lost. `FrameInOrder` speaks of
finished frames; `Partial` says the same of the channels read so far (`Filled`),
and that between transfer and decoding the value under way is none older than
those before it and none newer than what the chip holds. `GotKeeps` adds a value,
`OthersKeep` says that another user's step leaves a frame alone.

**LED.** Assumption `LedAssumption`: a blink task is no command. `Acquired` ties
what is held to the stage of led_init; the class is an error only where nothing
but the region and the cdev can be held, so even the led_exit that stops half
way leaves nothing. `BlinkOnLine` is what `LedAsAsked` needs to be inductive: a
blink in its sleep wrote to the LED's line, and the driver keeps the number of
that line until the file is closed, so the off-write meets the same line.
`WholeLife` says what follows from a led_init that returned 0.

**SPI driver.** Assumption `SpiAssumption`: finitely many files, at least one axis,
any bounds. There are three invariants, each resting on those before it.
`DriverInv` is about the registrations and the pointer. That `held` keeps its type
is already more than a type: no registration is given back twice. `Counts`
says so by stage: what the probe under way, or the bound driver, holds (`Has`,
from the orders of acquisition and of release) is held at least once, what it
does not hold at most once for each *earlier* probe, and exactly so if no probe
has failed. `Fresh` keeps the null pointer to the stages before the end of the
first probe, and `Pointers` follows a pointer that a read() has loaded and not
yet used.
`LineInv` is about chip select. `Bus` says whose transfer runs, `Commands` that a
chip that has been sent a command still has its owner in the access, `Overlaps`
that accesses which have met are noted; so an access of the set-up that has met
none has the chip with it (`Settled`), and `Written` follows the registers
through spi_icm20608_reg_init.
`Frames` is about read(), and assumes `MaxConcurrent = 1`, since without it the
property is false (run `spi_torn`): the other readers are quiet (`Alone`). `Passage`
follows a frame, whatever it is worth, from the stack buffer through the
global structure to the caller; `Sampled` says what it is worth when nothing
has met it. `OneReader` reduces each step to its own reader, and
`RegistersKeepFrame` does the set-up's steps, of which the rise of chip select is
the one that cuts.

**AP3216C.** Assumptions `ChipAssumption` (readings in the chip's ranges),
`IicAssumption`, and `IioAssumption`: "free", which stands for the mutex without
an owner, is no process. Everything rests on `Turns` in the invariant `Places`:
while one driver touches the chip the other is not bound and has no user at
work. `OpenChipOn` speaks of a moment when no open() is under way; `MadeGood` says
what makes it come true, that a chip which is not on for a user past its enable
has another open still before its own, and `Waited`, that a reset under way has
its open still asleep. `Fetched` follows two bytes from the bus to the value;
`IioDecodes` is the arithmetic of iio_ap3216c.c 183-205 for every reading, not
the two of the run. `Got` does the same for the six registers, the structure and
the copy of the character driver (`ShortBits`: the short has the bits of the
word; `ShortSame`: ten bits stay what they are); it is inductive for a read() that is `Alone`,
which `calm` implies, so `IicReadsExact` needs no bound on the number of readers.
For `IioReadsAtomic`, `DecodesShown` says that what the bus hands over decodes to
what the registers showed at that moment, and `Asks` that a user with no call under
way holds no answer; `UserReads` then finds the abstract step of each of its steps.

**RAM disk.** Assumption `RamAssumption`; any number of submitters, sectors and words.
`LifeInv` follows init: as long as its result is no error it has got what it should
at each stage (`Whole`) and the buffer is there, and bios come only after add_disk.
`Progress` keeps a bio's offset in step with the segments it has done, which puts
every copy inside the buffer (`CopiesInside`); `Copied` says of the words moved so
far (`Moved`) what `BiosExact` says at the end, that a word read, or written, is
among what `held` has collected since the submit. `MoveKeeps` is the step of
memcpy itself, whoever else is at work, and `MovedNext` that it moves one word
more and no other.

Only model-checked, and why:

- liveness (`AcceptedRuns`, `CallsReturn`, `IcmNotStarved`,
  `DaemonExits`, `SettledReported`): proofs of it need fairness and ENABLED,
  which the prover does not handle. What of it is safety is stated and proved on
  its own: `NobodyStuck`, `SomeoneServes`, `SettledInTime`.

The type invariants are proved and, but for `SpiTypeOK` and `ApTypeOK`, which say
more than types, in no run; nor is `IioExact`, of which `IioAtomic` is the stronger
form that the run checks.

## 5. What is assumed and left out

- `NoFault` is about the handlers, and about a key that rests during load and
  unload. With a moving key the code's order of request_irq, init_timer and
  input_allocate_device, and of del_timer_sync and free_irq, does lead to faults;
  `key_exit` shows the second.
- Two things that input_key_exit does whatever the key does are in the model and
  in no property: input_free_device after input_unregister_device (lines 244-245)
  puts a device that is gone, with either outcome possible; and after a failed
  keyio_init, whose result nobody looks at, del_timer_sync (232) searches for ever
  for the base of a timer that was never initialised, as Linux 4.1.15 does. That
  exit comes to an end is therefore not claimed.
- icm20608_remove frees the chip select line (lines 272-274) although the
  gpio_request of probe is commented out (245-254). Who did request it, the SPI
  controller if technical_manual.md 607 is right, loses it on every remove. The
  step is in `SpiIcm20608` (`line`); `RemoveReleasesAll` is about the four
  registrations only. So is the type invariant's "no registration twice".
- Chip select of `SpiIcm20608` is moved by the driver alone, as develop_blog.md 543
  describes it. An SPI core that also moves it would add edges. Before line 236 has
  looked the line up, a read() moves whatever GPIO the zeroed structure names;
  `Select` lets it be any line.
- iic_ap3216c.c 222 says that all sensor data is set to 0 when the infrared
  reading is invalid; the code (231) keeps the brightness, and so does
  technical_manual.md 515. The model follows the code, and `IicExact` says so. Its
  brightness is the 16 bits handed out: a caller that takes the short of `data[3]`
  for signed sees 32768 and more as negative.
- References to device-tree nodes that probes take and no remove puts
  (of_get_parent at spi_ICM20608.c 235, of_find_node_by_path at leddriver.c 134
  and input_key.c 126) are in no module: without CONFIG_OF_DYNAMIC they count
  nothing. `RemoveExact` and `RemoveReleasesAll` do not speak of them.
- C floats are integers in `MovingAverage`: the drift of a running float sum is
  out of reach.
- The frame of a daemon's sample is seven sysfs reads and may mix samples of the
  chip; `FrameInOrder` says what stays true of it.
- led_init and led_exit are marked `__init` and `__exit` but run from probe and
  remove; that their code may have been discarded is not modelled, the device is
  bound while the module loads. Writes of other than one byte are left out, and
  so is what a write does to GPIO 0 before the LED's number is known.
- `myctl led on`, as the README of the repository has it, gives
  `control_led` the number atoi makes of "on", which is 0, and switches the LED
  off; the model starts from the number.
- In `Ramdisk` a segment is one sector, a word is moved at once, and a bio never
  leaves the disk, which the block layer checks. open, release and getgeo change nothing.
- Timer expirations that main reads late coalesce; the code ignores how many.
- A driver is bound and removed by its module, and open files keep a character
  driver's module loaded.
- `IicAp3216c` leaves out the reference to the adapter that each read takes.
- The failure of copy_to_user, printing, formatting and parsing change no state
  that a property is about.
- sysfs access and `find_iio_device` are sequential code without shared state;
  `Imx6d` uses their outcomes only.
- Not modelled: the menu of myctl and its loops over the AP3216C and the keys,
  which are sequential and print what they read; the tracing script, a
  sequential shell script whose state is the kernel's (reset_trace leaves
  `tracing_thresh` and `max_graph_depth` as they were, which its text shows and
  no model is needed for); the build files, which have no behaviour at run time.
