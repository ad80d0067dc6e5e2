---------------------------- MODULE SpiIcm20608 ----------------------------
(***************************************************************************)
(* The character driver drivers/SPIICM-20608/spi_ICM20608.c: probe and     *)
(* remove, the chip's register setup, and read(), which pulls chip select  *)
(* low by hand, fetches one burst of seven axes, unpacks it into the one   *)
(* global device structure and copies it from there to the caller.         *)
(* No lock guards any of this, and the result of no transfer is looked at. *)
(* So a read() and the set-up of the chip, or two read()s, move the one    *)
(* chip select line under each other: each access is select, transfer,     *)
(* deselect, and anybody's may come between another's.                     *)
(*                                                                         *)
(* A sample is its number; an axis of sample s is worth s, so a frame is   *)
(* whole when its axes are equal.  External, as the code uses them: the    *)
(* chip, the SPI core (one transfer at a time, each may fail; it leaves    *)
(* chip select to the driver, as develop_blog.md 543 has it), the driver   *)
(* core (probe and remove may be repeated), and the device tree, in which  *)
(* the chip select line is found every time or never.  Printing and        *)
(* copy_to_user's failure change no state and are left out.                *)
(***************************************************************************)
EXTENDS Integers, Sequences, FiniteSets

CONSTANTS Readers,        \* open files, one read() at a time each
          NAxes,          \* axes of a frame: 7 in the code, fewer tear as well
          MaxConcurrent,  \* read() calls the users run at once
          BusFaults,      \* an SPI transfer may fail
          MaxSample,      \* bound: samples the chip takes
          MaxProbes       \* bound: times the device is bound

Resources == {"region", "cdev", "class", "device"}
Axes == 1..NAxes   \* accel x y z, temperature, gyro x y z
Garbage == -1      \* what an uninitialised buffer holds, or a deaf chip sends
None == "none"
RegInit == "reg_init"   \* the one user of the bus that is not a reader

ASSUME SpiAssumption ==
    /\ IsFiniteSet(Readers) /\ {None, RegInit} \cap Readers = {}
    /\ NAxes \in Nat \ {0}
    /\ MaxConcurrent \in Nat /\ MaxSample \in Nat /\ MaxProbes \in Nat
    /\ BusFaults \in BOOLEAN

VARIABLES
    stage,    \* what the driver core is doing with the driver
    step,     \* the step of that stage
    access,   \* where reg_init is in its present access to the chip
    probes,   \* probes so far
    held,     \* resources registered and not given back, by kind
    line,     \* who has requested the chip select line from the GPIO core
    priv,     \* icm20608_dev.private_data: "NULL" or "spi"
    failed,   \* history: a probe failed; in this one a register write failed,
              \* or two accesses to the chip overlapped
    written,  \* the chip's registers set since its last reset
    cur,      \* the sample in the chip's data registers
    cs,       \* chip select: "high", "low" with no byte sent yet, or low in
              \* the middle of a command: "reading", "writing"
    bus,      \* whose transfer is running, or None
    burst,    \* the sample it delivers, or Garbage if the chip is not with it
    fields,   \* icm20608_dev.accel_x_adc ... gyro_z_adc
    at,       \* where each reader is
    spi,      \* the spi_device pointer its call has loaded
    axis,     \* the axis it stores or copies next
    data,     \* its stack buffer in icm20608_readdata
    out,      \* its stack buffer in icm20608_read
    since,    \* history: the sample current when its read() began, or after it
              \* when the chip was reset
    began,    \* history: the stage the driver was in then
    hurt      \* history: a bus error or another access met its own

driver == <<stage, step, access, probes, held, line, priv, failed>>
chip == <<written, cur, cs, bus, burst>>
memory == <<spi, axis, data, out>>
history == <<since, began, hurt>>
users == <<fields, at, memory, history>>
vars == <<driver, chip, users>>

Blank == [a \in Axes |-> Garbage]

Init ==
    /\ stage = "unbound" /\ step = 1 /\ access = "idle" /\ probes = 0
    /\ held = [x \in Resources |-> 0]
    /\ line \in {"controller", "nobody"}
    /\ priv = "NULL"
    /\ failed = [probe |-> FALSE, write |-> FALSE, overlap |-> FALSE]
    /\ written = {} /\ cur = 0
    /\ cs = "high" /\ bus = None /\ burst = Garbage
    /\ fields = [a \in Axes |-> 0]
    /\ at = [r \in Readers |-> "closed"]
    /\ spi = [r \in Readers |-> "NULL"]
    /\ axis = [r \in Readers |-> 1]
    /\ data = [r \in Readers |-> Blank]
    /\ out = [r \in Readers |-> Blank]
    /\ since = [r \in Readers |-> 0]
    /\ began = [r \in Readers |-> "unbound"]
    /\ hurt = [r \in Readers |-> FALSE]

-----------------------------------------------------------------------------
\* The chip and its select line, whoever moves it.  A reader is in an access
\* from its select to its deselect, and so is reg_init.
InBurst(r) == at[r] \in {"selected", "transfer", "deselect"}
Reading(r) == at[r] \notin {"closed", "open", "oops"}

\* Chip select falls.  When bytes are being sent just then, the chip takes the
\* next of them for a command, and a zero is one that writes.
Lower == IF cs # "high" THEN cs ELSE IF bus = None THEN "low" ELSE "writing"

\* A transfer starts.  It is a command of its own only if chip select has
\* fallen since the last one; otherwise the chip takes its bytes for more of
\* the last command, and if that was a write they go into its registers.
Start(who, command) ==
    /\ bus = None /\ bus' = who
    /\ burst' = IF cs = "low" THEN cur ELSE Garbage
    /\ cs' = IF cs = "low" THEN command ELSE cs
    /\ written' \in IF cs = "writing" THEN SUBSET written ELSE {written}

\* The first n axes of a burst arrive, the rest of the buffer is as it was.
Arrived(r, n) == IF burst = Garbage THEN data[r]
                 ELSE [a \in Axes |-> IF a <= n THEN burst ELSE data[r][a]]

\* Chip select rises, and cuts short the burst that is running, if one is.
Raise ==
    /\ cs' = "high" /\ burst' = Garbage
    /\ IF bus \in Readers
       THEN \E n \in 0..NAxes : data' = [data EXCEPT ![bus] = Arrived(bus, n)]
       ELSE UNCHANGED data

-----------------------------------------------------------------------------
\* icm20608_probe.  No failure gives back what earlier steps acquired.
Acquisitions == <<"region", "cdev", "class", "device">>

Probe ==
    /\ stage \in {"unbound", "failed", "removed"} /\ probes < MaxProbes
    /\ stage' = "acquire" /\ step' = 1 /\ probes' = probes + 1
    /\ failed' = [failed EXCEPT !.write = FALSE,
                     !.overlap = \E q, r \in Readers :
                                     q # r /\ InBurst(q) /\ InBurst(r)]
    /\ UNCHANGED <<access, held, line, priv, chip, users>>

\* class_create finds the name taken when an earlier probe left its class.
Acquire ==
    /\ stage = "acquire"
    /\ ~(Acquisitions[step] = "class" /\ held["class"] > 0)
    /\ held' = [held EXCEPT ![Acquisitions[step]] = @ + 1]
    /\ IF step < Len(Acquisitions)
       THEN stage' = stage /\ step' = step + 1
       ELSE stage' = "setup" /\ step' = 1
    /\ UNCHANGED <<access, probes, line, priv, failed, chip, users>>

\* An acquisition fails, or there is no cs-gpios property in the device tree,
\* and then there never was.
ProbeFails ==
    /\ stage = "acquire" \/ (stage = "setup" /\ priv = "NULL")
    /\ stage' = "failed" /\ failed' = [failed EXCEPT !.probe = TRUE]
    /\ UNCHANGED <<step, access, probes, held, line, priv, chip, users>>

Setup ==
    /\ stage = "setup"
    /\ priv' = "spi" /\ stage' = "reg_init" /\ step' = 1
    /\ UNCHANGED <<access, probes, held, line, failed, chip, users>>

\* spi_icm20608_reg_init.
\* bug: the chip is reset after it was set up
ResetLast == <<"wake", "who", "ranges", "filters", "power", "reset">>
\* The eight writes behind WHO_AM_I in three groups: the rate and the ranges,
\* the filters, power and FIFO.
RegSteps == <<"reset", "wake", "who", "ranges", "filters", "power">>
Settings == {RegSteps[i] : i \in 1..Len(RegSteps)} \ {"reset", "who"}

\* spi_icm20608_write_reg, or read_regs for WHO_AM_I: chip select falls ...
RegSelect ==
    /\ stage = "reg_init" /\ access = "idle"
    /\ access' = "selected"
    /\ cs' = Lower
    /\ hurt' = [r \in Readers |-> hurt[r] \/ InBurst(r)]
    /\ failed' = [failed EXCEPT !.overlap = @ \/ \E r \in Readers : InBurst(r)]
    /\ UNCHANGED <<stage, step, probes, held, line, priv, written, cur, bus,
                   burst, fields, at, memory, since, began>>

\* ... the transfer waits for the bus ...
RegTransfer ==
    /\ access = "selected"
    /\ access' = "transfer"
    /\ Start(RegInit, IF RegSteps[step] = "who" THEN "reading" ELSE "writing")
    /\ UNCHANGED <<stage, step, probes, held, line, priv, failed, cur, users>>

\* ... and takes effect at its end, unless the chip was not with it all along,
\* which nobody hears of, or the bus reports an error, at which nobody looks ...
TakesEffect(reg) ==
    CASE reg = "reset" -> /\ written' = {} /\ cur' = 0
                          /\ since' = [r \in Readers |-> 0]
      [] reg = "who" -> UNCHANGED <<written, cur, since>>
      [] OTHER -> written' = written \union {reg} /\ UNCHANGED <<cur, since>>

RegTransferEnds ==
    /\ access = "transfer"
    /\ access' = "deselect" /\ bus' = None /\ burst' = Garbage
    /\ \/ /\ IF burst # Garbage THEN TakesEffect(RegSteps[step])
             ELSE UNCHANGED <<written, cur, since>>
          /\ UNCHANGED failed
       \/ /\ BusFaults
          /\ failed' = [failed EXCEPT !.write = TRUE]
          /\ UNCHANGED <<written, cur, since>>
    /\ UNCHANGED <<stage, step, probes, held, line, priv, cs, fields, at,
                   memory, began, hurt>>

\* ... and chip select rises.
RegDeselect ==
    /\ access = "deselect"
    /\ access' = "idle"
    /\ IF step < Len(RegSteps)
       THEN stage' = stage /\ step' = step + 1
       ELSE stage' = "bound" /\ step' = 1
    /\ Raise
    /\ UNCHANGED <<probes, held, line, priv, failed, written, cur, bus, fields,
                   at, spi, axis, out, history>>

\* icm20608_remove.
ReleasesNoDevice == <<"cdev", "region", "class", "line">>   \* bug
ReleasesTwice == <<"cdev", "region", "device", "device", "line">>       \* bug
Releases == <<"cdev", "region", "device", "class", "line">>

PrivCleared == "NULL"   \* bug: the pointer is dropped while files are open
PrivAfterRemove == priv

Remove ==
    /\ stage = "bound"
    /\ stage' = "release" /\ step' = 1
    /\ UNCHANGED <<access, probes, held, line, priv, failed, chip, users>>

\* The last step is gpio_free of the chip select line, which probe does not
\* request: whoever has requested it loses it.  Its level stays as it is.
Release ==
    /\ stage = "release"
    /\ IF Releases[step] = "line"
       THEN line' = "nobody" /\ UNCHANGED held
       ELSE held' = [held EXCEPT ![Releases[step]] = @ - 1] /\ UNCHANGED line
    /\ IF step < Len(Releases)
       THEN stage' = stage /\ step' = step + 1 /\ UNCHANGED priv
       ELSE stage' = "removed" /\ step' = 1 /\ priv' = PrivAfterRemove
    /\ UNCHANGED <<access, probes, failed, chip, users>>

-----------------------------------------------------------------------------
\* The chip takes a sample once it is awake; a burst keeps what it started with.
Sample ==
    /\ "wake" \in written /\ cur < MaxSample
    /\ cur' = cur + 1
    /\ UNCHANGED <<driver, written, cs, bus, burst, users>>

Open(r) ==
    /\ at[r] = "closed" /\ held["device"] > 0 /\ held["cdev"] > 0
    /\ at' = [at EXCEPT ![r] = "open"]
    /\ UNCHANGED <<driver, chip, fields, memory, history>>

Close(r) ==
    /\ at[r] = "open"
    /\ at' = [at EXCEPT ![r] = "closed"]
    /\ UNCHANGED <<driver, chip, fields, memory, history>>

\* read(), spi_icm20608_read_regs: the call loads dev->private_data ...
Load(r) ==
    /\ at[r] = "open"
    /\ Cardinality({q \in Readers : Reading(q)}) < MaxConcurrent
    /\ at' = [at EXCEPT ![r] = "loaded"]
    /\ spi' = [spi EXCEPT ![r] = priv]
    /\ since' = [since EXCEPT ![r] = cur]
    /\ began' = [began EXCEPT ![r] = stage]
    /\ UNCHANGED <<driver, chip, fields, axis, data, out, hurt>>

\* ... chip select falls (or a line that is not the chip's, as long as probe
\* has not looked up which is) ...
Select(r) ==
    /\ at[r] = "loaded"
    /\ at' = [at EXCEPT ![r] = "selected"]
    /\ cs' \in IF priv = "NULL" THEN {cs, Lower} ELSE {Lower}
    /\ LET met == {q \in Readers \ {r} : InBurst(q)}
           others == met # {} \/ access # "idle"
       IN /\ hurt' = [q \in Readers |->
                         hurt[q] \/ q \in met \/ (q = r /\ others)]
          /\ failed' = [failed EXCEPT !.overlap = @ \/ others]
    /\ UNCHANGED <<stage, step, access, probes, held, line, priv, written, cur,
                   bus, burst, fields, memory, since, began>>

\* ... spi_sync_transfer: with no spi_device the kernel oopses, else the
\* transfer starts when the bus is free ...
Transfer(r) ==
    /\ at[r] = "selected"
    /\ IF spi[r] = "NULL"
       THEN /\ at' = [at EXCEPT ![r] = "oops"]
            /\ UNCHANGED <<written, cs, bus, burst>>
       ELSE /\ at' = [at EXCEPT ![r] = "transfer"]
            /\ Start(r, "reading")
    /\ UNCHANGED <<driver, cur, fields, memory, history>>

\* ... and ends, with what the chip sent or part of it and an error that
\* nobody sees ...
TransferEnds(r) ==
    /\ at[r] = "transfer"
    /\ at' = [at EXCEPT ![r] = "deselect"]
    /\ bus' = None /\ burst' = Garbage
    /\ \/ /\ data' = [data EXCEPT ![r] = Arrived(r, NAxes)]
          /\ UNCHANGED hurt
       \/ /\ BusFaults
          /\ \E n \in 0..NAxes : data' = [data EXCEPT ![r] = Arrived(r, n)]
          /\ hurt' = [hurt EXCEPT ![r] = TRUE]
    /\ UNCHANGED <<driver, written, cur, cs, fields, spi, axis, out, since,
                   began>>

\* ... and chip select rises, whoever's transfer is running.
Deselect(r) ==
    /\ at[r] = "deselect"
    /\ at' = [at EXCEPT ![r] = "store"] /\ axis' = [axis EXCEPT ![r] = 1]
    /\ Raise
    /\ UNCHANGED <<driver, written, cur, bus, fields, spi, out, history>>

OneAxisShort == NAxes - 1   \* bug: the last axis keeps its old value
LastAxis == NAxes

\* icm20608_readdata, one assignment to the global structure.
Store(r) ==
    /\ at[r] = "store"
    /\ fields' = [fields EXCEPT ![axis[r]] = data[r][axis[r]]]
    /\ IF axis[r] < LastAxis
       THEN at' = at /\ axis' = [axis EXCEPT ![r] = @ + 1]
       ELSE at' = [at EXCEPT ![r] = "copy"] /\ axis' = [axis EXCEPT ![r] = 1]
    /\ UNCHANGED <<driver, chip, spi, data, out, history>>

\* icm20608_read, one assignment from it.
Copy(r) ==
    /\ at[r] = "copy"
    /\ out' = [out EXCEPT ![r][axis[r]] = fields[axis[r]]]
    /\ IF axis[r] < NAxes
       THEN at' = at /\ axis' = [axis EXCEPT ![r] = @ + 1]
       ELSE at' = [at EXCEPT ![r] = "return"] /\ axis' = [axis EXCEPT ![r] = 1]
    /\ UNCHANGED <<driver, chip, fields, spi, data, history>>

\* copy_to_user and return; the stack buffers are gone.
Return(r) ==
    /\ at[r] = "return"
    /\ at' = [at EXCEPT ![r] = "open"]
    /\ spi' = [spi EXCEPT ![r] = "NULL"]
    /\ data' = [data EXCEPT ![r] = Blank] /\ out' = [out EXCEPT ![r] = Blank]
    /\ since' = [since EXCEPT ![r] = 0] /\ hurt' = [hurt EXCEPT ![r] = FALSE]
    /\ began' = [began EXCEPT ![r] = "unbound"]
    /\ UNCHANGED <<driver, chip, fields, axis>>

Read(r) ==
    \/ Load(r) \/ Select(r) \/ Transfer(r) \/ TransferEnds(r) \/ Deselect(r)
    \/ Store(r) \/ Copy(r) \/ Return(r)

Registers == RegSelect \/ RegTransfer \/ RegTransferEnds \/ RegDeselect

Next ==
    \/ Probe \/ Acquire \/ ProbeFails \/ Setup \/ Registers
    \/ Remove \/ Release
    \/ Sample
    \/ \E r \in Readers : Open(r) \/ Close(r) \/ Read(r)

Spec == Init /\ [][Next]_vars

-----------------------------------------------------------------------------
Stages == {"unbound", "acquire", "setup", "reg_init", "bound", "release",
           "removed", "failed"}
Places == {"closed", "open", "loaded", "selected", "transfer", "deselect",
           "store", "copy", "return", "oops"}

\* The types; among them that remove gives back no registration twice.  It does
\* give back one thing that probe never took, the chip select line.
SpiTypeOK ==
    /\ stage \in Stages
    /\ step \in 1..Len(RegSteps) /\ probes \in 0..MaxProbes
    /\ access \in {"idle", "selected", "transfer", "deselect"}
    /\ held \in [Resources -> 0..MaxProbes] /\ line \in {"controller", "nobody"}
    /\ priv \in {"NULL", "spi"}
    /\ failed \in [{"probe", "write", "overlap"} -> BOOLEAN]
    /\ written \subseteq Settings /\ cur \in 0..MaxSample
    /\ cs \in {"high", "low", "reading", "writing"}
    /\ bus \in Readers \union {None, RegInit}
    /\ burst \in Garbage..MaxSample
    /\ fields \in [Axes -> Garbage..MaxSample]
    /\ at \in [Readers -> Places]
    /\ spi \in [Readers -> {"NULL", "spi"}] /\ began \in [Readers -> Stages]
    /\ axis \in [Readers -> Axes] /\ since \in [Readers -> 0..MaxSample]
    /\ hurt \in [Readers -> BOOLEAN]
    /\ data \in [Readers -> [Axes -> Garbage..MaxSample]]
    /\ out \in [Readers -> [Axes -> Garbage..MaxSample]]

\* While users run one read() at a time (MaxConcurrent = 1), one whose transfer
\* meets neither a bus error nor an access of reg_init hands out the seven axes
\* of one sample, and not of one older than the call: the detour through the
\* global structure brings nothing stale back, whatever goes on before and
\* after the access.
FrameComplete ==
    \A r \in Readers : at[r] = "return" /\ ~hurt[r] =>
        \E s \in since[r]..MaxSample : \A a \in Axes : out[r][a] = s

\* And if something does meet it, still one read() at a time: a bus error, chip
\* select raised by reg_init in the middle of the burst, a burst that began on
\* a command of reg_init's.  Then the frame, which read() reports as a good
\* one, is one sample up to some axis and garbage from there on; it is never of
\* two samples, and nothing of an earlier frame comes back out of the global
\* structure.
FrameCutShort ==
    \A r \in Readers : at[r] = "return" =>
        \E s \in 0..MaxSample, n \in 0..NAxes :
            \A a \in Axes : out[r][a] = IF a <= n THEN s ELSE Garbage

\* What the manual says of a read() (technical_manual.md, 9.6): the axes it
\* hands out, but for garbage, come from one sample.
FrameOfOneSample ==
    \A r \in Readers : at[r] = "return" /\ ~hurt[r] =>
        \A a, b \in Axes : Garbage \notin {out[r][a], out[r][b]} =>
            out[r][a] = out[r][b]

\* A probe that returns 0 leaves all four registrations in place, and a chip
\* with every setting made and none reset or overwritten, unless a register
\* write failed or two accesses to the chip overlapped since the probe began.
\* The device is there for readers before reg_init, so the latter happens; a
\* write is then lost with no error to see.
BoundReady ==
    stage = "bound" =>
        /\ \A x \in Resources : held[x] > 0
        /\ failed.write \/ failed.overlap \/ written = Settings

\* If no probe has failed half way, remove gives back all that probe took.
RemoveReleasesAll ==
    stage = "removed" /\ ~failed.probe => \A x \in Resources : held[x] = 0

\* A read() dies of a null spi_device only if it began where no probe had come
\* to the end.  It may die later than that: the pointer is loaded before chip
\* select, and the probe can be over when it is used.  But no call that begins
\* on a bound driver does, and none on a file kept open over remove.
NullOnlyUnfinished ==
    \A r \in Readers : at[r] = "oops" =>
        began[r] \in {"setup", "acquire", "failed"}
=============================================================================
