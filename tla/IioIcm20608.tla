---------------------------- MODULE IioIcm20608 ----------------------------
(***************************************************************************)
(* The IIO driver drivers/IIO_SPI_ICM_20608/iio_icm_20608.c and the two    *)
(* programs that read frames of seven channels through its attributes:     *)
(* task_read_icm20608 of app/imx6d.c, which gives a frame up at the first  *)
(* error, and control_icm20608 of app/myctl.c, whose read_sysfs_int makes  *)
(* a 0 of every error.  Only frames that are complete reach the filters.   *)
(*                                                                         *)
(* probe ignores the result of every register write, and remove leaves     *)
(* the chip as it is.  What the data registers hold is numbered: a sample, *)
(* or the zeroes after a reset, gets the next number.                      *)
(*                                                                         *)
(* External: the chip (it may have been left awake, with the ranges of     *)
(* spi_ICM20608.c; a two-byte read is of one sample), the SPI core (one    *)
(* transfer at a time, each may fail), and the IIO core, which creates the *)
(* attributes and, when it removes them, waits for reads that are running. *)
(***************************************************************************)
EXTENDS Integers

CONSTANTS Daemons,     \* threads in task_read_icm20608
          Monitors,    \* processes in control_icm20608
          NChannels,   \* 7 in the code
          MaxSample    \* bound: contents of the data registers

ASSUME IcmAssumption ==
    /\ Daemons \cap Monitors = {}
    /\ NChannels \in Nat \ {0} /\ MaxSample \in Nat

Users == Daemons \cup Monitors
Channels == 1..NChannels
None == -1    \* not read yet
Zero == -2    \* the 0 that stands for an error

VARIABLES
    stage,    \* the next step of probe, or what follows it
    lost,     \* history: writes of this probe that the chip did not get
    power, accel, gyro,   \* the chip: PWR_MGMT_1, the ranges in g and dps
    cur,      \* the number of what its data registers hold
    at,       \* where each user is
    chan,     \* the channel it reads next
    buf,      \* buf[2] in icm20608_read_raw
    frame,    \* its ax_raw ... temp_raw
    since     \* history: cur when it began the frame

driver == <<stage, lost>>
chip == <<power, accel, gyro, cur>>
users == <<at, chan, buf, frame, since>>
vars == <<driver, chip, users>>

Blank == [c \in Channels |-> None]

Init ==
    /\ stage = "absent" /\ lost = {} /\ cur = 0
    /\ \/ power = "asleep" /\ accel = 2 /\ gyro = 250     \* power-on
       \/ power = "awake" /\ accel = 16 /\ gyro = 2000    \* the other driver's
    /\ at = [u \in Users |-> "idle"] /\ chan = [u \in Users |-> 1]
    /\ buf = [u \in Users |-> None] /\ frame = [u \in Users |-> Blank]
    /\ since = [u \in Users |-> 0]

-----------------------------------------------------------------------------
\* icm20608_probe, from its first write on.
Probe ==
    /\ stage = "absent" /\ cur < MaxSample
    /\ stage' = "reset" /\ lost' = {}
    /\ UNCHANGED <<chip, users>>

\* bug: the chip is reset after its ranges were set
ResetLate == [gyro |-> "accel", accel |-> "reset", reset |-> "wake", wake |-> "who"]
After == [reset |-> "wake", wake |-> "gyro", gyro |-> "accel", accel |-> "who"]

WriteReg ==
    /\ stage \in DOMAIN After /\ stage' = After[stage]
    /\ \/ /\ stage = "reset" /\ cur < MaxSample /\ cur' = cur + 1
          /\ power' = "asleep" /\ gyro' = 250 /\ accel' = 2 /\ UNCHANGED lost
       \/ /\ stage = "wake" /\ power' = "awake"
          /\ UNCHANGED <<accel, gyro, cur, lost>>
       \/ /\ stage = "gyro" /\ gyro' = 2000
          /\ UNCHANGED <<power, accel, cur, lost>>
       \/ /\ stage = "accel" /\ accel' = 2
          /\ UNCHANGED <<power, gyro, cur, lost>>
       \/ lost' = lost \cup {stage} /\ UNCHANGED chip
    /\ UNCHANGED users

\* WHO_AM_I and devm_iio_device_register: the only results probe looks at.
WhoAmI ==
    /\ stage = "who" /\ stage' \in {"register", "absent"}
    /\ UNCHANGED <<lost, chip, users>>

Register ==
    /\ stage = "register" /\ stage' \in {"bound", "absent"}
    /\ UNCHANGED <<lost, chip, users>>

Remove ==
    /\ stage = "bound" /\ stage' = "removed"
    /\ UNCHANGED <<lost, chip, users>>

Registered == stage \in {"bound", "removed"}

\* devm, after icm20608_remove.
Unregister ==
    /\ stage = "removed" /\ \A u \in Users : at[u] # "decode"
    /\ stage' = "absent"
    /\ UNCHANGED <<lost, chip, users>>

\* The chip takes a sample.
Sample ==
    /\ power = "awake" /\ cur < MaxSample /\ cur' = cur + 1
    /\ UNCHANGED <<driver, power, accel, gyro, users>>

-----------------------------------------------------------------------------
Begin(u) ==
    /\ at[u] = "idle" /\ at' = [at EXCEPT ![u] = "read"]
    /\ since' = [since EXCEPT ![u] = cur]
    /\ UNCHANGED <<driver, chip, chan, buf, frame>>

\* The frame is over: used, or given up.
End(u) ==
    /\ at' = [at EXCEPT ![u] = "idle"] /\ chan' = [chan EXCEPT ![u] = 1]
    /\ frame' = [frame EXCEPT ![u] = Blank]
    /\ since' = [since EXCEPT ![u] = 0]

\* The value for this channel; then the next channel, or the filters.
Got(u, value) ==
    /\ frame' = [frame EXCEPT ![u][chan[u]] = value]
    /\ IF chan[u] < NChannels
       THEN at' = [at EXCEPT ![u] = "read"] /\ chan' = [chan EXCEPT ![u] = @ + 1]
       ELSE at' = [at EXCEPT ![u] = "filter"] /\ chan' = [chan EXCEPT ![u] = 1]
    /\ UNCHANGED since

BufferOfDriver(u) == CHOOSE v \in Users : TRUE   \* bug: a buffer in icm20608_dev
BufferOf(u) == u

\* icm20608_read_raw: the transfer ...
Transfer(u) ==
    /\ at[u] = "read" /\ Registered
    /\ at' = [at EXCEPT ![u] = "decode"]
    /\ buf' = [buf EXCEPT ![BufferOf(u)] = cur]
    /\ UNCHANGED <<driver, chip, chan, frame, since>>

\* ... and the two bytes put together.
Decode(u) ==
    /\ at[u] = "decode" /\ Got(u, buf[BufferOf(u)])
    /\ buf' = [buf EXCEPT ![BufferOf(u)] = None]
    /\ UNCHANGED <<driver, chip>>

\* The attribute is not there, or its transfer has failed.
ReadFails(u) ==
    /\ at[u] = "read"
    /\ IF u \in Daemons THEN End(u) ELSE Got(u, Zero)
    /\ UNCHANGED <<driver, chip, buf>>

\* Conversion, the seven filters, the output.
Use(u) ==
    /\ at[u] = "filter" /\ End(u)
    /\ UNCHANGED <<driver, chip, buf>>

Next ==
    \/ Probe \/ WriteReg \/ WhoAmI \/ Register \/ Remove \/ Unregister \/ Sample
    \/ \E u \in Users : \/ Begin(u) \/ Transfer(u) \/ Decode(u)
                        \/ ReadFails(u) \/ Use(u)

Spec == Init /\ [][Next]_vars

-----------------------------------------------------------------------------
IcmTypeOK ==
    /\ stage \in {"absent", "reset", "wake", "gyro", "accel", "who",
                  "register", "bound", "removed"}
    /\ lost \subseteq DOMAIN After
    /\ power \in {"asleep", "awake"} /\ accel \in {2, 16} /\ gyro \in {250, 2000}
    /\ cur \in 0..MaxSample
    /\ at \in [Users -> {"idle", "read", "decode", "filter"}]
    /\ chan \in [Users -> Channels] /\ buf \in [Users -> None..MaxSample]
    /\ frame \in [Users -> [Channels -> Zero..MaxSample]]
    /\ since \in [Users -> 0..MaxSample]

\* The ranges for which the scale attributes are computed.
ScaleRange == [accel |-> 2, gyro |-> 2000]

\* How far a registered device can be trusted although probe looks at no
\* write: its scales are those of the chip's ranges unless just that write was
\* lost (for the accelerometer, the reset as well, which sets the same range),
\* and a chip that sleeps has not got the wake-up.
ScaleTrue ==
    Registered =>
        /\ gyro # ScaleRange.gyro => "gyro" \in lost
        /\ accel # ScaleRange.accel => {"reset", "accel"} \subseteq lost
        /\ power = "asleep" => "wake" \in lost

\* What a frame of separate reads still is: every value that is no error was
\* in the chip since the frame began, and a later channel is of the same
\* sample or a later one, whoever reads at the same time and whatever happens
\* to the driver.  The daemon's filters get no error.
FrameInOrder ==
    \A u \in Users : at[u] = "filter" =>
        /\ \A c \in Channels : frame[u][c] # Zero =>
             /\ frame[u][c] \in since[u]..cur
             /\ \A d \in c..NChannels :
                  frame[u][d] # Zero => frame[u][c] <= frame[u][d]
        /\ u \in Daemons => \A c \in Channels : frame[u][c] # Zero
=============================================================================
