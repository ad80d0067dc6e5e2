----------------------------- MODULE IioAp3216c -----------------------------
(***************************************************************************)
(* The IIO driver drivers/IIO_IIC_AP3216C/iio_ap3216c.c: probe with the    *)
(* chip's set-up and its rollback, remove, and the reading of a channel    *)
(* under the driver's mutex.                                               *)
(*                                                                         *)
(* External: the IIO core.  Registration lets users read; undoing it, by   *)
(* devm after remove has returned, waits for the reads that are running.   *)
(***************************************************************************)
EXTENDS Ap3216cChip

CONSTANTS IioUsers,   \* processes that read channel attributes
          IIO         \* the driver's name as a client of the chip

ASSUME IioAssumption == IsFiniteSet(IioUsers) /\ "free" \notin IioUsers

VARIABLES
    iio,       \* where the driver's probe or remove is
    iioDown,   \* history: a write of the power-down mode has failed
    lock,      \* the owner of data->lock, or "free"
    ichan,     \* the channel each user reads, or "none"
    iat,       \* where it is
    ibuf,      \* its buf[2] in ap3216c_read_channel
    iret,      \* the value, "EOVERFLOW" as -1, "EIO" as -2
    inow       \* history: the reading in the registers when they were read

iioDriver == <<iio, iioDown>>
iioUsers == <<lock, ichan, iat, ibuf, iret, inow>>
iioVars == <<iioDriver, iioUsers>>

EOVERFLOW == -1
EIO == -2
Nothing == <<0, 0>>

IioInit ==
    /\ iio = "absent" /\ iioDown = FALSE
    /\ lock = "free"
    /\ ichan = [u \in IioUsers |-> "none"]
    /\ iat = [u \in IioUsers |-> "idle"]
    /\ ibuf = [u \in IioUsers |-> Nothing]
    /\ iret = [u \in IioUsers |-> 0]
    /\ inow = [u \in IioUsers |-> 0]

-----------------------------------------------------------------------------
\* ap3216c_probe: a failed check or allocation leaves the driver absent, and
\* the chip alone; else ap3216c_chip_init follows.
IioProbe ==
    /\ iio = "absent"
    /\ iio' = "reset"
    /\ UNCHANGED <<chip, iioDown, iioUsers>>

IioReset ==
    /\ iio = "reset"
    /\ \/ WriteReset(IIO) /\ iio' = "sleep"
       \/ BusError /\ iio' = "undo"
    /\ UNCHANGED <<iioDown, iioUsers>>

\* msleep(15), longer than the reset.
IioSleep ==
    /\ iio = "sleep" /\ ~(mode = "resetting" /\ resetter = IIO)
    /\ iio' = "enable"
    /\ UNCHANGED <<chip, iioDown, iioUsers>>

\* A chip that is not in order may acknowledge the mode and not take it.
IioEnable ==
    /\ iio = "enable"
    /\ \/ WriteMode("on") /\ iio' = "verify"
       \/ UNCHANGED chip /\ iio' = "verify"
       \/ BusError /\ iio' = "undo"
    /\ UNCHANGED <<iioDown, iioUsers>>

AnyMode == TRUE   \* bug: the mode is read back and not compared
ModeTaken == mode = "on"

IioVerify ==
    /\ iio = "verify"
    /\ \/ BusRead /\ iio' = IF ModeTaken THEN "register" ELSE "undo"
       \/ BusError /\ iio' = "undo"
    /\ UNCHANGED <<iioDown, iioUsers>>

LeftOn == "gone"   \* bug: a failed registration leaves the chip on
RegisterFailed == "undo"

\* devm_iio_device_register.
IioRegister ==
    /\ iio = "register"
    /\ iio' \in {"bound", RegisterFailed}
    /\ UNCHANGED <<chip, iioDown, iioUsers>>

\* The chip is powered down: after a failed probe, or as ap3216c_remove does
\* with the attributes still there.
PowerDown(from, to) ==
    /\ iio = from /\ iio' = to
    /\ \/ WriteMode("down") /\ UNCHANGED iioDown
       \/ BusError /\ iioDown' = TRUE
    /\ UNCHANGED iioUsers

IioUndo == PowerDown("undo", "gone")
IioRemove == PowerDown("bound", "removed")

Registered == iio \in {"bound", "removed"}

\* devm, after remove: the attributes go, and the private data with them.
IioUnregister ==
    /\ iio = "removed" /\ \A u \in IioUsers : iat[u] = "idle"
    /\ iio' = "gone"
    /\ UNCHANGED <<chip, iioDown, iioUsers>>

-----------------------------------------------------------------------------
\* ap3216c_read_raw for a raw value: ap3216c_read_channel takes the mutex,
\* reads both bytes in one transaction, and decodes them after the unlock.
IioRead(u) ==
    /\ iat[u] = "idle" /\ Registered
    /\ ichan' \in {[ichan EXCEPT ![u] = c] : c \in {"ir", "als", "ps"}}
    /\ iat' = [iat EXCEPT ![u] = "lock"]
    /\ UNCHANGED <<chip, iioDriver, lock, ibuf, iret, inow>>

NoMutex == TRUE   \* bug: data->lock is not taken
MutexFree == lock = "free"

IioLock(u) ==
    /\ iat[u] = "lock" /\ MutexFree
    /\ lock' = u /\ iat' = [iat EXCEPT ![u] = "transfer"]
    /\ UNCHANGED <<chip, iioDriver, ichan, ibuf, iret, inow>>

Address(c) == CASE c = "ir" -> 0 [] c = "als" -> 2 [] c = "ps" -> 4

IioTransfer(u) ==
    /\ iat[u] = "transfer"
    /\ LET a == Address(ichan[u]) IN
       \/ /\ BusRead
          /\ ibuf' = [ibuf EXCEPT ![u] = <<Registers[a], Registers[a + 1]>>]
          /\ inow' = [inow EXCEPT ![u] = cur]
          /\ UNCHANGED iret
       \/ BusError /\ iret' = [iret EXCEPT ![u] = EIO] /\ UNCHANGED <<ibuf, inow>>
    /\ iat' = [iat EXCEPT ![u] = "unlock"]
    /\ UNCHANGED <<iioDriver, lock, ichan>>

\* bug: the overflow of PS is looked for in the low byte's bit of IR
WrongFlag(lo, hi) == lo >= 128
PsOverflow(lo, hi) == (lo \div 64) % 2 = 1 \/ (hi \div 64) % 2 = 1

Decode(c, lo, hi) ==
    CASE c = "als" -> (hi * 256) + lo
      [] c = "ir" -> IF lo >= 128 THEN EOVERFLOW ELSE (hi * 4) + (lo % 4)
      [] c = "ps" -> IF PsOverflow(lo, hi) THEN EOVERFLOW
                     ELSE ((hi % 64) * 16) + (lo % 16)

IioUnlock(u) ==
    /\ iat[u] = "unlock"
    /\ lock' = "free" /\ iat' = [iat EXCEPT ![u] = "return"]
    /\ iret' = IF iret[u] = EIO THEN iret
               ELSE [iret EXCEPT ![u] = Decode(ichan[u], ibuf[u][1], ibuf[u][2])]
    /\ UNCHANGED <<chip, iioDriver, ichan, ibuf, inow>>

IioReturn(u) ==
    /\ iat[u] = "return"
    /\ iat' = [iat EXCEPT ![u] = "idle"] /\ ichan' = [ichan EXCEPT ![u] = "none"]
    /\ ibuf' = [ibuf EXCEPT ![u] = Nothing] /\ iret' = [iret EXCEPT ![u] = 0]
    /\ inow' = [inow EXCEPT ![u] = 0]
    /\ UNCHANGED <<chip, iioDriver, lock>>

IioNext ==
    \/ IioProbe \/ IioReset \/ IioSleep \/ IioEnable \/ IioVerify
    \/ IioRegister \/ IioUndo \/ IioRemove \/ IioUnregister
    \/ \E u \in IioUsers :
         \/ IioRead(u) \/ IioLock(u) \/ IioTransfer(u) \/ IioUnlock(u)
         \/ IioReturn(u)

-----------------------------------------------------------------------------
\* The types; and a user is between lock and unlock exactly when it owns the
\* mutex, so the registers are read by one user at a time.
IioTypeOK ==
    /\ iio \in {"absent", "reset", "sleep", "enable", "verify", "register",
                "bound", "undo", "removed", "gone"}
    /\ iioDown \in BOOLEAN
    /\ iat \in [IioUsers -> {"idle", "lock", "transfer", "unlock", "return"}]
    /\ ichan \in [IioUsers -> {"none", "ir", "als", "ps"}]
    /\ ibuf \in [IioUsers -> (0..255) \X (0..255)]
    /\ iret \in [IioUsers -> EIO..Max16]
    /\ inow \in [IioUsers -> 0..Len(Readings)]
    /\ \A u \in IioUsers : lock = u <=> iat[u] \in {"transfer", "unlock"}

\* What a user gets for a raw value is the value of one reading that was in
\* the chip during the call, an overflow exactly when that reading says so,
\* or an I/O error.
IioExact ==
    \A u \in IioUsers : iat[u] = "return" /\ iret[u] # EIO /\ inow[u] > 0 =>
        LET r == Readings[inow[u]]
            over == CASE ichan[u] = "ir" -> r.irOver [] ichan[u] = "ps" -> r.psOver
                      [] ichan[u] = "als" -> FALSE
        IN iret[u] = IF over THEN EOVERFLOW ELSE r[ichan[u]]

\* From the registration to remove the chip measures: probe has seen it take
\* the mode.
BoundChipOn == iio \in {"register", "bound"} => mode = "on"

\* However the driver leaves the chip, by remove or by a probe that failed at
\* any step, it does not leave it measuring, unless that write failed too.
GoneChipDown ==
    [][iio # "gone" /\ iio' = "gone" /\ ~iioDown' => mode' # "on"]_<<chip, iioVars>>

-----------------------------------------------------------------------------
\* What the chip shows on each channel: a driver that decodes it right says so.
IioShows ==
    LET over(r) == [ir |-> r.irOver, als |-> FALSE, ps |-> r.psOver] IN
    [c \in {"ir", "als", "ps"} |->
        IF cur = 0 THEN 0
        ELSE IF over(Readings[cur])[c] THEN EOVERFLOW ELSE Readings[cur][c]]

\* The answer to a read is settled once its two bytes are in the stack buffer.
IioPending == -3
IioAnswer(u) ==
    CASE iat[u] \in {"idle", "lock", "transfer"} -> IioPending
      [] iat[u] = "unlock" ->
           IF iret[u] = EIO THEN EIO
           ELSE Decode(ichan[u], ibuf[u][1], ibuf[u][2])
      [] iat[u] = "return" -> iret[u]
IioAnswers == [u \in IioUsers |-> IioAnswer(u)]

IioReads == INSTANCE AtomicRead
    WITH Callers <- IioUsers, Wants <- {"ir", "als", "ps"},
         Values <- EOVERFLOW..Max16, Error <- EIO, Nothing <- "none",
         Pending <- IioPending,
         now <- IioShows, asked <- ichan,
         answer <- IioAnswers

\* A channel read in four steps, with other users, resets and new readings
\* between them, is as good as one in a single moment of the call.
IioAtomic == IioReads!Spec
=============================================================================
