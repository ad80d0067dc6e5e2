---------------------------- MODULE Ap3216cChip ----------------------------
(***************************************************************************)
(* The AP3216C light, infrared and proximity sensor behind its I2C bus, as *)
(* the two drivers for it use it: a system configuration register, and six *)
(* data registers in the layout that iio_ap3216c.c gives (lines 45-58).    *)
(* The chip is not part of the repository.  One register access is one     *)
(* transaction on the bus, which may fail: up to MaxErrors times in all.   *)
(***************************************************************************)
EXTENDS Integers, Sequences, FiniteSets

CONSTANTS Readings,   \* what the chip measures, one reading after the other
          MaxErrors   \* bound: failing transactions

Max16 == 65535   \* the largest value of two bytes

Reading == [ir : 0..1023, als : 0..Max16, ps : 0..1023,
            irOver : BOOLEAN, psOver : BOOLEAN]

ASSUME ChipAssumption == Readings \in Seq(Reading) /\ MaxErrors \in Nat

VARIABLES
    mode,      \* "down", "resetting", or "on": all three detections
    resetter,  \* the client that wrote the last software reset
    cur,       \* the reading in the data registers, 0 after a reset
    errors     \* transactions that failed

chip == <<mode, resetter, cur, errors>>

ChipInit == mode = "down" /\ resetter = "nobody" /\ cur = 0 /\ errors = 0

ChipTypeOK ==
    /\ mode \in {"down", "resetting", "on"}
    /\ cur \in 0..Len(Readings) /\ errors \in 0..MaxErrors

-----------------------------------------------------------------------------
\* A flag bit of a data register.
Flag(set, bit) == IF set THEN bit ELSE 0

\* The registers 0x0a to 0x0f: IR, ALS and PS, low byte and high byte.
Registers ==
    IF cur = 0 THEN [a \in 0..5 |-> 0]
    ELSE LET r == Readings[cur] IN
         [a \in 0..5 |-> CASE a = 0 -> (r.ir % 4) + Flag(r.irOver, 128)
                           [] a = 1 -> r.ir \div 4
                           [] a = 2 -> r.als % 256
                           [] a = 3 -> r.als \div 256
                           [] a = 4 -> (r.ps % 16) + Flag(r.psOver, 64)
                           [] a = 5 -> (r.ps \div 16) + Flag(r.psOver, 64)]

\* A transaction fails: nothing reaches the chip.
BusError == errors < MaxErrors /\ errors' = errors + 1
            /\ UNCHANGED <<mode, resetter, cur>>

\* A register is read.
BusRead == UNCHANGED chip

\* SYSTEM_CONFIG is written.  A chip in its reset does not listen.
WriteReset(client) ==
    /\ mode' = "resetting" /\ resetter' = client /\ cur' = 0
    /\ UNCHANGED errors
WriteMode(m) ==
    /\ mode' = IF mode = "resetting" THEN mode ELSE m
    /\ UNCHANGED <<resetter, cur, errors>>

\* The reset is over, 10 ms after it was written.
ResetEnds == mode = "resetting" /\ mode' = "down"
             /\ UNCHANGED <<resetter, cur, errors>>

\* The next reading is in the registers.
Measure == mode = "on" /\ cur < Len(Readings) /\ cur' = cur + 1
           /\ UNCHANGED <<mode, resetter, errors>>
=============================================================================
