----------------------------- MODULE MCAp3216c -----------------------------
(***************************************************************************)
(* The two drivers of the AP3216C over one chip.  Both match "lsc,ap3216c" *)
(* in the device tree; the I2C core binds the device to one of them, and   *)
(* the other can have it once the first is unloaded.                       *)
(***************************************************************************)
EXTENDS IicAp3216c, IioAp3216c, TLC

vars == <<chip, iicVars, iioVars>>

Init == ChipInit /\ IicInit /\ IioInit

\* The device is not bound to the other driver, nor being bound to it.
IicMayProbe == iio \in {"absent", "gone"}
IioMayProbe == iic \in {"absent", "failed", "removed"}

ChipNext == ResetEnds /\ UNCHANGED <<iicVars, iioVars>>

\* A new reading ends the calm of a read() in the middle of it.
NewReading == Measure /\ calm' = [u \in IicUsers |-> ~Fetching(u)]
              /\ UNCHANGED <<iicSteps, word, at, pos, buf, data, iioVars>>

Next ==
    \/ IicNext /\ UNCHANGED iioVars /\ (iic = "absent" => IicMayProbe)
    \/ IioNext /\ UNCHANGED iicVars /\ (iio = "absent" => IioMayProbe)
    \/ ChipNext
    \/ NewReading

Spec == Init /\ [][Next]_vars

TwoReadings ==
    <<[ir |-> 1023, als |-> 258, ps |-> 1023, irOver |-> FALSE, psOver |-> FALSE],
      [ir |-> 517, als |-> 65535, ps |-> 338, irOver |-> TRUE, psOver |-> TRUE]>>

\* The types of both drivers, the registrations of the one and the mutex of
\* the other.
ApTypeOK == IicTypeOK /\ IioTypeOK

Symmetry == Permutations(IicUsers) \union Permutations(IioUsers)
=============================================================================
