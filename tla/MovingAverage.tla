--------------------------- MODULE MovingAverage ---------------------------
(***************************************************************************)
(* ma_filter, the sliding average of app/imx6d.c and app/myctl.c: a ring   *)
(* buffer, its next slot, the number of samples in it and their running    *)
(* sum, updated by subtracting the sample that leaves and adding the one   *)
(* that enters.  A static or ma_init'ed filter starts from zeroes.         *)
(*                                                                         *)
(* Samples are integers: what is checked is the bookkeeping of the ring,   *)
(* not the rounding of the C floats.  The samples fed so far are remembered*)
(* as their prefix sums, total[j] being the sum of the first j.            *)
(***************************************************************************)
EXTENDS Integers

CONSTANTS Window,      \* FILTER_WINDOW
          Samples,     \* the values fed
          MaxSamples   \* bound on the number of samples, for TLC

ASSUME FilterAssumption == /\ Window \in Nat \ {0}
                           /\ Samples \subseteq Int
                           /\ MaxSamples \in Nat

VARIABLES buf, idx, count, sum,   \* moving_avg_t
          fed,                    \* history: how many samples were fed
          total                   \* history: total[0 .. fed]

filterVars == <<buf, idx, count, sum, fed, total>>

Slots == 0 .. Window - 1

FilterInit ==
    /\ buf = [j \in Slots |-> 0]
    /\ idx = 0 /\ count = 0 /\ sum = 0
    /\ fed = 0
    /\ total = [j \in {0} |-> 0]

SumKeepsOldest(val) == sum + val           \* bug: f->sum -= ... forgotten
NewSum(val) == sum - buf[idx] + val

SkipsFirstSlot == IF idx + 1 = Window THEN 1 ELSE idx + 1   \* bug: bad wrap
NextIdx == (idx + 1) % Window

\* One call of ma_filter; it returns sum' / count'.
Filter(val) ==
    /\ sum' = NewSum(val)
    /\ buf' = [buf EXCEPT ![idx] = val]
    /\ idx' = NextIdx
    /\ count' = IF count < Window THEN count + 1 ELSE count
    /\ fed' = fed + 1
    /\ total' = [j \in 0 .. fed + 1 |-> IF j = fed + 1 THEN total[fed] + val
                                                       ELSE total[j]]

BoundReached == fed = MaxSamples /\ UNCHANGED filterVars

FilterNext ==
    \/ fed < MaxSamples /\ \E val \in Samples : Filter(val)
    \/ BoundReached

FilterSpec == FilterInit /\ [][FilterNext]_filterVars

-----------------------------------------------------------------------------
FilterTypeOK ==
    /\ buf \in [Slots -> Samples \cup {0}]
    /\ idx \in Slots
    /\ count \in 0 .. Window
    /\ sum \in Int
    /\ fed \in Nat
    /\ total \in [0 .. fed -> Int]

\* What ma_filter returns is the average of exactly the last Window samples,
\* or of all of them while there are fewer: after any number of wrap-arounds
\* the running sum has lost every older sample and kept every newer one.
AveragesWindow ==
    /\ count = IF fed < Window THEN fed ELSE Window
    /\ sum = total[fed] - total[fed - count]

\* The slot a samples back, for a \in 1 .. count.
SlotOf(a) == IF a <= idx THEN idx - a ELSE idx - a + Window

\* Why it works: the ring holds the last samples, newest just below idx, and
\* zeroes where no sample has been yet.
RingHoldsWindow ==
    /\ \A a \in 1 .. count :
          buf[SlotOf(a)] = total[fed - a + 1] - total[fed - a]
    /\ count < Window => idx = count /\ \A j \in idx .. Window - 1 : buf[j] = 0
=============================================================================
