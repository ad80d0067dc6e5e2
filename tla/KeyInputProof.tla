--------------------------- MODULE KeyInputProof ---------------------------
(***************************************************************************)
(* Theorems about the key driver, for every debounce time.                 *)
(***************************************************************************)
EXTENDS KeyInput, TLAPS

USE KeyAssumption DEF NoSample, Triggers, Restart, TimerDeleted, key

LEMMA Ticks == Debounce \in Nat /\ 0 \in 0 .. Debounce /\ Debounce \in 0 .. Debounce
OBVIOUS

LEMMA KeyTypeInit == Init => KeyTypeOK
<1> SUFFICES ASSUME Init PROVE KeyTypeOK
  OBVIOUS
<1>1. left \in 0 .. Debounce /\ quiet \in 0 .. Debounce /\ sampled \in {0, 1, NoSample}
  BY Ticks DEF Init
<1>2. /\ stage = "init_irq" /\ level \in {0, 1} /\ irq = "off" /\ timer = "none"
      /\ dev = "null" /\ reported \in {0, 1} /\ fault \in BOOLEAN
  BY DEF Init
<1> QED
  BY <1>1, <1>2 DEF KeyTypeOK

LEMMA KeyTypeStep == KeyTypeOK /\ [Next]_vars => KeyTypeOK'
<1> SUFFICES ASSUME KeyTypeOK, [Next]_vars PROVE KeyTypeOK'
  OBVIOUS
<1> USE DEF KeyTypeOK
<1>1. CASE Edge
  <2>1. 1 - level \in {0, 1}
    OBVIOUS
  <2> QED
    BY <1>1, <2>1 DEF Edge
<1>2. CASE Interrupt
  <2>1. left' \in 0 .. Debounce /\ quiet' \in 0 .. Debounce
    BY <1>2, Ticks DEF Interrupt
  <2>2. fault' \in BOOLEAN /\ irq' = "on" /\ timer' \in {"none", "idle", "armed"}
    BY <1>2 DEF Interrupt
  <2> QED
    BY <1>2, <2>1, <2>2 DEF Interrupt
<1>3. CASE Tick
  BY <1>3 DEF Tick
<1>4. CASE Expire
  <2>1. fault' \in BOOLEAN /\ sampled' \in {0, 1, NoSample} /\ timer' = "idle"
    BY <1>4 DEF Expire
  <2> QED
    BY <1>4, <2>1 DEF Expire
<1>5. CASE Report
  <2>1. sampled \in {0, 1}
    BY <1>5 DEF Report
  <2>2. 1 - sampled \in {0, 1}
    BY <2>1
  <2>3. reported' \in {0, 1}
    BY <1>5, <2>2 DEF Report
  <2>4. fault' \in BOOLEAN
    BY <1>5 DEF Report
  <2>5. sampled' = NoSample
    BY <1>5 DEF Report
  <2> QED
    BY <1>5, <2>3, <2>4, <2>5 DEF Report
<1>6. CASE InitStep
  BY <1>6, Ticks DEF InitStep, RequestIrq, InitTimer, AllocateDevice, RegisterDevice
<1>7. CASE Unload \/ ExitStep
  BY <1>7 DEF Unload, ExitStep, DelTimerSync, FreeIrq, Unregister, FreeDevice,
         ModuleGone
<1>8. CASE UNCHANGED vars
  BY <1>8 DEF vars
<1> QED
  BY <1>1, <1>2, <1>3, <1>4, <1>5, <1>6, <1>7, <1>8 DEF Next, Hardware

\* Every variable keeps its type.
THEOREM KeyTypeCorrect == Spec => []KeyTypeOK
BY KeyTypeInit, KeyTypeStep, PTL DEF Spec

-----------------------------------------------------------------------------
\* The time an armed timer still has to run is the time the key has yet to
\* stay quiet.
Countdown == ~fault /\ timer = "armed" => left + quiet = Debounce

LEMMA CountdownStep ==
    ASSUME KeyTypeOK, Countdown, [Next]_vars
    PROVE  Countdown'
<1> USE DEF KeyTypeOK, Countdown
<1>1. CASE Edge \/ Unload
  BY <1>1 DEF Edge, Unload
<1>2. CASE Interrupt
  BY <1>2 DEF Interrupt
<1>3. CASE Tick
  BY <1>3 DEF Tick
<1>4. CASE Expire \/ Report
  BY <1>4 DEF Expire, Report
<1>5. CASE InitStep
  BY <1>5 DEF InitStep, RequestIrq, InitTimer, AllocateDevice, RegisterDevice
<1>6. CASE ExitStep
  BY <1>6 DEF ExitStep, DelTimerSync, FreeIrq, Unregister, FreeDevice,
         ModuleGone
<1>7. CASE UNCHANGED vars
  BY <1>7 DEF vars
<1> QED
  BY <1>1, <1>2, <1>3, <1>4, <1>5, <1>6, <1>7 DEF Next, Hardware

LEMMA SamplesAtZero ==
    ASSUME KeyTypeOK, Countdown, [Next]_vars
    PROVE  [sampled = NoSample /\ sampled' # NoSample => quiet = Debounce]_vars
<1> SUFFICES ASSUME sampled = NoSample, sampled' # NoSample, Next
             PROVE  quiet = Debounce
  BY DEF vars
<1>1. Expire
  BY DEF Next, Hardware, Edge, Interrupt, Tick, Report, InitStep, RequestIrq,
         InitTimer, AllocateDevice, RegisterDevice, Unload, ExitStep,
         DelTimerSync, FreeIrq, Unregister, FreeDevice,
         ModuleGone
<1> QED
  BY <1>1 DEF Expire, Countdown, KeyTypeOK

\* The level is never sampled before a full debounce time has passed since the
\* last interrupt, whatever the key does.
THEOREM NeverSampledEarly == Spec => SampledWhenQuiet
<1>1. Init => Countdown
  BY DEF Init, Countdown
<1> QED
  BY <1>1, KeyTypeInit, KeyTypeStep, CountdownStep, SamplesAtZero, PTL
  DEF Spec, SampledWhenQuiet

-----------------------------------------------------------------------------
\* What keeps the handlers safe: an interrupt is pending only while the driver
\* is live, and then the timer is initialised; the timer runs, and its handler
\* is between its halves, only until del_timer_sync; until later than that the
\* input device is registered.
CalmInv ==
    /\ ~fault
    /\ irq = "pending" => stage = "live"
    /\ stage = "init_irq" => irq = "off"
    /\ irq # "off" /\ stage \notin {"init_irq", "init_timer"} => timer # "none"
    /\ timer = "armed" \/ sampled # NoSample => stage \in {"live", "del_timer"}
    /\ stage \in {"live", "del_timer", "free_irq", "unregister"} => dev = "registered"

LEMMA CalmStep ==
    ASSUME Calm, KeyTypeOK, CalmInv, [Next]_vars
    PROVE  CalmInv'
<1> USE DEF KeyTypeOK, CalmInv
<1>1. CASE Edge \/ Unload
  BY <1>1 DEF Edge, Unload
<1>2. CASE Interrupt \/ Tick
  BY <1>2 DEF Interrupt, Tick
<1>3. CASE Expire \/ Report
  BY <1>3 DEF Expire, Report
<1>4. CASE InitStep
  BY <1>4 DEF InitStep, RequestIrq, InitTimer, AllocateDevice, RegisterDevice
<1>5. CASE ExitStep
  BY <1>5 DEF ExitStep, DelTimerSync, FreeIrq, Unregister, FreeDevice,
         ModuleGone
<1>6. CASE UNCHANGED vars
  BY <1>6 DEF vars
<1> QED
  BY <1>1, <1>2, <1>3, <1>4, <1>5, <1>6 DEF Next, Hardware

\* With the key at rest during load and unload no handler runs into something
\* that is missing, and del_timer_sync is the last the timer is heard of.
THEOREM CalmIsSafe ==
    ASSUME Calm PROVE Spec => []NoFault
<1>1. Init => CalmInv
  BY DEF Init, CalmInv
<1>2. CalmInv => NoFault
  BY DEF CalmInv, NoFault
<1>3. KeyTypeOK /\ CalmInv /\ [Next]_vars => CalmInv'
  BY CalmStep
<1> QED
  BY <1>1, <1>2, <1>3, KeyTypeInit, KeyTypeStep, PTL DEF Spec

-----------------------------------------------------------------------------
\* No edge is forgotten: from the time the interrupt is requested it stays so,
\* and a live driver that has no interrupt to handle and no timer to wait for
\* is about to report the present level or has reported it.
Loading == stage \in {"init_irq", "init_timer", "init_alloc", "init_register"}
AtRest == level = 1 /\ reported = 0 /\ sampled = NoSample
Followed ==
    /\ stage = "init_irq" => timer = "none"
    /\ stage = "init_timer" => irq = "on"
    /\ stage \in {"init_alloc", "init_register", "live"} /\ timer # "none" =>
          irq # "off"
    /\ Loading => AtRest /\ irq # "pending" /\ timer # "armed"
    /\ stage = "live" /\ timer = "idle" /\ irq # "pending" =>
          \/ sampled = level
          \/ sampled = NoSample /\ reported = 1 - level

LEMMA FollowedStep ==
    ASSUME Calm, KeyTypeOK, CalmInv, Followed, [Next]_vars
    PROVE  Followed'
<1> USE DEF KeyTypeOK, CalmInv, Followed, Loading, AtRest
<1>1. CASE Edge
  BY <1>1 DEF Edge
<1>2. CASE Unload
  BY <1>2 DEF Unload
<1>3. CASE Interrupt
  BY <1>3 DEF Interrupt
<1>4. CASE Tick
  BY <1>4 DEF Tick
<1>5. CASE Expire
  BY <1>5 DEF Expire
<1>6. CASE Report
  BY <1>6 DEF Report
<1>7. CASE InitStep
  BY <1>7 DEF InitStep, RequestIrq, InitTimer, AllocateDevice, RegisterDevice
<1>8. CASE ExitStep
  BY <1>8 DEF ExitStep, DelTimerSync, FreeIrq, Unregister, FreeDevice,
         ModuleGone
<1>9. CASE UNCHANGED vars
  BY <1>9 DEF vars
<1> QED
  BY <1>1, <1>2, <1>3, <1>4, <1>5, <1>6, <1>7, <1>8, <1>9 DEF Next, Hardware

\* With the key at rest during load and unload: a key that has rested for the
\* debounce time is reported as it is, or its handler is due or under way.
THEOREM RestingKeyReported ==
    ASSUME Calm PROVE Spec => []SettledInTime
<1>1. Init => CalmInv /\ Countdown /\ Followed
  BY DEF Init, CalmInv, Countdown, Followed, Loading, AtRest
<1>2. KeyTypeOK /\ CalmInv /\ Countdown /\ Followed => SettledInTime
  BY DEF KeyTypeOK, CalmInv, Countdown, Followed, SettledInTime, Due
<1>3. KeyTypeOK /\ CalmInv /\ [Next]_vars => CalmInv'
  BY CalmStep
<1>4. KeyTypeOK /\ Countdown /\ [Next]_vars => Countdown'
  BY CountdownStep
<1>5. KeyTypeOK /\ CalmInv /\ Followed /\ [Next]_vars => Followed'
  BY FollowedStep
<1> QED
  BY <1>1, <1>2, <1>3, <1>4, <1>5, KeyTypeInit, KeyTypeStep, PTL DEF Spec
=============================================================================
