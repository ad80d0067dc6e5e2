--------------------------- MODULE LedDriverProof ---------------------------
(***************************************************************************)
(* Proofs about the LED driver, for any threads that blink and processes   *)
(* that command.  What led_init has taken grows with its stage, and so     *)
(* remove, whose released set covers all of it, finds nothing it forgets.  *)
(***************************************************************************)
EXTENDS LedDriver, TLAPS

\* What is held, and the class pointer, at each point of led_init and after.
Acquired ==
    /\ stage \in {"unloaded", "region", "removed", "oops"} => held = {}
    /\ stage = "cdev" => held \subseteq {"region"}
    /\ stage = "class" => held \subseteq {"region", "cdev"}
    /\ stage \in {"device", "number", "request", "direction", "value"} =>
         class = "made"
    /\ stage \in {"direction", "value"} => "gpio" \in held
    /\ class = "err" => held \subseteq {"region", "cdev"}
    /\ stage \in {"unloaded", "region", "cdev", "class", "device", "number"} =>
         num = "zero"

\* A blink under way was written to the LED's line, and the driver keeps its
\* number until the file is closed.
BlinkOnLine ==
    \A b \in Blinkers : last = [who |-> b, shows |-> LED_ON] => num = "led"

\* What follows from led_init having returned 0.
WholeLife ==
    /\ whole => /\ stage \in {"bound", "removed"} /\ class = "made"
                /\ stage = "bound" => "gpio" \in held
                /\ ~robbed
    /\ robbed => stage = "removed"

LedInv == LedTypeOK /\ LedAsAsked /\ Acquired /\ BlinkOnLine /\ WholeLife

USE DEF LED_ON, LED_OFF

LEMMA LedInit == Init => LedInv
<1> SUFFICES ASSUME Init PROVE LedInv
    OBVIOUS
<1> USE DEF Init
<1>1. LedTypeOK
  <2>1. last \in [who : Users \cup {"init"}, shows : {LED_OFF, LED_ON}]
    OBVIOUS
  <2>2. at \in [Users -> {"idle", "open", "write", "sleep", "close"}]
    OBVIOUS
  <2>3. cmd \in [Users -> {LED_OFF, LED_ON}]
    OBVIOUS
  <2> QED BY <2>1, <2>2, <2>3 DEF LedTypeOK
<1>2. LedAsAsked
  BY LedAssumption DEF LedAsAsked
<1>3. Acquired /\ BlinkOnLine /\ WholeLife
  BY LedAssumption DEF Acquired, BlinkOnLine, WholeLife
<1> QED BY <1>1, <1>2, <1>3 DEF LedInv

\* The steps of the driver leave the users alone, and those of the users the
\* driver.
LEMMA DriverTypes ==
    LedInv /\ (Load \/ Register \/ RegisterFails \/ FindLine \/ RequestLine
               \/ Direction \/ FirstValue \/ Remove \/ Unload) => LedTypeOK'
<1> SUFFICES ASSUME LedInv,
                    Load \/ Register \/ RegisterFails \/ FindLine \/ RequestLine
                    \/ Direction \/ FirstValue \/ Remove \/ Unload
             PROVE  LedTypeOK'
    OBVIOUS
<1> USE DEF LedInv, LedTypeOK, driver, line, users
<1>1. CASE Load       BY <1>1 DEF Load
<1>2. CASE Register   BY <1>2 DEF Register, After
<1>3. CASE RegisterFails   BY <1>3 DEF RegisterFails, After
<1>4. CASE FindLine   BY <1>4 DEF FindLine
<1>5. CASE RequestLine   BY <1>5 DEF RequestLine
<1>6. CASE Direction
  <2>1. last' \in [who : Users \cup {"init"}, shows : {LED_OFF, LED_ON}]
    BY <1>6 DEF Direction, SetLine
  <2>2. level' \in {0, 1}
    BY <1>6 DEF Direction, SetLine
  <2>3. stage' \in {"value", "bound"} /\ output' \in BOOLEAN
    BY <1>6 DEF Direction
  <2> QED BY <1>6, <2>1, <2>2, <2>3 DEF Direction
<1>7. CASE FirstValue   BY <1>7 DEF FirstValue, SetLine
<1>8. CASE Remove   BY <1>8 DEF Remove, Exit
<1>9. CASE Unload   BY <1>9 DEF Unload
<1> QED BY <1>1, <1>2, <1>3, <1>4, <1>5, <1>6, <1>7, <1>8, <1>9

LEMMA DriverKeeps ==
    LedInv /\ (Load \/ Register \/ RegisterFails \/ FindLine \/ RequestLine
               \/ Direction \/ FirstValue \/ Remove \/ Unload)
        => LedAsAsked' /\ Acquired' /\ BlinkOnLine' /\ WholeLife'
<1> SUFFICES ASSUME LedInv,
                    Load \/ Register \/ RegisterFails \/ FindLine \/ RequestLine
                    \/ Direction \/ FirstValue \/ Remove \/ Unload
             PROVE  LedAsAsked' /\ Acquired' /\ BlinkOnLine' /\ WholeLife'
    OBVIOUS
<1> USE LedAssumption DEF LedInv, LedTypeOK, LedAsAsked, Acquired, BlinkOnLine,
        WholeLife, driver, line, users
<1>1. CASE Load       BY <1>1 DEF Load
<1>2. CASE Register   BY <1>2 DEF Register, After
<1>3. CASE RegisterFails   BY <1>3 DEF RegisterFails, After
<1>4. CASE FindLine   BY <1>4 DEF FindLine
<1>5. CASE RequestLine   BY <1>5 DEF RequestLine
<1>6. CASE Direction   BY <1>6 DEF Direction, SetLine
<1>7. CASE FirstValue   BY <1>7 DEF FirstValue, SetLine
<1>8. CASE Remove   BY <1>8 DEF Remove, Exit
<1>9. CASE Unload   BY <1>9 DEF Unload
<1> QED BY <1>1, <1>2, <1>3, <1>4, <1>5, <1>6, <1>7, <1>8, <1>9

\* A user's step is about that user: the others' blinks are as they were.
LEMMA UsersKeep ==
    ASSUME LedInv, NEW u \in Users,
           Start(u) \/ Open(u) \/ Write(u) \/ Wake(u) \/ Close(u)
    PROVE  LedInv'
<1> USE DEF LedInv
<1>1. LedTypeOK'
  <2> USE DEF LedTypeOK, driver, line, users
  <2>1. CASE Start(u)   BY <2>1 DEF Start
  <2>2. CASE Open(u)    BY <2>2 DEF Open
  <2>3. CASE Write(u)
    <3>1. cmd[u] \in {LED_OFF, LED_ON} /\ Inverted(cmd[u]) \in {0, 1}
      BY DEF Inverted
    <3>2. last' \in [who : Users \cup {"init"}, shows : {LED_OFF, LED_ON}]
      BY <2>3, <3>1 DEF Write
    <3>3. level' \in {0, 1}
      BY <2>3, <3>1 DEF Write
    <3>4. at' \in [Users -> {"idle", "open", "write", "sleep", "close"}]
      BY <2>3 DEF Write, AfterWrite
    <3> QED BY <2>3, <3>2, <3>3, <3>4 DEF Write
  <2>4. CASE Wake(u)    BY <2>4 DEF Wake
  <2>5. CASE Close(u)   BY <2>5 DEF Close
  <2> QED BY <2>1, <2>2, <2>3, <2>4, <2>5
<1>2. LedAsAsked'
  <2> USE DEF LedTypeOK, LedAsAsked, line, users
  <2>1. CASE Start(u)   BY <2>1 DEF Start
  <2>2. CASE Open(u)    BY <2>2 DEF Open
  <2>3. CASE Write(u)
    <3> USE <2>3 DEF Write
    <3>1. output' => (level' = 0 <=> last'.shows = LED_ON)
      <4>1. cmd[u] \in {LED_OFF, LED_ON}
        OBVIOUS
      <4> QED BY <4>1 DEF Inverted
    <3>2. ASSUME NEW b \in Blinkers, last' = [who |-> b, shows |-> LED_ON]
          PROVE  at'[b] = "sleep" \/ (at'[b] = "write" /\ cmd'[b] = LED_OFF)
      <4>1. CASE b # u
        <5>1. last = [who |-> b, shows |-> LED_ON]
          BY <3>2, <4>1
        <5> QED BY <3>2, <4>1, <5>1
      <4>2. CASE b = u /\ num = "led"
        <5>1. cmd[u] = LED_ON
          BY <3>2, <4>2
        <5> QED BY <3>2, <4>2, <5>1 DEF AfterWrite
      <4>3. CASE b = u /\ num # "led"
        <5>1. last = [who |-> b, shows |-> LED_ON]
          BY <3>2, <4>3
        <5> QED BY <4>3, <5>1 DEF BlinkOnLine
      <4> QED BY <4>1, <4>2, <4>3
    <3> QED BY <3>1, <3>2
  <2>4. CASE Wake(u)    BY <2>4 DEF Wake
  <2>5. CASE Close(u)   BY <2>5 DEF Close
  <2> QED BY <2>1, <2>2, <2>3, <2>4, <2>5
<1>3. Acquired' /\ WholeLife'
  BY DEF Start, Open, Write, Wake, Close, driver, Acquired, WholeLife
<1>4. BlinkOnLine'
  <2> USE DEF BlinkOnLine, driver, line, users
  <2>1. CASE Write(u)   BY <2>1 DEF Write
  <2>2. CASE ~Write(u)  BY <2>2 DEF Start, Open, Wake, Close
  <2> QED BY <2>1, <2>2
<1> QED BY <1>1, <1>2, <1>3, <1>4

LEMMA LedStep == LedInv /\ [Next]_vars => LedInv'
<1> SUFFICES ASSUME LedInv, [Next]_vars PROVE LedInv'
    OBVIOUS
<1>1. CASE UNCHANGED vars
  BY <1>1 DEF LedInv, LedTypeOK, LedAsAsked, Acquired, BlinkOnLine, WholeLife,
              vars, driver, line, users
<1>2. CASE \E u \in Users : Start(u) \/ Open(u) \/ Write(u) \/ Wake(u) \/ Close(u)
  BY <1>2, UsersKeep
<1>3. CASE Load \/ Register \/ RegisterFails \/ FindLine \/ RequestLine
           \/ Direction \/ FirstValue \/ Remove \/ Unload
  BY <1>3, DriverTypes, DriverKeeps DEF LedInv
<1> QED BY <1>1, <1>2, <1>3 DEF Next

LEMMA LedInvariant == Spec => []LedInv
BY LedInit, LedStep, PTL DEF Spec

\* Every variable keeps its type.
THEOREM LedTypes == Spec => []LedTypeOK
<1>1. LedInv => LedTypeOK
  BY DEF LedInv
<1> QED BY <1>1, LedInvariant, PTL

\* The LED shows what was asked for last, and no blink that has ended leaves
\* it on (led_write, task_blink_led).
THEOREM LedObeys == Spec => []LedAsAsked
<1>1. LedInv => LedAsAsked
  BY DEF LedInv
<1> QED BY <1>1, LedInvariant, PTL

\* remove gives back all that a led_init that failed anywhere has taken, and
\* exactly that after one that went through (led_init, led_exit).
THEOREM LedRemoves == Spec => []RemoveExact
<1>1. LedInv => RemoveExact
  BY DEF LedInv, Acquired, WholeLife, RemoveExact
<1> QED BY <1>1, LedInvariant, PTL
=============================================================================
