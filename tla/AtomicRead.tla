----------------------------- MODULE AtomicRead -----------------------------
(***************************************************************************)
(* What a program may expect of reading a sensor, in however many steps    *)
(* the driver does it and whoever else reads: the read takes effect in one *)
(* moment between its call and its return, and yields what the sensor      *)
(* shows at that moment, or an error.                                      *)
(* IioAp3216c implements this for the channels of the AP3216C.             *)
(***************************************************************************)
CONSTANTS Callers,   \* who reads
          Wants,     \* what can be read
          Values,    \* what it may be worth
          Error,     \* what a failed read yields
          Nothing,   \* "no call"
          Pending    \* "no answer yet"

VARIABLES now,       \* what the sensor shows
          asked,     \* asked[u]: what u is reading, or Nothing
          answer     \* answer[u]: what the call of u will return, or Pending

vars == <<now, asked, answer>>

Init == /\ now \in [Wants -> Values]
        /\ asked = [u \in Callers |-> Nothing]
        /\ answer = [u \in Callers |-> Pending]

\* The sensor takes a new sample, or is reset.
Change == /\ now' \in [Wants -> Values]
          /\ UNCHANGED <<asked, answer>>

Call(u) == /\ asked[u] = Nothing
           /\ \E w \in Wants : asked' = [asked EXCEPT ![u] = w]
           /\ UNCHANGED <<now, answer>>

\* The moment at which the read takes effect.
Perform(u) == /\ asked[u] # Nothing /\ answer[u] = Pending
              /\ answer' = [answer EXCEPT ![u] = now[asked[u]]]
              /\ UNCHANGED <<now, asked>>

\* The read fails, before that moment or after it.
Fail(u) == /\ asked[u] # Nothing
           /\ answer' = [answer EXCEPT ![u] = Error]
           /\ UNCHANGED <<now, asked>>

Return(u) == /\ answer[u] # Pending
             /\ asked' = [asked EXCEPT ![u] = Nothing]
             /\ answer' = [answer EXCEPT ![u] = Pending]
             /\ UNCHANGED now

Next == \/ Change
        \/ \E u \in Callers : Call(u) \/ Perform(u) \/ Fail(u) \/ Return(u)

Spec == Init /\ [][Next]_vars
=============================================================================
