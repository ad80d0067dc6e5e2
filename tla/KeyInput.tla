------------------------------ MODULE KeyInput ------------------------------
(***************************************************************************)
(* The key driver drivers/INPUT_KEY/input_key.c: an interrupt on both      *)
(* edges of the key's GPIO restarts a debounce timer, the timer handler    *)
(* reads the level and reports it to the input core, and the module's init *)
(* and exit functions build this up and tear it down, step by step and     *)
(* with every failure of a step, while the key may be moving.              *)
(*                                                                         *)
(* External, as the code uses them: the edge-triggered interrupt           *)
(* (request_irq, free_irq), the kernel timer (init_timer, mod_timer,       *)
(* del_timer_sync; an expired handler may be interrupted between reading   *)
(* the level and reporting it), and the input core, which drops a report   *)
(* that repeats the value it knows.  The kernel is Linux 4.1.15, as the    *)
(* repository's README has it.                                             *)
(***************************************************************************)
EXTENDS Integers

CONSTANTS Debounce,   \* ticks of the debounce time (10 ms)
          Calm        \* the key rests while the module is loaded or unloaded

ASSUME KeyAssumption == Debounce \in Nat \ {0} /\ Calm \in BOOLEAN

VARIABLES
    stage,     \* where input_key_init or input_key_exit is
    level,     \* the GPIO level: 0 while the key is pressed
    irq,       \* the interrupt: "off", "on", or "pending"
    timer,     \* "none" (no init_timer yet), "idle", or "armed"
    left,      \* ticks until an armed timer expires
    sampled,   \* the level the running timer handler has read, or NoSample
    dev,       \* the input_dev: "null", "allocated", "registered", "freed"
    reported,  \* the key state the input core knows: 1 pressed, 0 released
    quiet,     \* history: ticks since the last interrupt, up to Debounce
    fault      \* a handler used what is not there (yet, or any more): the
               \* kernel is dead

vars == <<stage, level, irq, timer, left, sampled, dev, reported, quiet, fault>>
NoSample == -1

key == <<timer, left, sampled>>

Init ==
    /\ stage = "init_irq"
    /\ level = 1
    /\ irq = "off"
    /\ timer = "none" /\ left = 0 /\ sampled = NoSample
    /\ dev = "null" /\ reported = 0
    /\ quiet = Debounce
    /\ fault = FALSE

-----------------------------------------------------------------------------
\* The key is pressed, released, or bounces: each edge raises the interrupt.
FallingOnly == level' = 0   \* bug: no IRQF_TRIGGER_RISING
Triggers == TRUE

Edge ==
    /\ ~fault
    /\ Calm => stage = "live"
    /\ level' = 1 - level
    /\ irq' = IF irq = "on" /\ Triggers THEN "pending" ELSE irq
    /\ UNCHANGED <<stage, key, dev, reported, quiet, fault>>

RestartTooLate == Debounce + 1   \* bug: one tick too many
\* bug: a running timer is left alone, as add_timer behind timer_pending would
KeepRunning == IF timer = "armed" THEN left ELSE Debounce
Restart == Debounce

\* key0_handler: mod_timer.  A timer that init_timer has not set up, or the
\* memory of an unloaded module, faults.
Interrupt ==
    /\ irq = "pending" /\ ~fault
    /\ irq' = "on"
    /\ quiet' = 0
    /\ IF timer = "none" \/ stage = "gone"
       THEN fault' = TRUE /\ UNCHANGED <<timer, left>>
       ELSE timer' = "armed" /\ left' = Restart /\ UNCHANGED fault
    /\ UNCHANGED <<stage, level, sampled, dev, reported>>

\* Time passes; an interrupt and an expired timer do not wait for a tick.
Tick ==
    /\ irq # "pending" /\ sampled = NoSample /\ ~fault
    /\ timer = "armed" => left > 0
    /\ left' = IF timer = "armed" THEN left - 1 ELSE left
    /\ quiet' = IF quiet < Debounce THEN quiet + 1 ELSE quiet
    /\ UNCHANGED <<stage, level, irq, timer, sampled, dev, reported, fault>>

\* input_key_timer_function, first half: gpio_get_value.
Expire ==
    /\ timer = "armed" /\ left = 0 /\ sampled = NoSample /\ ~fault
    /\ timer' = "idle"
    /\ IF stage = "gone"
       THEN fault' = TRUE /\ UNCHANGED sampled
       ELSE sampled' = level /\ UNCHANGED fault
    /\ UNCHANGED <<stage, level, irq, left, dev, reported, quiet>>

\* ... second half: input_event on a device that must be there.
Report ==
    /\ sampled # NoSample /\ ~fault
    /\ sampled' = NoSample
    /\ IF dev \in {"null", "freed"}
       THEN fault' = TRUE /\ UNCHANGED reported
       ELSE /\ reported' = IF dev = "registered" THEN 1 - sampled ELSE reported
            /\ UNCHANGED fault
    /\ UNCHANGED <<stage, level, irq, timer, left, dev, quiet>>

-----------------------------------------------------------------------------
\* input_key_init: keyio_init requests the interrupt and then initialises the
\* timer.  Whatever goes wrong before that, input_key_init goes on: it does
\* not look at what keyio_init returns.
RequestIrq ==
    /\ stage = "init_irq" /\ ~fault
    /\ \/ stage' = "init_timer" /\ irq' = "on"
       \/ stage' = "init_alloc" /\ UNCHANGED irq
    /\ UNCHANGED <<level, key, dev, reported, quiet, fault>>

InitTimer ==
    /\ stage = "init_timer" /\ ~fault
    /\ stage' = "init_alloc"
    /\ timer' = "idle" /\ left' = 0
    /\ UNCHANGED <<level, irq, sampled, dev, reported, quiet, fault>>

\* A failed allocation or registration makes the load fail: the module goes
\* away, and neither the interrupt nor the timer is taken back.
AllocateDevice ==
    /\ stage = "init_alloc" /\ ~fault
    /\ \/ stage' = "init_register" /\ dev' = "allocated"
       \/ stage' = "gone" /\ UNCHANGED dev
    /\ UNCHANGED <<level, irq, key, reported, quiet, fault>>

RegisterDevice ==
    /\ stage = "init_register" /\ ~fault
    /\ \/ stage' = "live" /\ dev' = "registered"
       \/ stage' = "gone" /\ dev' = "freed"
    /\ UNCHANGED <<level, irq, key, reported, quiet, fault>>

\* input_key_exit.  On a calm unload the key has rested and its interrupt has
\* been handled; the debounce timer may still run.
Unload ==
    /\ stage = "live" /\ ~fault
    /\ Calm => irq # "pending"
    /\ stage' = "del_timer"
    /\ UNCHANGED <<level, irq, key, dev, reported, quiet, fault>>

\* del_timer_sync: deactivate the timer and wait for a running handler.  After
\* a keyio_init that failed the timer has no base, and the call looks for one
\* for ever.
TimerLeft == timer            \* bug: the timer is not deleted
TimerDeleted == "idle"

DelTimerSync ==
    /\ stage = "del_timer" /\ timer # "none" /\ sampled = NoSample /\ ~fault
    /\ stage' = "free_irq"
    /\ timer' = TimerDeleted
    /\ left' = IF timer' = "armed" THEN left ELSE 0
    /\ UNCHANGED <<level, irq, sampled, dev, reported, quiet, fault>>

\* free_irq waits for a handler and drops a pending interrupt.
FreeIrq ==
    /\ stage = "free_irq" /\ ~fault
    /\ stage' = "unregister"
    /\ irq' = "off"
    /\ UNCHANGED <<level, key, dev, reported, quiet, fault>>

\* input_unregister_device gives the driver's reference back: the device is
\* gone.
Unregister ==
    /\ stage = "unregister" /\ ~fault
    /\ stage' = "free_dev"
    /\ dev' = "freed"
    /\ UNCHANGED <<level, irq, key, reported, quiet, fault>>

\* input_free_device gives it back once more, in memory that is free by then:
\* that may go unnoticed or stop the kernel.
FreeDevice ==
    /\ stage = "free_dev" /\ ~fault
    /\ stage' \in {"leaving", "crashed"}
    /\ UNCHANGED <<level, irq, key, dev, reported, quiet, fault>>

\* ... and then the module.
ModuleGone ==
    /\ stage = "leaving" /\ ~fault
    /\ stage' = "gone"
    /\ UNCHANGED <<level, irq, key, dev, reported, quiet, fault>>

-----------------------------------------------------------------------------
Hardware == Interrupt \/ Tick \/ Expire \/ Report
ExitStep == DelTimerSync \/ FreeIrq \/ Unregister \/ FreeDevice \/ ModuleGone
InitStep == RequestIrq \/ InitTimer \/ AllocateDevice \/ RegisterDevice

Next == Edge \/ Hardware \/ InitStep \/ Unload \/ ExitStep

Spec == Init /\ [][Next]_vars

\* Interrupts and expired timers are served and time passes.
FairSpec == Spec /\ WF_vars(Hardware) /\ WF_vars(InitStep) /\ WF_vars(ExitStep)

-----------------------------------------------------------------------------
KeyTypeOK ==
    /\ stage \in {"init_irq", "init_timer", "init_alloc", "init_register", "live",
                  "del_timer", "free_irq", "unregister", "free_dev", "leaving",
                  "gone", "crashed"}
    /\ level \in {0, 1}
    /\ irq \in {"off", "on", "pending"}
    /\ timer \in {"none", "idle", "armed"}
    /\ left \in 0 .. Debounce
    /\ sampled \in {0, 1, NoSample}
    /\ dev \in {"null", "allocated", "registered", "freed"}
    /\ reported \in {0, 1}
    /\ quiet \in 0 .. Debounce
    /\ fault \in BOOLEAN

\* The handlers never run into a missing timer, a missing or freed input_dev,
\* or the memory of the unloaded module.  This is so when the key rests during
\* load and unload: a debounce timer still running at the unload is deleted.
\* (What the exit function itself does to a freed device is not of a handler.)
NoFault == ~fault

\* The level is sampled only when a full debounce time has passed since the
\* last interrupt: every bounce starts the wait afresh (input_key.c 87).
SampledWhenQuiet ==
    [][sampled = NoSample /\ sampled' # NoSample => quiet = Debounce]_vars

\* However it bounced and however the interrupts fell between the two halves
\* of the timer handler, once the key stays where it is the input core ends up
\* with the state it is in, and keeps it.
SettledReported ==
    \A v \in {0, 1} :
        <>[](stage = "live" /\ timer # "none" /\ level = v) => <>[](reported = 1 - v)

\* ... and in time: when the key has rested for the debounce time its state is
\* reported, or the timer handler that reports it is due or under way.  What a
\* handler has sampled before a late bounce is never the last word.
Due == timer = "armed" /\ left = 0
SettledInTime ==
    stage = "live" /\ timer # "none" /\ irq # "pending" /\ quiet = Debounce =>
        \/ Due
        \/ sampled = level
        \/ sampled = NoSample /\ reported = 1 - level

\* input_key_exit says of del_timer_sync that it deletes the debounce timer
\* and waits for its handler (input_key.c 231): from then on there is none.
TimerGone ==
    stage \in {"free_irq", "unregister", "free_dev", "leaving"} =>
        timer # "armed" /\ sampled = NoSample
=============================================================================
