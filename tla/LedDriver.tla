----------------------------- MODULE LedDriver -----------------------------
(***************************************************************************)
(* The LED: the platform driver drivers/LED/leddriver.c and the two        *)
(* programs that write to it, task_blink_led of app/imx6d.c and            *)
(* control_led of app/myctl.c (`myctl led 0|1`).                           *)
(*                                                                         *)
(* The device file appears in the middle of led_init, before the driver    *)
(* has the LED's GPIO line, and stays usable after remove while it is      *)
(* open.  probe does not look at what led_init returns.                    *)
(*                                                                         *)
(* External: the GPIO core (a request fails when another driver owns the   *)
(* line; freeing takes the line from whoever owns it; a number that is no  *)
(* line is ignored), the driver core, and module loading, which zeroes the *)
(* global device structure and waits for open files before it unloads.     *)
(* Writes are of one byte, as both programs do.                            *)
(***************************************************************************)
EXTENDS Naturals

CONSTANTS Blinkers,   \* threads that run task_blink_led
          Commands    \* processes that run control_led

ASSUME LedAssumption == Blinkers \cap Commands = {} /\ "init" \notin Blinkers

Users == Blinkers \cup Commands
LED_OFF == 0
LED_ON == 1

VARIABLES
    stage,    \* the next step of led_init, or what follows it
    held,     \* what led_init has acquired and not given back
    class,    \* gpioled.class: "null", "made", or "err" for ERR_PTR
    num,      \* gpioled.led_gpio_num: GPIO 0, the LED's line, or negative
    level,    \* the level of the LED's line
    output,   \* the line drives the LED
    others,   \* the lines that other drivers own
    at,       \* where each user is
    cmd,      \* the byte it writes next
    whole,    \* history: led_init returned 0, in this life of the module
    robbed,   \* history: led_exit took a line from another driver, in it
    last      \* history: who set the LED's line last, and to show what

driver == <<stage, held, class, num, whole>>
line == <<level, output, last>>
users == <<at, cmd>>
vars == <<driver, line, others, robbed, users>>

Init ==
    /\ stage = "unloaded" /\ held = {} /\ class = "null" /\ num = "zero"
    /\ level = 0 /\ output = FALSE
    /\ others \in SUBSET {"zero", "led"}
    /\ at = [u \in Users |-> "idle"] /\ cmd = [u \in Users |-> LED_OFF]
    /\ whole = FALSE /\ robbed = FALSE
    /\ last = [who |-> "init", shows |-> LED_OFF]

-----------------------------------------------------------------------------
\* insmod; probe runs led_init at once.
Load ==
    /\ stage = "unloaded" /\ stage' = "region"
    /\ UNCHANGED <<held, class, num, whole, line, others, robbed, users>>

\* The registrations.  led_init ignores that there is no device number, and
\* returns at any other failure, with what it has; probe binds all the same.
After == [region |-> "cdev", cdev |-> "class", class |-> "device",
          device |-> "number"]

Register ==
    /\ stage \in DOMAIN After
    /\ held' = held \cup {stage} /\ stage' = After[stage]
    /\ class' = IF stage = "class" THEN "made" ELSE class
    /\ UNCHANGED <<num, whole, line, others, robbed, users>>

RegisterFails ==
    /\ stage \in DOMAIN After
    /\ stage' = IF stage = "region" THEN "cdev" ELSE "bound"
    /\ class' = IF stage = "class" THEN "err" ELSE class
    /\ UNCHANGED <<held, num, whole, line, others, robbed, users>>

\* The node /gpioled, or its property led-gpios, may be missing.
FindLine ==
    /\ stage = "number"
    /\ \/ num' = "led" /\ stage' = "request"
       \/ num' \in {num, "negative"} /\ stage' = "bound"
    /\ UNCHANGED <<held, class, whole, line, others, robbed, users>>

RequestLine ==
    /\ stage = "request"
    /\ \/ "led" \notin others /\ held' = held \cup {"gpio"} /\ stage' = "direction"
       \/ UNCHANGED held /\ stage' = "bound"
    /\ UNCHANGED <<class, num, whole, line, others, robbed, users>>

\* The level, high for off, and who wants it.
SetLine(who, high) ==
    /\ level' = high
    /\ last' = [who |-> who, shows |-> 1 - high]

Direction ==
    /\ stage = "direction"
    /\ \/ SetLine("init", 1) /\ output' = TRUE /\ stage' = "value"
       \/ UNCHANGED line /\ stage' = "bound"
    /\ UNCHANGED <<held, class, num, whole, others, robbed, users>>

FirstValue ==
    /\ stage = "value" /\ stage' = "bound" /\ whole' = TRUE
    /\ SetLine("init", 0)
    /\ UNCHANGED <<output, held, class, num, others, robbed, users>>

\* led_exit, on remove.  cdev_del comes first, so nobody can watch the rest.
\* device_destroy follows an ERR_PTR, and gpio_free frees whatever num says.
ExitKeepsLine == {"cdev", "region", "device", "class"}   \* bug: no gpio_free
Exit == {"cdev", "region", "device", "class", "gpio"}

Remove ==
    /\ stage = "bound"
    /\ IF class = "err"
       THEN /\ stage' = "oops" /\ held' = held \ {"cdev", "region"}
            /\ UNCHANGED <<others, robbed>>
       ELSE /\ stage' = "removed" /\ held' = held \ Exit
            /\ others' = IF "gpio" \in held THEN others ELSE others \ {num}
            /\ robbed' = (others' # others)
    /\ UNCHANGED <<class, num, whole, line, users>>

Unload ==
    /\ stage = "removed" /\ \A u \in Users : at[u] \in {"idle", "open"}
    /\ stage' = "unloaded" /\ class' = "null" /\ num' = "zero"
    /\ whole' = FALSE /\ robbed' = FALSE
    /\ UNCHANGED <<held, line, others, users>>

-----------------------------------------------------------------------------
\* A user starts: a blink writes on first, a command what it was told.
Start(u) ==
    /\ at[u] = "idle" /\ at' = [at EXCEPT ![u] = "open"]
    /\ \E b \in (IF u \in Blinkers THEN {LED_ON} ELSE {LED_OFF, LED_ON}) :
         cmd' = [cmd EXCEPT ![u] = b]
    /\ UNCHANGED <<driver, line, others, robbed>>

HasDevice == {"region", "cdev", "device"} \subseteq held

\* open() of the device file; without one the user gives up.
Open(u) ==
    /\ at[u] = "open"
    /\ at' = [at EXCEPT ![u] = IF HasDevice THEN "write" ELSE "idle"]
    /\ UNCHANGED <<driver, line, others, robbed, cmd>>

Inverted(byte) == IF byte = LED_OFF THEN LED_ON ELSE LED_OFF

OnOnly(u) == "close"   \* bug: a blink that does not switch off again
AfterWrite(u) ==
    IF u \in Blinkers /\ cmd[u] = LED_ON THEN "sleep" ELSE "close"

\* led_write, on whatever line the driver has a number of.
Write(u) ==
    /\ at[u] = "write"
    /\ at' = [at EXCEPT ![u] = AfterWrite(u)]
    /\ IF num = "led"
       THEN level' = Inverted(cmd[u])
            /\ last' = [who |-> u, shows |-> cmd[u]]
       ELSE UNCHANGED <<level, last>>
    /\ UNCHANGED <<driver, output, others, robbed, cmd>>

\* The 300 ms of a blink are over.
Wake(u) ==
    /\ at[u] = "sleep" /\ at' = [at EXCEPT ![u] = "write"]
    /\ cmd' = [cmd EXCEPT ![u] = LED_OFF]
    /\ UNCHANGED <<driver, line, others, robbed>>

Close(u) ==
    /\ at[u] = "close" /\ at' = [at EXCEPT ![u] = "idle"]
    /\ UNCHANGED <<driver, line, others, robbed, cmd>>

Next ==
    \/ Load \/ Register \/ RegisterFails \/ FindLine \/ RequestLine
    \/ Direction \/ FirstValue \/ Remove \/ Unload
    \/ \E u \in Users : Start(u) \/ Open(u) \/ Write(u) \/ Wake(u) \/ Close(u)

Spec == Init /\ [][Next]_vars

-----------------------------------------------------------------------------
LedTypeOK ==
    /\ stage \in {"unloaded", "region", "cdev", "class", "device", "number",
                  "request", "direction", "value", "bound", "removed", "oops"}
    /\ held \subseteq {"region", "cdev", "class", "device", "gpio"}
    /\ class \in {"null", "made", "err"} /\ num \in {"zero", "led", "negative"}
    /\ level \in {0, 1} /\ output \in BOOLEAN
    /\ others \subseteq {"zero", "led"}
    /\ at \in [Users -> {"idle", "open", "write", "sleep", "close"}]
    /\ cmd \in [Users -> {LED_OFF, LED_ON}]
    /\ whole \in BOOLEAN /\ robbed \in BOOLEAN
    /\ last \in [who : Users \cup {"init"}, shows : {LED_OFF, LED_ON}]

\* The LED shows what was asked for last, by led_init (which ends with the LED
\* on) or by a user.  It is never left on by a blink: one that was the last to
\* set it on has its off-write still to come, however blinks, commands, loading
\* and removal of the driver interleave.
LedAsAsked ==
    /\ output => (level = 0 <=> last.shows = LED_ON)
    /\ \A b \in Blinkers : last = [who |-> b, shows |-> LED_ON] =>
         at[b] = "sleep" \/ (at[b] = "write" /\ cmd[b] = LED_OFF)

\* Wherever led_init gave up, remove leaves nothing held that it had taken.
\* That it gives back no more than that, and comes to its end, is sure only if
\* led_init went through: a number without a request costs another driver its
\* line, and a class that was not made stops led_exit in the middle.
RemoveExact ==
    /\ stage \in {"removed", "unloaded", "oops"} => held = {}
    /\ whole => stage # "oops" /\ ~robbed
=============================================================================
