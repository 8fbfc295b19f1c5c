------------------------------- MODULE PwrButton -------------------------------
(***************************************************************************)
(* The timing of the button (thread_pwr.c): the two interrupt handlers,    *)
(* the semaphore that wakes the power thread, and its decision to shut     *)
(* down after a long press.                                                *)
(*                                                                         *)
(* Pressing the button makes the PMIC latch nEN_F and pull its interrupt   *)
(* line low until the flag is read; releasing it raises the soft-reset     *)
(* line.  The charger's interrupts share the PMIC's line.                  *)
(*                                                                         *)
(* Time advances in ticks, a fraction of the latency.  Only differences of *)
(* time stamps are compared, so a time stamp is kept as an age, saturated  *)
(* just above the latency: the state space is finite and time unbounded.   *)
(***************************************************************************)
EXTENDS Integers

CONSTANTS
    Latency,       \* THREAD_PWR_SOFT_RESET_LATENCY_MS, in ticks
    Period,        \* THREAD_PWR_UPDATE_PERIOD_MS, in ticks
    SemLimit,      \* the limit of pmic_update_sem (2 in the code)
    EarlyPress,    \* the user may press before the power thread runs
    ChargerEvents, \* the charger may raise interrupts
    BusFails,      \* reading the interrupt flags may fail
    LockFails      \* the mutex may be held for longer than the timeout

ASSUME PwrButtonAssumption ==
    /\ Latency \in Nat \ {0}
    /\ Period \in Nat \ {0}
    /\ SemLimit \in Nat \ {0}
    /\ {EarlyPress, ChargerEvents, BusFails, LockFails} \subseteq BOOLEAN

VARIABLES
    pc,         \* the power thread: "boot", "armed" (the interrupts are armed,
                \* the thread does not run yet), "wait", "lock", "read",
                \* "check", "kill"
    uptime,     \* k_uptime_get(), saturated
    waited,     \* how long it has been in k_sem_take
    sem,        \* the count of pmic_update_sem
    intFlags,   \* the PMIC's pending flags; its line is low if there are any
    sinceDown,  \* the age of last_keydown_ms
    span,       \* last_keyup_ms - last_keydown_ms, 0 when negative
    button,     \* the button is pressed
    held,       \* how long it is, or was the last time since the last reboot
    skipped,    \* history: the last iteration could not take the mutex
    disturbed   \* history: since the press something else moved, or hid, its
                \* time stamps

history == <<skipped, disturbed>>
vars == <<pc, uptime, waited, sem, intFlags, sinceDown, span, button, held,
          history>>

Flags == {"nen_f", "chgin"}
Ages == 0..(Latency + 1)
Older(age) == IF age > Latency THEN age ELSE age + 1

-----------------------------------------------------------------------------
(* Interrupts.                                                             *)

Give == sem' = IF sem < SemLimit THEN sem + 1 ELSE sem

\* pmic_int_cb_handler, on a falling edge only: a line that is low already
\* does not fall again.
PmicInterrupt(f) ==
    /\ intFlags' = intFlags \cup {f}
    /\ IF intFlags = {} /\ pc # "boot"
       THEN sinceDown' = 0 /\ span' = 0 /\ Give
       ELSE UNCHANGED <<sinceDown, span, sem>>

\* A press is timed from the falling edge, which there is only if the line
\* was high and the thread has started.
Press ==
    /\ ~button
    /\ pc \notin {"boot", "armed"} \/ EarlyPress
    /\ button' = TRUE
    /\ held' = 0
    /\ PmicInterrupt("nen_f")
    /\ disturbed' = (pc \in {"boot", "armed"} \/ intFlags # {})
    /\ UNCHANGED <<pc, uptime, waited, skipped>>

\* Chargers send the interrupts chgin and chgin_ctrl, enabled by the board's
\* configuration.
ChargerInterrupt ==
    /\ ChargerEvents
    /\ PmicInterrupt("chgin")
    /\ disturbed' = (disturbed \/ intFlags = {})
    /\ UNCHANGED <<pc, uptime, waited, button, held, skipped>>

\* Mutant: the handler of the soft-reset line does not wake the thread.
ReleaseSilent ==
    /\ button
    /\ button' = FALSE
    /\ IF pc = "boot" THEN UNCHANGED span ELSE span' = sinceDown
    /\ UNCHANGED <<pc, uptime, waited, sem, intFlags, sinceDown,
                   held, history>>


\* softRst_int_cb_handler, on the rising edge.
Release ==
    /\ button
    /\ button' = FALSE
    /\ IF pc = "boot" THEN UNCHANGED <<span, sem>>
       ELSE span' = sinceDown /\ Give
    /\ UNCHANGED <<pc, uptime, waited, intFlags, sinceDown, held, history>>

-----------------------------------------------------------------------------
(* The power thread.                                                       *)

\* thread_pwr_init arms the interrupts, after the reset of the PMIC.
ArmInterrupts ==
    /\ pc = "boot"
    /\ pc' = "armed"
    /\ UNCHANGED <<uptime, waited, sem, intFlags, sinceDown, span, button,
                   held, history>>

\* Zero, the time of boot, is as old as the uptime.
ZeroTimeStamps == sinceDown' = uptime /\ span' = 0

\* The thread starts, and zeroes the time stamps whatever was pressed since
\* the interrupts are armed.
ThreadStart ==
    /\ pc = "armed"
    /\ pc' = "lock"
    /\ ZeroTimeStamps
    /\ UNCHANGED <<uptime, waited, sem, intFlags, button, held, history>>

\* Mutant: the thread waits for the semaphore without a timeout.
WakeSignalled ==
    /\ pc = "wait"
    /\ sem > 0
    /\ sem' = sem - 1
    /\ waited' = 0
    /\ pc' = "lock"
    /\ UNCHANGED <<uptime, intFlags, sinceDown, span, button, held, history>>

\* k_sem_take: a unit of the semaphore, or the end of the period.
Wake ==
    /\ pc = "wait"
    /\ sem > 0 \/ waited = Period
    /\ sem' = IF sem > 0 THEN sem - 1 ELSE sem
    /\ waited' = 0
    /\ pc' = "lock"
    /\ UNCHANGED <<uptime, intFlags, sinceDown, span, button, held, history>>

TakeLock ==
    /\ pc = "lock"
    /\ pc' = "read"
    /\ UNCHANGED <<uptime, waited, sem, intFlags, sinceDown, span, button,
                   held, history>>

\* The lock times out: this iteration does nothing.
LockTimeout ==
    /\ LockFails
    /\ pc = "lock"
    /\ pc' = "wait"
    /\ skipped' = TRUE
    /\ UNCHANGED <<uptime, waited, sem, intFlags, sinceDown, span, button,
                   held, disturbed>>

\* Mutant: handling the flags restarts the measurement of the press.
ReadFlagsRestart ==
    /\ pc = "read"
    /\ intFlags' = {}
    /\ sinceDown' = 0 /\ span' = 0
    /\ pc' = "check"
    /\ UNCHANGED <<uptime, waited, sem, button, held, history>>

\* check_status reads, and thereby clears, one flag register after the
\* other.  A read that fails leaves the rest pending, and the line low.
ReadFlags ==
    /\ pc = "read"
    /\ \E cleared \in {{}, {"nen_f"}, Flags} :
          /\ BusFails \/ cleared = Flags
          /\ intFlags' = intFlags \ cleared
    /\ pc' = "check"
    /\ UNCHANGED <<uptime, waited, sem, sinceDown, span, button,
                   held, history>>

\* Mutant: a press as long as the latency shuts down.
CheckButtonEarly ==
    /\ pc = "check"
    /\ IF span >= Latency
       THEN pc' = "kill" /\ ZeroTimeStamps
       ELSE pc' = "wait" /\ UNCHANGED <<sinceDown, span>>
    /\ skipped' = FALSE
    /\ UNCHANGED <<uptime, waited, sem, intFlags, button, held, disturbed>>

\* "Handle button press that are longer than 2 seconds": zero the time
\* stamps and shut down, or wait for the next update.
CheckButton ==
    /\ pc = "check"
    /\ IF span > Latency
       THEN pc' = "kill" /\ ZeroTimeStamps
       ELSE pc' = "wait" /\ UNCHANGED <<sinceDown, span>>
    /\ skipped' = FALSE
    /\ UNCHANGED <<uptime, waited, sem, intFlags, button, held, disturbed>>

\* pwr_kill reboots; pwr_init resets the PMIC and arms the interrupts.
Reboot ==
    /\ pc = "kill"
    /\ EarlyPress \/ ~button
    /\ pc' = "boot"
    /\ uptime' = 0 /\ waited' = 0
    /\ sem' = 0
    /\ intFlags' = {}
    /\ sinceDown' = 0 /\ span' = 0
    /\ held' = IF button THEN held ELSE 0
    /\ skipped' = FALSE
    /\ disturbed' = button
    /\ UNCHANGED button

PowerThread == \/ ArmInterrupts
               \/ ThreadStart
               \/ Wake
               \/ TakeLock
               \/ LockTimeout
               \/ ReadFlags
               \/ CheckButton
               \/ Reboot

\* An iteration is short compared with a tick: time passes while the thread
\* boots or waits.
Tick ==
    /\ \/ pc \in {"boot", "armed"}
       \/ pc = "wait" /\ sem = 0 /\ waited < Period
    /\ uptime' = Older(uptime)
    /\ waited' = IF pc = "wait" THEN waited + 1 ELSE waited
    /\ sinceDown' = Older(sinceDown)
    /\ held' = IF button THEN Older(held) ELSE held
    /\ UNCHANGED <<pc, sem, intFlags, span, button, history>>

Init ==
    /\ pc = "boot"
    /\ uptime = 0
    /\ waited = 0
    /\ sem = 0
    /\ intFlags = {}
    /\ sinceDown = 0
    /\ span = 0
    /\ button = FALSE
    /\ held = 0
    /\ skipped = FALSE /\ disturbed = FALSE

Next == Press \/ Release \/ ChargerInterrupt \/ PowerThread \/ Tick

Spec == Init /\ [][Next]_vars

\* Time passes, the thread runs, the mutex is not always held when it asks
\* for it, and the bus does not fail for ever.
Fairness ==
    /\ WF_vars(Tick)
    /\ WF_vars(PowerThread)
    /\ SF_vars(TakeLock)
    /\ SF_vars(ReadFlags /\ intFlags' = {})

FairSpec == Spec /\ Fairness

-----------------------------------------------------------------------------
(* Properties.                                                             *)

\* Every variable has its type.
TypeOK ==
    /\ pc \in {"boot", "armed", "wait", "lock", "read", "check", "kill"}
    /\ uptime \in Ages
    /\ waited \in 0..Period
    /\ sem \in 0..SemLimit
    /\ intFlags \subseteq Flags
    /\ sinceDown \in Ages
    /\ span \in Ages
    /\ button \in BOOLEAN
    /\ held \in Ages
    /\ skipped \in BOOLEAN /\ disturbed \in BOOLEAN

\* The thread shuts down only for a press that lasted longer than the
\* latency ("Handle button press that are longer than 2 seconds",
\* thread_pwr.c:178), whatever calls, failed reads and lock timeouts happen,
\* provided that nothing else moved the time stamps of the press.
OnlyLongPressKills ==
    [][pc = "check" /\ pc' = "kill" => held > Latency \/ disturbed]_vars

\* The release of a press longer than the latency shuts the system down,
\* unless the user presses again first, or its time stamps are moved
\* (thread_pwr.c:178).
LongPressKills ==
    (~button /\ held > Latency /\ ~disturbed)
        ~> (pc = "kill" \/ button \/ disturbed)

\* The same with no provision: what thread_pwr.c:178 says.
EveryLongPressKills == (~button /\ held > Latency) ~> (pc = "kill" \/ button)

\* No wake-up is lost: a thread that sleeps with the semaphore at zero has
\* seen the last release, unless its last iteration could not take the mutex.
NoLostWakeup == (pc = "wait" /\ sem = 0 /\ ~skipped) => span <= Latency

\* The flags, and with them the interrupt line, are cleared in the end,
\* although a line that stays low wakes nobody.
FlagsCleared == (intFlags # {}) ~> (intFlags = {})
=============================================================================
