--------------------------------- MODULE Pwr ---------------------------------
(***************************************************************************)
(* The power subsystem of the nRF5340: pwr.c, the loop of the power thread *)
(* in thread_pwr.c, and the PMIC driver calls they make.  Threads          *)
(* interleave at the bus transactions (the I2C driver sleeps on a          *)
(* semaphore) and at every k_sleep.  Consecutive transactions that no      *)
(* property tells apart are one action, which may fail half-way; a         *)
(* transaction that fails changes nothing in the chip.                     *)
(*                                                                         *)
(* Time is left out: a lock with a timeout may give up whenever another    *)
(* thread holds the mutex, and a period may elapse at any iteration.  The  *)
(* timing of the button is the subject of module PwrButton.                *)
(***************************************************************************)
EXTENDS Integers

CONSTANTS
    Clients,     \* the application threads, which call the interface of pwr.h
    Main,        \* the one that runs main(): pwr_init, pwr_start, then its loop
    PwrThread,   \* the thread created by thread_pwr_start
    NoThread,    \* "nobody", the owner of a free mutex
    NumRails,    \* regulators of the PMIC (SBB0-2 and LDO0-1 on the hardware)
    Samples,     \* measurements of one round (3 in check_battery)
    LockTries,   \* attempts pwr_kill makes to lock the mutex (3 in the code)
    MaxFaults,   \* bound: bus transactions that fail in a behaviour
    AppRails,    \* rails the board's pwr_bsp_start switches on
    Gap9Values   \* arguments the clients give to gap9_pwr, a subset of BOOLEAN

Threads == Clients \cup {PwrThread}
Rails == 1..NumRails

ASSUME PwrAssumption ==
    /\ Main \in Clients
    /\ PwrThread \notin Clients
    /\ NoThread \notin Threads
    /\ NumRails \in Nat \ {0}
    /\ Samples \in Nat \ {0}
    /\ LockTries \in Nat \ {0}
    /\ MaxFaults \in Nat
    /\ AppRails \subseteq Rails
    /\ Gap9Values \subseteq BOOLEAN

VARIABLES
    owner, depth,          \* pwr_mutex: its holder and its recursion count
    pc,                    \* where each thread is
    job,                   \* the caller a shared routine returns to
    idx,                   \* its loop counter (rail, sample, attempt), or 1
    local,                 \* a value read or computed and not yet written
    confRail, confBias,    \* pmic_h.conf: the rails enabled, main bias forced
    rail, bias, mux, nen,  \* the PMIC: rails on, bias, ADC channel, nEN_F flag
    flag,                  \* pmic.flags.nen_f, the driver's copy of the flag
    battery, acc,          \* channels the stored / the summed readings are of
    gap9State, gap9Pin,    \* gap9_pwr_state and the supply's GPIO
    gap9Port,              \* that GPIO is an "input", an "output", or "stuck":
                           \* an output whose last setting failed
    presses,               \* history: a press is latched by the PMIC, or was
                           \* taken from it and not handled yet
    initialised, running,  \* pwr_is_initialised, pwr_is_running
    forced,                \* threads that shut down without the mutex
    faults                 \* failed transactions so far

lockVars == <<owner, depth>>
confVars == <<confRail, confBias>>
chipVars == <<rail, bias, mux, nen>>
battVars == <<battery, acc>>
gap9Vars == <<gap9State, gap9Pin, gap9Port, presses>>
lifeVars == <<initialised, running, forced>>
vars == <<lockVars, pc, job, idx, local, confVars, chipVars, flag, battVars,
          gap9Vars, lifeVars, faults>>

BootLabels == {"boot", "i_reset", "i_cid", "i_thread", "i_done", "i_unlock",
               "start", "s_conf", "s_gpio", "s_gap9", "s_done"}
ConfigLabels == {"c_bias", "c_global", "c_charger", "c_rail", "c_int"}
MeasureLabels == {"m_mux", "m_adc", "m_off", "m_abort"}
ThreadLabels == {"t_flags", "t_flags2", "t_ints", "t_reset", "t_button",
                 "t_reconf", "r_charger", "r_bias", "r_global", "t_unlock"}
KillLabels == {"k_lock", "k_conf", "k_reboot"}
Labels == BootLabels \cup ConfigLabels \cup MeasureLabels \cup ThreadLabels
          \cup KillLabels
          \cup {"off", "idle", "a_unlock", "g_pin", "t_lock", "t_sleep"}
Jobs == {"init", "start", "thread", "client", "kill"}
Channels == {"batt", "vsys"}

-----------------------------------------------------------------------------
(* Kernel services and the bus.                                            *)

Goto(t, l) == pc' = [pc EXCEPT ![t] = l]

CanLock(t) == owner \in {NoThread, t}

\* k_mutex_lock that succeeds: the mutex is recursive.
Lock(t) == owner' = t /\ depth' = depth + 1

\* Mutant: the kernel releases a mutex for whoever asks.
UnlockAnyone(t) ==
    /\ depth' = depth - 1
    /\ owner' = IF depth = 1 THEN NoThread ELSE owner

\* k_mutex_unlock: -EPERM and no effect for a thread that is not the owner.
Unlock(t) ==
    IF owner # t
    THEN UNCHANGED lockVars
    ELSE /\ depth' = depth - 1
         /\ owner' = IF depth = 1 THEN NoThread ELSE owner

\* One bus transaction or GPIO call, which succeeds or fails.
Bus(ok) ==
    /\ ok \/ faults < MaxFaults
    /\ faults' = IF ok THEN faults ELSE faults + 1

\* gpio_pin_set_dt on GAP9's supply.  The pin of an input does not follow.
SetGap9(on, ok) ==
    /\ Bus(ok)
    /\ gap9Pin' = IF ok /\ gap9Port # "input" THEN on ELSE gap9Pin
    /\ gap9Port' = IF gap9Port = "input" THEN "input"
                   ELSE IF ok THEN "output" ELSE "stuck"

-----------------------------------------------------------------------------
(* max77654_config: global, charger, every rail, interrupts; it stops at   *)
(* the first error.  Its callers are pwr_init, pwr_bsp_start (which drops  *)
(* the result) and pwr_kill (which retries until it succeeds).             *)

CallConfig(t, j) ==
    /\ Goto(t, "c_bias")
    /\ job' = [job EXCEPT ![t] = j]

\* Mutant: pwr_kill configures the PMIC once and does not retry.
ConfigReturnOnce(t, ok) ==
    CASE job[t] = "init"  -> IF ok THEN "i_thread" ELSE "i_unlock"
      [] job[t] = "start" -> "s_gpio"
      [] OTHER            -> "k_reboot"

ConfigReturn(t, ok) ==
    CASE job[t] = "init"  -> IF ok THEN "i_thread" ELSE "i_unlock"
      [] job[t] = "start" -> "s_gpio"
      [] OTHER            -> IF ok THEN "k_reboot" ELSE "k_conf"

\* CNFG_GLBL is put together from the handle's configuration ...
ConfigBias(t) ==
    /\ pc[t] \in {"c_bias", "r_bias"}
    /\ local' = [local EXCEPT ![t] = confBias]
    /\ Goto(t, IF pc[t] = "c_bias" THEN "c_global" ELSE "r_global")
    /\ UNCHANGED <<lockVars, job, idx, confVars, chipVars, flag, battVars,
                   gap9Vars, lifeVars, faults>>

\* ... and written once the bus is free, which may be much later.  The write
\* of CNFG_SBB_TOP, which follows, may fail when this one has succeeded.
WriteBias(t, ok) ==
    /\ Bus(ok)
    /\ \E written \in BOOLEAN :
          /\ ok => written
          /\ bias' = IF written THEN local[t] ELSE bias
    /\ local' = [local EXCEPT ![t] = FALSE]

ConfigGlobal(t) == \E ok \in BOOLEAN :
    /\ pc[t] = "c_global"
    /\ WriteBias(t, ok)
    /\ Goto(t, IF ok THEN "c_charger" ELSE ConfigReturn(t, FALSE))
    /\ UNCHANGED <<lockVars, job, idx, confVars, rail, mux, nen, flag,
                   battVars, gap9Vars, lifeVars>>

\* CNFG_CHG_A to CNFG_CHG_I: the last write switches the ADC mux off.
ConfigCharger(t) == \E ok \in BOOLEAN :
    /\ pc[t] = "c_charger"
    /\ Bus(ok)
    /\ mux' = IF ok THEN "off" ELSE mux
    /\ Goto(t, IF ok THEN "c_rail" ELSE ConfigReturn(t, FALSE))
    /\ UNCHANGED <<lockVars, job, idx, local, confVars, rail, bias, nen, flag,
                   battVars, gap9Vars, lifeVars>>

\* A regulator's voltage write and enable write are both attempted: the
\* enable may reach the chip although the routine reports an error.
ConfigRail(t) == \E voltOk, enOk \in BOOLEAN :
    /\ pc[t] = "c_rail"
    /\ Bus(voltOk /\ enOk)
    /\ rail' = IF ~enOk THEN rail
               ELSE IF idx[t] \in confRail THEN rail \cup {idx[t]}
               ELSE rail \ {idx[t]}
    /\ idx' = [idx EXCEPT ![t] =
                  IF voltOk /\ enOk /\ @ < NumRails THEN @ + 1 ELSE 1]
    /\ Goto(t, IF ~(voltOk /\ enOk) THEN ConfigReturn(t, FALSE)
               ELSE IF idx[t] < NumRails THEN "c_rail" ELSE "c_int")
    /\ UNCHANGED <<lockVars, job, local, confVars, bias, mux, nen, flag,
                   battVars, gap9Vars, lifeVars>>

\* Interrupt masks and GPIOs, the last registers of a configuration.
ConfigInt(t) == \E ok \in BOOLEAN :
    /\ pc[t] = "c_int"
    /\ Bus(ok)
    /\ Goto(t, ConfigReturn(t, ok))
    /\ UNCHANGED <<lockVars, job, idx, local, confVars, chipVars, flag,
                   battVars, gap9Vars, lifeVars>>

Config(t) == \/ ConfigBias(t)
             \/ ConfigGlobal(t)
             \/ ConfigCharger(t)
             \/ ConfigRail(t)
             \/ ConfigInt(t)

-----------------------------------------------------------------------------
(* max77654_measure: select the channel, read the ADC, switch the mux off. *)
(* A failure on the way still switches the mux off.  check_battery calls   *)
(* it for the battery, measure_voltages (a client) for other channels.     *)

CallMeasure(t, j) ==
    /\ Goto(t, "m_mux")
    /\ job' = [job EXCEPT ![t] = j]

MeasureReturn(t) ==
    CASE job[t] = "init"   -> "i_done"
      [] job[t] = "thread" -> "t_ints"
      [] OTHER             -> "a_unlock"

Channel(t) == IF job[t] = "client" THEN "vsys" ELSE "batt"
ChecksBattery(t) == job[t] # "client"

MeasureMux(t) == \E ok \in BOOLEAN :
    /\ pc[t] = "m_mux"
    /\ Bus(ok)
    /\ mux' = IF ok THEN Channel(t) ELSE mux
    /\ Goto(t, IF ok THEN "m_adc" ELSE "m_abort")
    /\ UNCHANGED <<lockVars, job, idx, local, confVars, rail, bias, nen, flag,
                   battVars, gap9Vars, lifeVars>>

\* check_battery ignores a reading of at most 100 mV: what a disabled mux
\* gives, and now and then what the first reading of a channel gives.
MeasureAdc(t) == \E ok, accepted \in BOOLEAN :
    /\ pc[t] = "m_adc"
    /\ Bus(ok)
    /\ accepted => ok /\ ChecksBattery(t) /\ mux # "off"
    /\ acc' = IF accepted THEN acc \cup {mux} ELSE acc
    /\ Goto(t, IF ok THEN "m_off" ELSE "m_abort")
    /\ UNCHANGED <<lockVars, job, idx, local, confVars, chipVars, flag,
                   battery, gap9Vars, lifeVars>>

\* The last sample of a round stores the average of the accepted ones.
MeasureOff(t) == \E ok \in BOOLEAN :
    LET more == ok /\ idx[t] < Samples
    IN  /\ pc[t] = "m_off"
        /\ Bus(ok)
        /\ mux' = IF ok THEN "off" ELSE mux
        /\ idx' = [idx EXCEPT ![t] = IF more THEN @ + 1 ELSE 1]
        /\ IF ChecksBattery(t) /\ ~more
           THEN /\ battery' = IF ok /\ acc # {} THEN acc ELSE battery
                /\ acc' = {}
           ELSE UNCHANGED battVars
        /\ Goto(t, IF more THEN "m_mux" ELSE MeasureReturn(t))
        /\ UNCHANGED <<lockVars, job, local, confVars, rail, bias, nen, flag,
                       gap9Vars, lifeVars>>

MeasureAbort(t) == \E ok \in BOOLEAN :
    /\ pc[t] = "m_abort"
    /\ Bus(ok)
    /\ mux' = IF ok THEN "off" ELSE mux
    /\ idx' = [idx EXCEPT ![t] = 1]
    /\ acc' = IF ChecksBattery(t) THEN {} ELSE acc
    /\ Goto(t, MeasureReturn(t))
    /\ UNCHANGED <<lockVars, job, local, confVars, rail, bias, nen, flag,
                   battery, gap9Vars, lifeVars>>

Measure(t) == \/ MeasureMux(t)
              \/ MeasureAdc(t)
              \/ MeasureOff(t)
              \/ MeasureAbort(t)

-----------------------------------------------------------------------------
(* pwr_init and pwr_start, run once by main().  Its result is ignored by   *)
(* the examples, which start the subsystem whatever pwr_init returns.      *)

\* The bus is not ready, or a GPIO cannot be configured, GAP9's or the LED's,
\* which comes after it: return before locking.
InitUnready ==
    /\ pc[Main] = "boot"
    /\ Bus(FALSE)
    /\ gap9Port' \in {"input", "output"}
    /\ Goto(Main, "start")
    /\ UNCHANGED <<lockVars, job, idx, local, confVars, chipVars, flag,
                   battVars, gap9State, gap9Pin, presses, lifeVars>>

InitLock ==
    /\ pc[Main] = "boot"
    /\ CanLock(Main)
    /\ Lock(Main)
    /\ gap9Port' = "output"
    /\ Goto(Main, "i_reset")
    /\ UNCHANGED <<job, idx, local, confVars, chipVars, flag, battVars,
                   gap9State, gap9Pin, presses, lifeVars, faults>>

\* pwr_bsp_init and the PMIC's software reset, after which the PMIC is in
\* its power-on state (external: the chip's behaviour on SFT_CRST).
InitReset == \E ok \in BOOLEAN :
    /\ pc[Main] = "i_reset"
    /\ Bus(ok)
    /\ IF ok
       THEN /\ rail' = {}
            /\ bias' = FALSE
            /\ mux' = "off"
            /\ nen' = FALSE
            /\ presses' = presses \ {"latched"}
       ELSE UNCHANGED <<chipVars, presses>>
    /\ Goto(Main, IF ok THEN "i_cid" ELSE "i_unlock")
    /\ UNCHANGED <<lockVars, job, idx, local, confVars, flag, battVars,
                   gap9State, gap9Pin, gap9Port, lifeVars>>

\* Mutant: a failed identity check returns without going to cleanup.
InitCheckReturns == \E ok \in BOOLEAN :
    /\ pc[Main] = "i_cid"
    /\ Bus(ok)
    /\ IF ok
       THEN CallConfig(Main, "init")
       ELSE Goto(Main, "start") /\ UNCHANGED job
    /\ UNCHANGED <<lockVars, idx, local, confVars, chipVars, flag, battVars,
                   gap9Vars, lifeVars>>

\* max77654_init: the identity check, then the configuration.
InitCheck == \E ok \in BOOLEAN :
    /\ pc[Main] = "i_cid"
    /\ Bus(ok)
    /\ IF ok
       THEN CallConfig(Main, "init")
       ELSE Goto(Main, "i_unlock") /\ UNCHANGED job
    /\ UNCHANGED <<lockVars, idx, local, confVars, chipVars, flag, battVars,
                   gap9Vars, lifeVars>>

\* thread_pwr_init: interrupts and callbacks of two pins, then a first round of
\* battery measurements.
InitThread == \E ok \in BOOLEAN :
    /\ pc[Main] = "i_thread"
    /\ Bus(ok)
    /\ IF ok
       THEN CallMeasure(Main, "init")
       ELSE Goto(Main, "i_unlock") /\ UNCHANGED job
    /\ UNCHANGED <<lockVars, idx, local, confVars, chipVars, flag, battVars,
                   gap9Vars, lifeVars>>

\* The result of check_battery is dropped.
InitDone ==
    /\ pc[Main] = "i_done"
    /\ initialised' = TRUE
    /\ Goto(Main, "i_unlock")
    /\ UNCHANGED <<lockVars, job, idx, local, confVars, chipVars, flag,
                   battVars, gap9Vars, running, forced, faults>>

\* The label cleanup, reached with and without an error.
InitUnlock ==
    /\ pc[Main] = "i_unlock"
    /\ Unlock(Main)
    /\ Goto(Main, "start")
    /\ UNCHANGED <<job, idx, local, confVars, chipVars, flag, battVars,
                   gap9Vars, lifeVars, faults>>

\* The LED's supply; a failure ends pwr_start.
StartLed == \E ok \in BOOLEAN :
    /\ pc[Main] = "start"
    /\ Bus(ok)
    /\ Goto(Main, IF ok THEN "s_conf" ELSE "idle")
    /\ UNCHANGED <<lockVars, job, idx, local, confVars, chipVars, flag,
                   battVars, gap9Vars, lifeVars>>

\* pwr_bsp_start edits the shared configuration and applies it, without
\* the mutex; boards that add no rail skip this.
StartConfig ==
    /\ pc[Main] = "s_conf"
    /\ IF AppRails = {}
       THEN Goto(Main, "s_gpio") /\ UNCHANGED <<job, confRail>>
       ELSE /\ CallConfig(Main, "start")
            /\ confRail' = AppRails
    /\ UNCHANGED <<lockVars, idx, local, confBias, chipVars, flag, battVars,
                   gap9Vars, lifeVars, faults>>

\* Sensor supplies behind the I2C port expander: pwr_start returns -1 when
\* one fails, and the power thread is never created.
StartGpio == \E ok \in BOOLEAN :
    /\ pc[Main] = "s_gpio"
    /\ Bus(ok)
    /\ Goto(Main, IF ok THEN "s_gap9" ELSE "idle")
    /\ UNCHANGED <<lockVars, job, idx, local, confVars, chipVars, flag,
                   battVars, gap9Vars, lifeVars>>

\* gap9_pwr(true), on the boards that power GAP9 here.
StartGap9 ==
    /\ pc[Main] = "s_gap9"
    /\ \/ \E on \in Gap9Values :
          /\ on
          /\ gap9State' = on
          /\ local' = [local EXCEPT ![Main] = on]
          /\ job' = [job EXCEPT ![Main] = "start"]
          /\ Goto(Main, "g_pin")
       \/ /\ Goto(Main, "s_done")
          /\ UNCHANGED <<gap9State, local, job>>
    /\ UNCHANGED <<lockVars, idx, confVars, chipVars, flag, battVars, gap9Pin,
                   gap9Port, presses, lifeVars, faults>>

\* thread_pwr_start creates the power thread.
StartThread ==
    /\ pc[Main] = "s_done"
    /\ running' = TRUE
    /\ pc' = [t \in Threads |-> IF t = PwrThread THEN "t_lock" ELSE "idle"]
    /\ UNCHANGED <<lockVars, job, idx, local, confVars, chipVars, flag,
                   battVars, gap9Vars, initialised, forced, faults>>

Boot == \/ InitUnready
        \/ InitLock
        \/ InitReset
        \/ InitCheck
        \/ InitThread
        \/ InitDone
        \/ InitUnlock
        \/ StartLed
        \/ StartConfig
        \/ StartGpio
        \/ StartGap9
        \/ StartThread

-----------------------------------------------------------------------------
(* The clients of the public interface.                                    *)

\* Mutant: a client measures without the mutex.
MeasureNoLock(c) ==
    /\ pc[c] = "idle"
    /\ CallMeasure(c, "client")
    /\ UNCHANGED <<lockVars, idx, local, confVars, chipVars, flag, battVars,
                   gap9Vars, lifeVars, faults>>

\* k_mutex_lock(&pwr_mutex, K_FOREVER), measure_voltages, k_mutex_unlock.
MeasureLock(c) ==
    /\ pc[c] = "idle"
    /\ CanLock(c)
    /\ Lock(c)
    /\ CallMeasure(c, "client")
    /\ UNCHANGED <<idx, local, confVars, chipVars, flag, battVars, gap9Vars,
                   lifeVars, faults>>

\* Mutant: a client forgets to unlock.
MeasureNoUnlock(c) ==
    /\ pc[c] = "a_unlock"
    /\ Goto(c, "idle")
    /\ UNCHANGED <<lockVars, job, idx, local, confVars, chipVars, flag,
                   battVars, gap9Vars, lifeVars, faults>>

MeasureUnlock(c) ==
    /\ pc[c] = "a_unlock"
    /\ Unlock(c)
    /\ Goto(c, "idle")
    /\ UNCHANGED <<job, idx, local, confVars, chipVars, flag, battVars,
                   gap9Vars, lifeVars, faults>>

\* gap9_pwr sets the state, then the pin, and takes no lock.
Gap9Set(c) == \E on \in Gap9Values :
    /\ pc[c] = "idle"
    /\ gap9State' = on
    /\ local' = [local EXCEPT ![c] = on]
    /\ job' = [job EXCEPT ![c] = "client"]
    /\ Goto(c, "g_pin")
    /\ UNCHANGED <<lockVars, idx, confVars, chipVars, flag, battVars, gap9Pin,
                   gap9Port, presses, lifeVars, faults>>

\* Its result is not looked at.
Gap9SetPin(c) == \E ok \in BOOLEAN :
    /\ pc[c] = "g_pin"
    /\ SetGap9(local[c], ok)
    /\ local' = [local EXCEPT ![c] = FALSE]
    /\ Goto(c, IF job[c] = "start" THEN "s_done" ELSE "idle")
    /\ UNCHANGED <<lockVars, job, idx, confVars, chipVars, flag,
                   battVars, gap9State, presses, lifeVars>>

CallKill(c) ==
    /\ pc[c] = "idle"
    /\ Goto(c, "k_lock")
    /\ UNCHANGED <<lockVars, job, idx, local, confVars, chipVars, flag,
                   battVars, gap9Vars, lifeVars, faults>>

Client(c) == \/ MeasureLock(c)
             \/ MeasureUnlock(c)
             \/ Gap9Set(c)
             \/ Gap9SetPin(c)
             \/ CallKill(c)

-----------------------------------------------------------------------------
(* The loop of the power thread.                                           *)

ThreadLock ==
    /\ pc[PwrThread] = "t_lock"
    /\ CanLock(PwrThread)
    /\ Lock(PwrThread)
    /\ Goto(PwrThread, "t_flags")
    /\ UNCHANGED <<job, idx, local, confVars, chipVars, flag, battVars,
                   gap9Vars, lifeVars, faults>>

\* Mutant: the iteration goes on although the lock timed out.
ThreadTimeoutGoesOn ==
    /\ pc[PwrThread] = "t_lock"
    /\ ~CanLock(PwrThread)
    /\ Goto(PwrThread, "t_flags")
    /\ UNCHANGED <<lockVars, job, idx, local, confVars, chipVars, flag,
                   battVars, gap9Vars, lifeVars, faults>>

\* The lock times out: skip_update, whose unlock is still executed.
ThreadTimeout ==
    /\ pc[PwrThread] = "t_lock"
    /\ ~CanLock(PwrThread)
    /\ Goto(PwrThread, "t_unlock")
    /\ UNCHANGED <<lockVars, job, idx, local, confVars, chipVars, flag,
                   battVars, gap9Vars, lifeVars, faults>>

\* Mutant: the flags are cleared by a first read and taken from a second.
ReadFlagsTwice == \E ok \in BOOLEAN :
    /\ pc[PwrThread] = "t_flags"
    /\ Bus(ok)
    /\ IF ok
       THEN /\ nen' = FALSE
            /\ presses' = IF presses = {} THEN {} ELSE {"taken"}
            /\ Goto(PwrThread, "t_flags2")
            /\ UNCHANGED <<job, local>>
       ELSE /\ CallMeasure(PwrThread, "thread")
            /\ UNCHANGED <<local, nen, presses>>
    /\ UNCHANGED <<lockVars, idx, confVars, rail, bias, mux, flag, battVars,
                   gap9State, gap9Pin, gap9Port, lifeVars>>

\* max77654_get_int_flags: reading INT_GLBL0 clears nEN_F in the chip ...
ReadFlags == \E ok \in BOOLEAN :
    /\ pc[PwrThread] = "t_flags"
    /\ Bus(ok)
    /\ IF ok
       THEN /\ local' = [local EXCEPT ![PwrThread] = nen]
            /\ nen' = FALSE
            /\ presses' = IF presses = {} THEN {} ELSE {"taken"}
            /\ Goto(PwrThread, "t_flags2")
            /\ UNCHANGED job
       ELSE /\ CallMeasure(PwrThread, "thread")
            /\ UNCHANGED <<local, nen, presses>>
    /\ UNCHANGED <<lockVars, idx, confVars, rail, bias, mux, flag, battVars,
                   gap9State, gap9Pin, gap9Port, lifeVars>>

\* Mutant: flags accumulate in the caller's copy.
ReadFlags2Or == \E ok \in BOOLEAN :
    /\ pc[PwrThread] = "t_flags2"
    /\ Bus(ok)
    /\ flag' = (flag \/ (ok /\ local[PwrThread]))
    /\ local' = [local EXCEPT ![PwrThread] = FALSE]
    /\ CallMeasure(PwrThread, "thread")
    /\ UNCHANGED <<lockVars, idx, confVars, chipVars, battVars, gap9Vars,
                   lifeVars>>

\* ... and the caller's copy is written after two more reads, if they
\* succeed.  check_battery follows in every case.
ReadFlags2 == \E ok \in BOOLEAN :
    /\ pc[PwrThread] = "t_flags2"
    /\ Bus(ok)
    /\ flag' = IF ok THEN local[PwrThread] ELSE flag
    /\ local' = [local EXCEPT ![PwrThread] = FALSE]
    /\ CallMeasure(PwrThread, "thread")
    /\ UNCHANGED <<lockVars, idx, confVars, chipVars, battVars, gap9Vars,
                   lifeVars>>

\* handle_interrupts, run whether or not the flags were read: GAP9 is
\* switched off for 100 ms if the button was pressed while it was on ...
HandleInterrupts == \E ok \in BOOLEAN :
    /\ pc[PwrThread] = "t_ints"
    /\ presses' = IF flag THEN presses \ {"taken"} ELSE presses
    /\ IF flag /\ gap9State
       THEN SetGap9(FALSE, ok)
       ELSE ok /\ UNCHANGED <<gap9Pin, gap9Port, faults>>
    /\ Goto(PwrThread, IF flag /\ gap9State /\ ok THEN "t_reset" ELSE "t_button")
    /\ UNCHANGED <<lockVars, job, idx, local, confVars, chipVars, flag,
                   battVars, gap9State, lifeVars>>

\* Mutant: the reset leaves GAP9 off.
ResetEndOff == \E ok \in BOOLEAN :
    /\ pc[PwrThread] = "t_reset"
    /\ SetGap9(FALSE, ok)
    /\ Goto(PwrThread, "t_button")
    /\ UNCHANGED <<lockVars, job, idx, local, confVars, chipVars, flag,
                   battVars, gap9State, presses, lifeVars>>

\* ... and switched on again after the sleep, whatever happened meanwhile.  A
\* failure of either call is reported to the loop, which goes on.
ResetEnd == \E ok \in BOOLEAN :
    /\ pc[PwrThread] = "t_reset"
    /\ SetGap9(TRUE, ok)
    /\ Goto(PwrThread, "t_button")
    /\ UNCHANGED <<lockVars, job, idx, local, confVars, chipVars, flag,
                   battVars, gap9State, presses, lifeVars>>

\* A long press calls pwr_kill with the mutex held (PwrButton says when).
CheckButton ==
    /\ pc[PwrThread] = "t_button"
    /\ \E long \in BOOLEAN :
          Goto(PwrThread, IF long THEN "k_lock" ELSE "t_reconf")
    /\ UNCHANGED <<lockVars, job, idx, local, confVars, chipVars, flag,
                   battVars, gap9Vars, lifeVars, faults>>

\* Every 25 minutes reapply_config writes the charger's and the global
\* registers again.
CheckReconfig ==
    /\ pc[PwrThread] = "t_reconf"
    /\ \E due \in BOOLEAN :
          Goto(PwrThread, IF due THEN "r_charger" ELSE "t_unlock")
    /\ UNCHANGED <<lockVars, job, idx, local, confVars, chipVars, flag,
                   battVars, gap9Vars, lifeVars, faults>>

ReapplyCharger == \E ok \in BOOLEAN :
    /\ pc[PwrThread] = "r_charger"
    /\ Bus(ok)
    /\ mux' = IF ok THEN "off" ELSE mux
    /\ Goto(PwrThread, IF ok THEN "r_bias" ELSE "t_unlock")
    /\ UNCHANGED <<lockVars, job, idx, local, confVars, rail, bias, nen, flag,
                   battVars, gap9Vars, lifeVars>>

ReapplyGlobal == \E ok \in BOOLEAN :
    /\ pc[PwrThread] = "r_global"
    /\ WriteBias(PwrThread, ok)
    /\ Goto(PwrThread, "t_unlock")
    /\ UNCHANGED <<lockVars, job, idx, confVars, rail, mux, nen, flag,
                   battVars, gap9Vars, lifeVars>>

ThreadUnlock ==
    /\ pc[PwrThread] = "t_unlock"
    /\ Unlock(PwrThread)
    /\ Goto(PwrThread, "t_sleep")
    /\ UNCHANGED <<job, idx, local, confVars, chipVars, flag, battVars,
                   gap9Vars, lifeVars, faults>>

\* k_sem_take returns, signalled by an interrupt or after 20 seconds.
ThreadWake ==
    /\ pc[PwrThread] = "t_sleep"
    /\ Goto(PwrThread, "t_lock")
    /\ UNCHANGED <<lockVars, job, idx, local, confVars, chipVars, flag,
                   battVars, gap9Vars, lifeVars, faults>>

PowerThread == \/ ThreadLock
               \/ ThreadTimeout
               \/ ReadFlags
               \/ ReadFlags2
               \/ HandleInterrupts
               \/ ResetEnd
               \/ CheckButton
               \/ CheckReconfig
               \/ ReapplyCharger
               \/ ReapplyGlobal
               \/ ThreadUnlock
               \/ ThreadWake

-----------------------------------------------------------------------------
(* pwr_kill, called by a client or by the power thread.                    *)

KillLock(t) ==
    /\ pc[t] = "k_lock"
    /\ CanLock(t)
    /\ Lock(t)
    /\ idx' = [idx EXCEPT ![t] = 1]
    /\ Goto(t, "k_conf")
    /\ UNCHANGED <<job, local, confVars, chipVars, flag, battVars,
                   gap9Vars, lifeVars, faults>>

\* Mutant: pwr_kill waits for the mutex for ever.
KillTimeoutNever(t) ==
    /\ pc[t] = "k_lock"
    /\ ~CanLock(t)
    /\ UNCHANGED vars

\* After the last attempt: "Ignoring pwr mutex.  Forcibly shutting down!"
KillTimeout(t) ==
    /\ pc[t] = "k_lock"
    /\ ~CanLock(t)
    /\ IF idx[t] < LockTries
       THEN idx' = [idx EXCEPT ![t] = @ + 1] /\ UNCHANGED <<pc, forced>>
       ELSE Goto(t, "k_conf") /\ forced' = forced \cup {t}
            /\ idx' = [idx EXCEPT ![t] = 1]
    /\ UNCHANGED <<lockVars, job, local, confVars, chipVars, flag, battVars,
                   gap9Vars, initialised, running, faults>>

\* The head of the retry loop: everything off in the shared configuration.
KillConf(t) ==
    /\ pc[t] = "k_conf"
    /\ confRail' = {}
    /\ confBias' = FALSE
    /\ CallConfig(t, "kill")
    /\ UNCHANGED <<lockVars, idx, local, chipVars, flag, battVars, gap9Vars,
                   lifeVars, faults>>

\* sys_reboot(SYS_REBOOT_COLD): the microcontroller restarts and the PMIC,
\* a chip of its own, keeps its registers.
Reboot(t) ==
    /\ pc[t] = "k_reboot"
    /\ owner' = NoThread /\ depth' = 0
    /\ pc' = [u \in Threads |-> IF u = Main THEN "boot" ELSE "off"]
    /\ job' = [u \in Threads |-> IF u = PwrThread THEN "thread" ELSE "client"]
    /\ idx' = [u \in Threads |-> 1]
    /\ local' = [u \in Threads |-> FALSE]
    /\ confRail' = {} /\ confBias' = TRUE
    /\ flag' = FALSE
    /\ battery' = {} /\ acc' = {}
    /\ gap9State' = FALSE /\ gap9Pin' = FALSE /\ gap9Port' = "input"
    /\ initialised' = FALSE /\ running' = FALSE
    /\ forced' = {}
    /\ presses' = presses \ {"taken"}
    /\ UNCHANGED <<chipVars, faults>>

Kill(t) == \/ KillLock(t)
           \/ KillTimeout(t)
           \/ KillConf(t)
           \/ Reboot(t)

-----------------------------------------------------------------------------
\* The user presses the button: the PMIC latches nEN_F (external).
PressButton ==
    /\ nen' = TRUE
    /\ presses' = presses \cup {"latched"}
    /\ UNCHANGED <<lockVars, pc, job, idx, local, confVars, rail, bias, mux,
                   flag, battVars, gap9State, gap9Pin, gap9Port, lifeVars,
                   faults>>

Init ==
    /\ owner = NoThread /\ depth = 0
    /\ pc = [t \in Threads |-> IF t = Main THEN "boot" ELSE "off"]
    /\ job = [t \in Threads |-> IF t = PwrThread THEN "thread" ELSE "client"]
    /\ idx = [t \in Threads |-> 1]
    /\ local = [t \in Threads |-> FALSE]
    /\ confRail = {} /\ confBias = TRUE
    /\ flag = FALSE
    /\ battery = {} /\ acc = {}
    /\ gap9State = FALSE /\ gap9Pin = FALSE /\ gap9Port = "input"
    /\ initialised = FALSE /\ running = FALSE
    /\ forced = {}
    /\ rail = {}
    /\ bias = FALSE
    /\ mux = "off"
    /\ nen = FALSE
    /\ presses = {}
    /\ faults = 0

Step(t) == Config(t) \/ Measure(t) \/ Kill(t)

Next ==
    \/ Boot
    \/ PowerThread
    \/ \E c \in Clients : Client(c)
    \/ \E t \in Threads : Step(t)
    \/ PressButton

Spec == Init /\ [][Next]_vars

\* Threads run whenever they can; clients need not call anything, but finish
\* what they called.
Fairness ==
    /\ WF_vars(Boot)
    /\ WF_vars(PowerThread \/ Step(PwrThread))
    /\ \A c \in Clients :
          WF_vars(Step(c) \/ MeasureUnlock(c) \/ Gap9SetPin(c))

FairSpec == Spec /\ Fairness

-----------------------------------------------------------------------------
(* Properties.                                                             *)

\* Every variable has its type.
TypeOK ==
    /\ owner \in Threads \cup {NoThread}
    /\ depth \in 0..2
    /\ pc \in [Threads -> Labels]
    /\ job \in [Threads -> Jobs]
    /\ idx \in [Threads -> Nat]
    /\ local \in [Threads -> BOOLEAN]
    /\ confRail \subseteq Rails /\ confBias \in BOOLEAN
    /\ rail \subseteq Rails
    /\ bias \in BOOLEAN
    /\ mux \in Channels \cup {"off"}
    /\ nen \in BOOLEAN
    /\ flag \in BOOLEAN
    /\ battery \subseteq Channels /\ acc \subseteq Channels
    /\ gap9State \in BOOLEAN /\ gap9Pin \in BOOLEAN
    /\ gap9Port \in {"input", "output", "stuck"}
    /\ presses \subseteq {"latched", "taken"}
    /\ initialised \in BOOLEAN /\ running \in BOOLEAN
    /\ forced \subseteq Threads
    /\ faults \in 0..MaxFaults

\* Thread t is in the middle of operating on the PMIC.
Operates(t) ==
    pc[t] \in ConfigLabels \cup MeasureLabels
              \cup {"i_reset", "i_cid", "t_flags", "t_flags2", "r_charger",
                    "r_bias", "r_global", "k_conf"}

\* Two threads never operate on the PMIC at once, unless pwr_kill gave up
\* on the mutex.  It holds although pwr_start configures the PMIC unlocked:
\* no other thread runs yet.
PmicExclusive ==
    \A s, t \in Threads :
        s # t /\ Operates(s) /\ Operates(t) => forced # {}

\* The mutex is given up only by a step of its holder: the unlock that
\* skip_update performs without holding it releases nobody else's lock.
OnlyOwnerUnlocks ==
    [][owner # NoThread /\ owner' # owner => pc'[owner] # pc[owner]]_vars

\* When pwr_kill reboots, every rail is off, through any failures, retries
\* and interleavings; the main bias is off too unless the mutex was ignored
\* (the power thread may then write a bias it computed before).
RebootSafe ==
    \A t \in Threads :
        pc[t] = "k_reboot" =>
            /\ rail = {}
            /\ forced = {} => ~bias

\* The battery level is computed from readings of the battery channel only,
\* whatever other measurements and configurations go on.
BatterySource == battery \subseteq {"batt"}

\* Outside a reset and a call of gap9_pwr, the supply pin of GAP9 agrees
\* with gap9_pwr_state ("Current GAP9 power state", thread_pwr.h:75), unless the
\* pin was never configured or its last setting failed.
Gap9Agrees ==
    gap9Port = "output" /\ pc[PwrThread] # "t_reset"
    /\ (\A c \in Clients : pc[c] # "g_pin")
        => gap9Pin = gap9State

\* On a bus that has not failed, a press of the button resets GAP9 at most
\* once: the flag the reset acts on was raised by a press that no earlier
\* iteration handled ("Check PMIC interrupt flags if button was pressed",
\* thread_pwr.c:242).
ResetOncePerPress ==
    [][pc'[PwrThread] = "t_reset" /\ pc[PwrThread] # "t_reset"
           => "taken" \in presses \/ faults > 0]_vars

\* Whoever holds the mutex releases it (or the system reboots): no error
\* path of pwr_init, of the thread's loop or of a measurement leaks it.
MutexReleased == \A t \in Threads : owner = t ~> owner # t

\* pwr_kill ends in a reboot once the bus stops failing, whoever holds the
\* mutex when it is called.
KillReboots == \A t \in Threads : pc[t] = "k_lock" ~> pc[t] \in {"boot", "off"}

\* A press while GAP9 is on is answered with a reset, unless GAP9 or the
\* system goes down first, or a transaction fails meanwhile: a failed read may
\* have cleared the flag.  Failures before the press do no harm.  It supposes
\* that the power thread is not starved: an iteration whose lock times out
\* (50 ms) reads no flags.
PressResets ==
    []<>(pc[PwrThread] = "t_flags") =>
        \A n \in 0..MaxFaults :
            (nen /\ gap9State /\ running /\ faults = n
                ~> \/ pc[PwrThread] = "t_reset"
                   \/ ~gap9State \/ ~running \/ faults > n)
=============================================================================
