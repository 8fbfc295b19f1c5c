-------------------------------- MODULE Max77654 --------------------------------
(***************************************************************************)
(* The PMIC's driver (max77654.c) at the level of register values, which   *)
(* module Pwr abstracts to booleans: the voltages of the five regulators   *)
(* and the order of their writes, the watchdog and its lock, the ADC's     *)
(* multiplexer and the conversion of the discharge current.                *)
(*                                                                         *)
(* One thread calls the driver's routines, in any order, with any of the   *)
(* configurations; Pwr shows who calls them when and that calls exclude    *)
(* each other.  A transaction fails or succeeds.                           *)
(***************************************************************************)
EXTENDS Integers, Sequences

CONSTANTS
    Readings,  \* of the ADC, in the range of the PMIC's analogue output
    MaxFaults  \* bound: transactions that fail in a behaviour

\* adc_fullscale_mV and adc_max_reading of the board, and the full scale of
\* the PMIC's output AMUX, in mV.
FullScale == 3600
MaxReading == 4095
AmuxScale == 1250

ASSUME MaxAssumption ==
    /\ Readings \subseteq {r \in Nat : r * FullScale < AmuxScale * MaxReading}
    /\ MaxFaults \in Nat

VARIABLES
    conf, wdtConf,  \* h->conf: of the regulators, and wdt_enable
    volt, on,       \* the regulators' voltage codes, and those enabled
    wdtOn, wdtLock, \* WDT_EN and WDT_LOCK
    mux,            \* MUX_SEL
    call, pc, idx,  \* the current or last call, where it is, its loop's counter
    writes,         \* what config_wdt or clr_wdt has left to write
    channel, null, reading, result, \* of max77654_measure
    err,            \* a transaction or a check of the current or last call failed
    muxStuck,       \* history: the last write of DISABLED to MUX_SEL failed
    faults

chipVars == <<volt, on, wdtOn, wdtLock>>
confVars == <<conf, wdtConf>>
valueVars == <<channel, null, reading, result>>
measureVars == <<mux, muxStuck, valueVars>>
vars == <<confVars, chipVars, measureVars, call, pc, idx, writes, err, faults>>

\* SBB0 to SBB2, LDO0 and LDO1, in the order of max77654_config.
Regulators == 1..5
IsLdo(r) == r > 3
Step(r) == IF IsLdo(r) THEN 25 ELSE 50
Highest(r) == IF IsLdo(r) THEN 3975 ELSE 5500

\* Configurations: PMIC_CONFIG_DEFAULT, that of the sensor shield, one at the
\* ends of the ranges, one with a voltage no LDO has, one with a load switch.
Regs(mV, enabled) == [r \in Regulators |->
    [mV |-> mV[r], on |-> r \in enabled, switch |-> FALSE]]
Default == Regs([r \in Regulators |-> 1800], {})
Shield == Regs(<<3300, 2800, 1200, 3300, 1800>>, 1..4)
Ends == Regs(<<800, 5500, 850, 3975, 825>>, Regulators)
NoLdo == Regs(<<3300, 2800, 1200, 4000, 1800>>, 1..4)
Switch == [Shield EXCEPT ![5] = [mV |-> 0, on |-> TRUE, switch |-> TRUE]]
Confs == {Default, Shield, Ends, NoLdo, Switch}

-----------------------------------------------------------------------------
(* Encodings.                                                              *)

Encodable(r, mV) == 800 <= mV /\ mV <= Highest(r) /\ mV % Step(r) = 0

\* Mutant: the LDOs are given the steps of the other regulators.
EncodeMvSbb(r, mV) == (mV - 800) \div 50

\* encode_mV, of a voltage it accepts.
EncodeMv(r, mV) == (mV - 800) \div Step(r)

\* What the chip supplies: TV_SBB and TV_LDO have seven bits.
Supplies(r, code) == 800 + Step(r) * (code % 128)

NeedsVoltage(r) == conf[r].on /\ ~conf[r].switch
Code(r) == IF NeedsVoltage(r) THEN EncodeMv(r, conf[r].mV) ELSE 0

\* The battery's voltage in mV; the gain of 272 / 1000 is reduced by 8.
BatteryMv(r) == (r * FullScale * 125) \div (MaxReading * 34)

MilliVolts(r) == (r * FullScale) \div MaxReading

Wrapped == -1 \* an unsigned difference below zero: some number far above 100

\* Mutant: a reading below the null reading is not looked for.
DischargeUnchecked(i, n) ==
    IF i < n THEN Wrapped
    ELSE ((i - n) * FullScale * 100) \div (AmuxScale * MaxReading - n * FullScale)

\* bat_i_measurement, in percent of the scale.  Both readings have the same
\* full scale, by which the code's fraction is reduced.
Discharge(i, n) ==
    IF MilliVolts(i) < MilliVolts(n) THEN 0
    ELSE IF i < n THEN Wrapped
    ELSE ((i - n) * FullScale * 100) \div (AmuxScale * MaxReading - n * FullScale)

-----------------------------------------------------------------------------
(* Calls and transactions.                                                 *)

Fails == faults < MaxFaults /\ faults' = faults + 1
Works == faults' = faults

\* A write succeeds and has its effect, or fails and is remembered in err.
Write(effect, unchanged) ==
    \/ Works /\ effect /\ err' = err
    \/ Fails /\ unchanged /\ err' = TRUE

Begin(routine, where) ==
    /\ pc = "idle" /\ call' = routine /\ pc' = where
    /\ err' = FALSE /\ faults' = faults

Return == pc' = "idle" /\ idx' = 1

\* max77654_config, of a configuration the application has prepared.
Config == \E c \in Confs :
    /\ Begin("config", "top")
    /\ conf' = c
    /\ UNCHANGED <<wdtConf, chipVars, measureVars, idx, writes>>

\* config_global and config_charger, whose last write disables the
\* multiplexer: any of them may fail, and ends the configuration.
ConfigTop ==
    /\ pc = "top"
    /\ \/ Works /\ mux' = "off" /\ muxStuck' = FALSE
          /\ pc' = "volt" /\ UNCHANGED <<err, idx>>
       \/ Fails /\ err' = TRUE /\ Return
          /\ muxStuck' \in {muxStuck, TRUE} /\ UNCHANGED mux
    /\ UNCHANGED <<confVars, chipVars, valueVars, call, writes>>

\* config_sbb and config_ldo: a voltage that cannot be encoded ends them
\* before they write, ...
ConfigRefused ==
    /\ pc = "volt"
    /\ NeedsVoltage(idx) /\ ~Encodable(idx, conf[idx].mV)
    /\ err' = TRUE /\ Return
    /\ UNCHANGED <<confVars, chipVars, measureVars, call, writes, faults>>

\* Mutant: the voltage of a regulator that is off is not written.
ConfigVoltageOn ==
    /\ pc = "volt"
    /\ NeedsVoltage(idx) => Encodable(idx, conf[idx].mV)
    /\ Write(volt' = [volt EXCEPT ![idx] = IF idx \in on THEN Code(idx) ELSE @],
             volt' = volt)
    /\ pc' = "enable"
    /\ UNCHANGED <<confVars, on, wdtOn, wdtLock, measureVars, call, idx, writes>>

\* ... else they write the voltage, ...
ConfigVoltage ==
    /\ pc = "volt"
    /\ NeedsVoltage(idx) => Encodable(idx, conf[idx].mV)
    /\ Write(volt' = [volt EXCEPT ![idx] = Code(idx)], volt' = volt)
    /\ pc' = "enable"
    /\ UNCHANGED <<confVars, on, wdtOn, wdtLock, measureVars, call, idx, writes>>

Enabled(set, r) == IF conf[r].on THEN set \cup {r} ELSE set \ {r}

\* ... and whatever became of it, the enable bits: the errors are collected,
\* and end the configuration only then.
ConfigEnable ==
    /\ pc = "enable"
    /\ Write(on' = Enabled(on, idx), on' = on)
    /\ IF err' THEN Return
       ELSE idx' = (idx % 5) + 1 /\ pc' = IF idx = 5 THEN "rest" ELSE "volt"
    /\ UNCHANGED <<confVars, volt, wdtOn, wdtLock, measureVars, call, writes>>

\* config_int and config_gpio.
ConfigRest ==
    /\ pc = "rest"
    /\ Write(TRUE, TRUE)
    /\ Return
    /\ UNCHANGED <<confVars, chipVars, measureVars, call, writes>>

\* max77654_reset: the registers take their defaults.
Reset ==
    /\ pc = "idle" /\ UNCHANGED pc /\ call' = "reset"
    /\ \/ /\ Works /\ err' = FALSE
          /\ volt' = [r \in Regulators |-> 0] /\ on' = {}
          /\ wdtOn' = FALSE /\ wdtLock' = FALSE
          /\ mux' = "off" /\ muxStuck' = FALSE
       \/ Fails /\ err' = TRUE /\ UNCHANGED <<chipVars, mux, muxStuck>>
    /\ UNCHANGED <<confVars, valueVars, idx, writes>>

-----------------------------------------------------------------------------
(* The watchdog.                                                           *)

W(enable, lock) == [enable |-> enable, lock |-> lock]

\* Mutant: the lock is not removed first.
WdtWritesLocked(enable) == <<W(enable, TRUE)>>

\* config_wdt: to disable, remove the lock, disable, and lock again.
WdtWrites(enable) ==
    IF enable THEN <<W(TRUE, TRUE)>>
    ELSE <<W(FALSE, FALSE), W(FALSE, FALSE), W(FALSE, TRUE)>>

ConfigWdt == \E enable \in BOOLEAN :
    /\ Begin("wdt", "wdt")
    /\ wdtConf' = enable
    /\ writes' = WdtWrites(enable)
    /\ UNCHANGED <<conf, chipVars, measureVars, idx>>

\* clr_wdt, with the wdt_enable of the configuration.
ClearWdt ==
    /\ Begin("clear", "wdt")
    /\ writes' = <<W(wdtConf, TRUE)>>
    /\ UNCHANGED <<confVars, chipVars, measureVars, idx>>

\* A write of CNFG_WDT.  The chip ignores a cleared enable bit while it is
\* locked; the driver goes on after an error.
WriteWdt ==
    /\ pc = "wdt"
    /\ LET w == Head(writes)
       IN  Write(wdtOn' = (w.enable \/ (wdtOn /\ wdtLock)) /\ wdtLock' = w.lock,
                 UNCHANGED <<wdtOn, wdtLock>>)
    /\ writes' = IF Len(writes) = 1 THEN writes ELSE Tail(writes)
    /\ pc' = IF Len(writes) = 1 THEN "idle" ELSE "wdt"
    /\ UNCHANGED <<confVars, volt, on, measureVars, call, idx>>

-----------------------------------------------------------------------------
(* max77654_measure.                                                       *)

Measure == \E c \in {"battery", "current"} :
    /\ Begin("measure", "mux")
    /\ channel' = c
    /\ UNCHANGED <<confVars, chipVars, mux, muxStuck, null, reading, result, idx,
                   writes>>

\* The multiplexer is switched: for a current, first to the null voltage.
Select ==
    /\ pc \in {"mux", "mux2"}
    /\ Write(mux' = (IF pc = "mux" /\ channel = "current" THEN "null" ELSE channel),
             mux' = mux)
    /\ pc' = IF err' THEN "off" ELSE IF pc = "mux" THEN "adc" ELSE "adc2"
    /\ UNCHANGED <<confVars, chipVars, valueVars, muxStuck, call, idx, writes>>

\* pmic_bsp_adc_read, and what is computed from it.
Convert == \E r \in Readings :
    /\ Works
    /\ \/ /\ pc = "adc" /\ channel = "battery"
          /\ reading' = r /\ result' = BatteryMv(r)
          /\ pc' = "off" /\ null' = null
       \/ /\ pc = "adc" /\ channel = "current"
          /\ null' = r /\ pc' = "mux2" /\ UNCHANGED <<reading, result>>
       \/ /\ pc = "adc2"
          /\ reading' = r /\ result' = Discharge(r, null)
          /\ pc' = "off" /\ null' = null
    /\ UNCHANGED <<confVars, chipVars, mux, channel, muxStuck, call, idx, writes,
                   err>>

\* Mutant: a failed conversion returns at once.
ConvertFailsReturns ==
    /\ pc \in {"adc", "adc2"}
    /\ Fails /\ err' = TRUE /\ pc' = "idle"
    /\ UNCHANGED <<confVars, chipVars, measureVars, call, idx, writes>>

ConvertFails ==
    /\ pc \in {"adc", "adc2"}
    /\ Fails /\ err' = TRUE /\ pc' = "off"
    /\ UNCHANGED <<confVars, chipVars, measureVars, call, idx, writes>>

\* Whatever failed, the multiplexer is switched off.  The result is the
\* caller's.
SwitchOff ==
    /\ pc = "off"
    /\ Write(mux' = "off" /\ muxStuck' = FALSE, mux' = mux /\ muxStuck' = TRUE)
    /\ pc' = "idle" /\ null' = 0 /\ reading' = 0 /\ result' = 0
    /\ UNCHANGED <<confVars, chipVars, channel, call, idx, writes>>

Init ==
    /\ conf = Default /\ wdtConf = FALSE
    /\ volt = [r \in Regulators |-> 0] /\ on = {}
    /\ wdtOn = FALSE /\ wdtLock = FALSE
    /\ mux = "off" /\ muxStuck = FALSE
    /\ call = "reset" /\ pc = "idle" /\ idx = 1 /\ writes = <<W(FALSE, TRUE)>> /\ err = FALSE
    /\ channel = "battery" /\ null = 0 /\ reading = 0 /\ result = 0
    /\ faults = 0

Next ==
    \/ Config \/ ConfigTop \/ ConfigRefused
    \/ ConfigVoltage \/ ConfigEnable \/ ConfigRest
    \/ Reset
    \/ ConfigWdt \/ ClearWdt \/ WriteWdt
    \/ Measure \/ Select \/ Convert \/ ConvertFails \/ SwitchOff

Spec == Init /\ [][Next]_vars

-----------------------------------------------------------------------------
(* Properties.                                                             *)

Returned(routine) == pc = "idle" /\ call = routine /\ ~err

\* When max77654_config returns success the chip supplies exactly what was
\* configured: whatever earlier configurations, complete or broken off, left
\* in the registers, and over the whole range of the encodings.
ConfigApplied ==
    Returned("config") => \A r \in Regulators :
        /\ r \in on <=> conf[r].on
        /\ NeedsVoltage(r) => Supplies(r, volt[r]) = conf[r].mV

\* A regulator is switched on at the voltage configured for it, as the comment
\* on the order of the two writes says (max77654.c:353-355): no previously
\* configured voltage is present on an output that is being enabled.  The
\* exception is a write of the voltage that failed: the enable bits are
\* written all the same.
EnabledAtVoltage ==
    [][\A r \in on' \ on : NeedsVoltage(r) =>
           Supplies(r, volt'[r]) = conf[r].mV \/ err]_vars

\* When max77654_config_wdt returns success the watchdog runs exactly if it
\* was asked to, and is locked, whatever state an earlier call that failed
\* half-way left it in.
WatchdogFollows ==
    Returned("wdt") => wdtOn = wdtConf /\ wdtLock

\* Between calls the ADC's multiplexer is off, on every error path of a
\* measurement, unless the very write that switches it off failed.
MuxReturned == pc = "idle" => mux = "off" \/ muxStuck

\* The discharge current is a percentage, the exact one rounded down, and 0 at
\* and below the null reading.  The exception is a reading below the null
\* reading that is the same number of millivolts: the comparison of
\* millivolts does not see it, and the unsigned difference wraps.
DischargePercent ==
    pc = "off" /\ channel = "current" /\ ~err =>
        LET scale == AmuxScale * MaxReading - null * FullScale
            above == (reading - null) * FullScale * 100
        IN  \/ /\ result = Wrapped
               /\ reading < null /\ MilliVolts(reading) = MilliVolts(null)
            \/ /\ result \in 0..100
               /\ IF reading <= null THEN result = 0
                  ELSE result * scale <= above /\ above < (result + 1) * scale
=============================================================================
