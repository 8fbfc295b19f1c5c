------------------------------- MODULE MaxProofs -------------------------------
(***************************************************************************)
(* Theorems about the PMIC's driver, for any readings of the ADC and any   *)
(* number of failed transactions.                                          *)
(*                                                                         *)
(* The properties speak of the moment at which a routine returns; MaxInv   *)
(* says what holds in the middle of it: which regulators a configuration   *)
(* has dealt with, what config_wdt has left to write, and that a           *)
(* measurement is still on its way to the write that frees the             *)
(* multiplexer.                                                            *)
(***************************************************************************)
EXTENDS Max77654, TLAPS

Routines == {"config", "reset", "wdt", "clear", "measure"}
Configuring == {"top", "volt", "enable", "rest"}
Measuring == {"mux", "mux2", "adc", "adc2", "off"}
Regulator == [mV : Nat, on : BOOLEAN, switch : BOOLEAN]
\* What config_wdt or clr_wdt has left to write.
WdtRemaining == {<<W(TRUE, TRUE)>>, <<W(FALSE, TRUE)>>,
                 <<W(FALSE, FALSE), W(FALSE, TRUE)>>,
                 <<W(FALSE, FALSE), W(FALSE, FALSE), W(FALSE, TRUE)>>}
Reading == {r \in Nat : r * FullScale < AmuxScale * MaxReading}

MaxTypes ==
    /\ conf \in [Regulators -> Regulator] /\ wdtConf \in BOOLEAN
    /\ volt \in [Regulators -> Int] /\ on \subseteq Regulators
    /\ wdtOn \in BOOLEAN /\ wdtLock \in BOOLEAN
    /\ call \in Routines /\ pc \in {"idle", "wdt"} \cup Configuring \cup Measuring
    /\ idx \in Regulators
    /\ writes \in WdtRemaining
    /\ null \in Reading /\ reading \in Reading
    /\ err \in BOOLEAN /\ muxStuck \in BOOLEAN

\* Which routine runs where.
CallInv ==
    /\ pc \in Configuring => call = "config"
    /\ pc = "wdt" => call \in {"wdt", "clear"}
    /\ pc \in Measuring => call = "measure"
    /\ pc \notin {"volt", "enable"} => idx = 1
    /\ pc \in {"top", "volt", "rest"} => ~err

\* A regulator supplies what the configuration asks for.
VoltageOf(r) == NeedsVoltage(r) => Supplies(r, volt[r]) = conf[r].mV
Applied(r) == (r \in on <=> conf[r].on) /\ VoltageOf(r)

ConfigInv ==
    /\ pc \in {"volt", "enable"} => \A r \in Regulators : r < idx => Applied(r)
    /\ pc = "enable" => VoltageOf(idx) \/ err
    /\ pc = "rest" \/ Returned("config") => \A r \in Regulators : Applied(r)

\* What config_wdt has left to write, as long as nothing failed.
WdtInv ==
    /\ pc = "wdt" /\ call = "wdt" /\ ~err =>
         \/ wdtConf /\ writes = <<W(TRUE, TRUE)>>
         \/ ~wdtConf /\ writes = <<W(FALSE, FALSE), W(FALSE, FALSE), W(FALSE, TRUE)>>
         \/ ~wdtConf /\ writes = <<W(FALSE, FALSE), W(FALSE, TRUE)>> /\ ~wdtLock
         \/ ~wdtConf /\ writes = <<W(FALSE, TRUE)>> /\ ~wdtLock /\ ~wdtOn
    /\ WatchdogFollows

MuxInv == pc \notin Measuring => mux = "off" \/ muxStuck

\* The discharge current of two readings.
Percentage(p, i, n) ==
    LET scale == AmuxScale * MaxReading - n * FullScale
        above == (i - n) * FullScale * 100
    IN  \/ p = Wrapped /\ i < n /\ MilliVolts(i) = MilliVolts(n)
        \/ /\ p \in 0..100
           /\ IF i <= n THEN p = 0
              ELSE p * scale <= above /\ above < (p + 1) * scale

ValueInv ==
    pc = "off" /\ channel = "current" /\ ~err => Percentage(result, reading, null)

MaxInv == MaxTypes /\ CallInv /\ ConfigInv /\ WdtInv /\ MuxInv /\ ValueInv

-----------------------------------------------------------------------------
(* What is computed.                                                       *)

\* Encoding: the chip supplies a voltage that encode_mV accepts.
LEMMA EncodeLemma ==
    ASSUME NEW r \in Regulators, NEW mV \in Nat, Encodable(r, mV)
    PROVE  EncodeMv(r, mV) \in Int /\ Supplies(r, EncodeMv(r, mV)) = mV
<1>1. CASE IsLdo(r)
  BY <1>1 DEF Encodable, Supplies, EncodeMv, Step, Highest
<1>2. CASE ~IsLdo(r)
  BY <1>2 DEF Encodable, Supplies, EncodeMv, Step, Highest
<1>3. QED  BY <1>1, <1>2

\* Integer division by a positive number.
LEMMA DivLemma ==
    ASSUME NEW a \in Nat, NEW b \in Nat, b > 0
    PROVE  /\ a \div b \in Nat
           /\ (a \div b) * b <= a
           /\ a < ((a \div b) + 1) * b
<1>1. a = b * (a \div b) + (a % b) /\ a % b \in 0..(b - 1) /\ a \div b \in Nat
  OBVIOUS
<1> DEFINE q == a \div b
           m == a % b
<1>2. q \in Nat /\ m \in 0..(b - 1) /\ a = b * q + m
  BY <1>1
<1> HIDE DEF q, m
<1>3. q * b <= a /\ a < (q + 1) * b
  BY <1>2, Z3
<1>4. QED  BY <1>2, <1>3 DEF q

\* A quotient at most 100 times the divisor's.
LEMMA HundredLemma ==
    ASSUME NEW q \in Nat, NEW b \in Nat, b > 0, q * b <= 100 * b
    PROVE  q <= 100
<1>1. SUFFICES ASSUME q >= 101 PROVE FALSE
  OBVIOUS
<1>2. q * b >= 101 * b
  BY <1>1
<1>3. QED  BY <1>2

\* bat_i_measurement returns the percentage rounded down, but for readings of
\* noise within one millivolt.
LEMMA DischargeLemma ==
    ASSUME NEW i \in Reading, NEW n \in Reading
    PROVE  Percentage(Discharge(i, n), i, n)
<1> DEFINE scale == AmuxScale * MaxReading - n * FullScale
           above == (i - n) * FullScale * 100
<1>1. scale \in Nat /\ scale > 0 /\ i \in Nat /\ n \in Nat
  BY DEF Reading, FullScale, MaxReading, AmuxScale
<1>2. i <= n => MilliVolts(i) <= MilliVolts(n)
  BY <1>1 DEF MilliVolts, FullScale, MaxReading
<1>3. n <= i => MilliVolts(n) <= MilliVolts(i)
  BY <1>1 DEF MilliVolts, FullScale, MaxReading
<1>4. MilliVolts(i) \in Nat /\ MilliVolts(n) \in Nat
  BY <1>1 DEF MilliVolts, FullScale, MaxReading
<1>5. CASE i < n
  BY <1>1, <1>2, <1>4, <1>5 DEF Discharge, Percentage
<1>6. CASE i >= n
  <2>1. Discharge(i, n) = above \div scale
    BY <1>1, <1>3, <1>4, <1>6 DEF Discharge
  <2>2. above \in Nat /\ above <= 100 * scale
    BY <1>1, <1>6 DEF Reading, FullScale, MaxReading, AmuxScale
  <2> DEFINE p == above \div scale
  <2>3. p \in Nat /\ p * scale <= above /\ above < (p + 1) * scale
    BY <1>1, <2>2, DivLemma
  <2>4. p * scale <= 100 * scale
    BY <1>1, <2>2, <2>3
  <2>5. p <= 100
    BY <1>1, <2>3, <2>4, HundredLemma
  <2>6. i = n => p = 0
    <3>1. SUFFICES ASSUME i = n PROVE p = 0
      OBVIOUS
    <3>2. above = 0
      BY <1>1, <3>1 DEF FullScale
    <3>3. 0 \div scale = 0
      BY <1>1
    <3>4. QED  BY <3>2, <3>3
  <2>7. CASE i = n
    BY <1>1, <2>1, <2>6, <2>7 DEF Percentage
  <2>8. CASE i > n
    <3>1. ~(i <= n)
      BY <1>1, <2>8
    <3> HIDE DEF p
    <3>2. p \in Nat /\ p <= 100
      BY <2>3, <2>5
    <3>3. p \in 0..100
      BY <3>2
    <3>4. QED  BY <2>1, <2>3, <3>1, <3>3, Zenon DEF Percentage, p
  <2>9. QED  BY <1>1, <1>6, <2>7, <2>8
<1>7. QED  BY <1>1, <1>5, <1>6

-----------------------------------------------------------------------------
(* The invariant.                                                          *)

LEMMA ConfsTyped == Confs \subseteq [Regulators -> Regulator]
<1>1. \A mV \in [Regulators -> Nat] : \A set \in SUBSET Regulators :
        Regs(mV, set) \in [Regulators -> Regulator]
  BY DEF Regs, Regulator
<1>2. /\ [r \in Regulators |-> 1800] \in [Regulators -> Nat]
      /\ <<3300, 2800, 1200, 3300, 1800>> \in [Regulators -> Nat]
      /\ <<800, 5500, 850, 3975, 825>> \in [Regulators -> Nat]
      /\ <<3300, 2800, 1200, 4000, 1800>> \in [Regulators -> Nat]
  BY DEF Regulators
<1>3. /\ {} \in SUBSET Regulators
      /\ 1..4 \in SUBSET Regulators
      /\ Regulators \in SUBSET Regulators
  BY DEF Regulators
<1>4. /\ Default \in [Regulators -> Regulator]
      /\ Shield \in [Regulators -> Regulator]
      /\ Ends \in [Regulators -> Regulator]
      /\ NoLdo \in [Regulators -> Regulator]
  BY <1>1, <1>2, <1>3 DEF Default, Shield, Ends, NoLdo
<1>5. [mV |-> 0, on |-> TRUE, switch |-> TRUE] \in Regulator
  BY DEF Regulator
<1>6. Switch \in [Regulators -> Regulator]
  BY <1>4, <1>5 DEF Switch
<1>7. QED  BY <1>4, <1>6 DEF Confs

LEMMA TailLemma ==
    ASSUME NEW a, NEW b, NEW c
    PROVE  /\ Head(<<a>>) = a /\ Len(<<a>>) = 1
           /\ Head(<<a, b>>) = a /\ Len(<<a, b>>) = 2 /\ Tail(<<a, b>>) = <<b>>
           /\ Head(<<a, b, c>>) = a /\ Len(<<a, b, c>>) = 3
           /\ Tail(<<a, b, c>>) = <<b, c>>
OBVIOUS

LEMMA ZeroReading == 0 \in Reading
BY DEF Reading, FullScale, AmuxScale, MaxReading

LEMMA MaxInitInv == Init => MaxInv
<1> SUFFICES ASSUME Init PROVE MaxInv
  OBVIOUS
<1> USE DEF Init
<1>1. MaxTypes
  <2>1. conf \in [Regulators -> Regulator]
    BY ConfsTyped DEF Confs
  <2>2. volt \in [Regulators -> Int] /\ 1 \in Regulators
    BY DEF Regulators
  <2>3. QED  BY <2>1, <2>2, ZeroReading DEF MaxTypes, Routines, WdtRemaining
<1>2. CallInv  BY DEF CallInv, Configuring, Measuring
<1>3. ConfigInv  BY DEF ConfigInv, Returned
<1>4. WdtInv  BY DEF WdtInv, WatchdogFollows, Returned
<1>5. MuxInv  BY DEF MuxInv
<1>6. ValueInv  BY DEF ValueInv
<1>7. QED  BY <1>1, <1>2, <1>3, <1>4, <1>5, <1>6 DEF MaxInv

\* What every step outside of it keeps of a configuration.
LEMMA AppliedKept ==
    ASSUME UNCHANGED <<conf, volt, on>>
    PROVE  \A r : Applied(r)' = Applied(r) /\ VoltageOf(r)' = VoltageOf(r)
BY DEF Applied, VoltageOf, NeedsVoltage

LEMMA ConfigStep ==
    ASSUME MaxInv, Config
    PROVE  MaxInv'
<1> USE DEF MaxInv, Config, Begin
<1>1. PICK c \in Confs : conf' = c
  OBVIOUS
<1>2. MaxTypes'
  BY <1>1, ConfsTyped DEF MaxTypes, Routines, Configuring, chipVars, measureVars,
     valueVars
<1>3. CallInv'  BY DEF CallInv, Configuring, Measuring
<1>4. ConfigInv'  BY DEF ConfigInv, Returned
<1>5. WdtInv'  BY DEF WdtInv, WatchdogFollows, Returned
<1>6. MuxInv'  BY DEF MuxInv, Measuring, measureVars
<1>7. ValueInv'  BY DEF ValueInv
<1>8. QED  BY <1>2, <1>3, <1>4, <1>5, <1>6, <1>7

LEMMA ConfigTopStep ==
    ASSUME MaxInv, ConfigTop
    PROVE  MaxInv'
<1> USE DEF MaxInv, ConfigTop, Return
<1>1. MaxTypes'
  <2>1. 1 \in Regulators
    BY DEF Regulators
  <2>2. QED
    BY <2>1 DEF MaxTypes, Configuring, confVars, chipVars, valueVars
<1>2. CallInv'
  <2>1. CASE pc' = "volt"
    BY <2>1 DEF CallInv, Configuring, Measuring
  <2>2. CASE pc' = "idle"
    BY <2>2 DEF CallInv, Configuring, Measuring
  <2>3. QED  BY <2>1, <2>2
<1>3. ConfigInv'
  <2>1. CASE pc' = "volt"
    BY <2>1 DEF CallInv, ConfigInv, Returned, Regulators
  <2>2. CASE pc' = "idle"
    BY <2>2 DEF ConfigInv, Returned
  <2>3. QED  BY <2>1, <2>2
<1>4. WdtInv'  BY DEF CallInv, Configuring, WdtInv, WatchdogFollows, Returned
<1>5. MuxInv'  BY DEF MuxInv, Measuring
<1>6. ValueInv'  BY DEF ValueInv
<1>7. QED  BY <1>1, <1>2, <1>3, <1>4, <1>5, <1>6

LEMMA ConfigRefusedStep ==
    ASSUME MaxInv, ConfigRefused
    PROVE  MaxInv'
<1> USE DEF MaxInv, ConfigRefused, Return
<1>1. MaxTypes'
  <2>1. 1 \in Regulators
    BY DEF Regulators
  <2>2. QED
    BY <2>1 DEF MaxTypes, confVars, chipVars, measureVars, valueVars
<1>2. CallInv'  BY DEF CallInv, Configuring, Measuring
<1>3. ConfigInv'  BY DEF ConfigInv, Returned
<1>4. WdtInv'  BY DEF WdtInv, WatchdogFollows, Returned
<1>5. MuxInv'  BY DEF MuxInv, Measuring, measureVars
<1>6. ValueInv'  BY DEF ValueInv
<1>7. QED  BY <1>1, <1>2, <1>3, <1>4, <1>5, <1>6

\* The voltage written for regulator idx is the one configured.
LEMMA ConfigVoltageStep ==
    ASSUME MaxInv, ConfigVoltage
    PROVE  MaxInv'
<1> USE DEF MaxInv, ConfigVoltage, Write
<1>1. idx \in Regulators /\ conf[idx].mV \in Nat
  BY DEF MaxTypes, Regulator
<1>2. Code(idx) \in Int /\ (NeedsVoltage(idx) => Supplies(idx, Code(idx)) = conf[idx].mV)
  BY <1>1, EncodeLemma DEF Code
<1>3. volt \in [Regulators -> Int]
  BY DEF MaxTypes
<1>4. volt' \in [Regulators -> Int]
  BY <1>2, <1>3
<1>5. MaxTypes'
  BY <1>4 DEF MaxTypes, Configuring, confVars, measureVars, valueVars
<1>6. CallInv'  BY DEF CallInv, Configuring, Measuring
<1>7. ConfigInv'
  <2>1. UNCHANGED <<conf, on, idx>> /\ pc = "volt" /\ pc' = "enable"
    BY DEF confVars
  <2>2. \A r \in Regulators : r < idx => Applied(r)'
    <3>1. SUFFICES ASSUME NEW r \in Regulators, r < idx PROVE Applied(r)'
      OBVIOUS
    <3>2. r # idx
      BY <1>1, <3>1 DEF Regulators
    <3>3. volt'[r] = volt[r]
      BY <1>3, <3>2
    <3>4. Applied(r)
      BY <2>1, <3>1 DEF ConfigInv
    <3>5. QED  BY <2>1, <3>3, <3>4 DEF Applied, VoltageOf, NeedsVoltage
  <2>3. VoltageOf(idx)' \/ err'
    <3>1. CASE err'
      BY <3>1
    <3>2. CASE ~err'
      <4>1. volt'[idx] = Code(idx)
        BY <1>1, <1>3, <3>2
      <4>2. QED  BY <1>2, <2>1, <4>1 DEF VoltageOf, NeedsVoltage
    <3>3. QED  BY <3>1, <3>2
  <2>4. QED  BY <2>1, <2>2, <2>3 DEF ConfigInv, Returned
<1>8. WdtInv'  BY DEF WdtInv, WatchdogFollows, Returned
<1>9. MuxInv'  BY DEF MuxInv, Measuring, measureVars
<1>10. ValueInv'  BY DEF ValueInv
<1>11. QED  BY <1>5, <1>6, <1>7, <1>8, <1>9, <1>10

\* The enable bits make regulator idx complete.
LEMMA ConfigEnableStep ==
    ASSUME MaxInv, ConfigEnable
    PROVE  MaxInv'
<1> USE DEF MaxInv, ConfigEnable, Write, Return
<1>1. /\ pc = "enable" /\ UNCHANGED <<conf, volt, call, writes>>
      /\ idx \in Regulators /\ on \subseteq Regulators
  BY DEF MaxTypes, confVars
<1>2. on' \subseteq Regulators
  BY <1>1 DEF Enabled
<1>3. idx' \in Regulators /\ (~err' => idx' = IF idx = 5 THEN 1 ELSE idx + 1)
  BY <1>1 DEF Regulators
<1>4. MaxTypes'
  BY <1>2, <1>3 DEF MaxTypes, Configuring, confVars, measureVars, valueVars
<1>5. CallInv'
  BY <1>3 DEF CallInv, Configuring, Measuring
<1>6. ConfigInv'
  <2>1. CASE err'
    BY <2>1 DEF ConfigInv, Returned
  <2>2. CASE ~err'
    <3>1. on' = Enabled(on, idx) /\ ~err
      BY <2>2 DEF MaxTypes
    <3>2. \A r \in Regulators : r <= idx => Applied(r)'
      <4>1. SUFFICES ASSUME NEW r \in Regulators, r <= idx PROVE Applied(r)'
        OBVIOUS
      <4>2. CASE r = idx
        <5>1. VoltageOf(r)'
          BY <1>1, <3>1, <4>2 DEF ConfigInv, VoltageOf, NeedsVoltage
        <5>2. r \in on' <=> conf'[r].on
          BY <1>1, <3>1, <4>2 DEF Enabled
        <5>3. QED  BY <5>1, <5>2 DEF Applied
      <4>3. CASE r # idx
        <5>1. r < idx
          BY <1>1, <4>1, <4>3 DEF Regulators
        <5>2. Applied(r)
          BY <1>1, <5>1 DEF ConfigInv
        <5>3. r \in on' <=> r \in on
          BY <3>1, <4>3 DEF Enabled
        <5>4. QED  BY <1>1, <5>2, <5>3 DEF Applied, VoltageOf, NeedsVoltage
      <4>4. QED  BY <4>2, <4>3
    <3>3. CASE idx = 5
      <4>1. pc' = "rest"
        BY <2>2, <3>3
      <4>2. \A r \in Regulators : r <= idx
        BY <3>3 DEF Regulators
      <4>3. QED  BY <3>2, <4>1, <4>2 DEF ConfigInv, Returned
    <3>4. CASE idx # 5
      <4>1. pc' = "volt" /\ idx' = idx + 1
        BY <1>3, <2>2, <3>4
      <4>2. \A r \in Regulators : r < idx' => r <= idx
        BY <1>1, <4>1 DEF Regulators
      <4>3. QED  BY <3>2, <4>1, <4>2 DEF ConfigInv, Returned
    <3>5. QED  BY <3>3, <3>4
  <2>3. QED  BY <2>1, <2>2
<1>7. WdtInv'  BY <1>1 DEF CallInv, Configuring, WdtInv, WatchdogFollows, Returned
<1>8. MuxInv'  BY DEF MuxInv, Measuring, measureVars
<1>9. ValueInv'  BY DEF ValueInv
<1>10. QED  BY <1>4, <1>5, <1>6, <1>7, <1>8, <1>9

LEMMA ConfigRestStep ==
    ASSUME MaxInv, ConfigRest
    PROVE  MaxInv'
<1> USE DEF MaxInv, ConfigRest, Write, Return
<1>1. MaxTypes'
  <2>1. 1 \in Regulators
    BY DEF Regulators
  <2>2. QED
    BY <2>1 DEF MaxTypes, confVars, chipVars, measureVars, valueVars
<1>2. CallInv'  BY DEF CallInv, Configuring, Measuring
<1>3. ConfigInv'
  BY AppliedKept DEF ConfigInv, Returned, confVars, chipVars
<1>4. WdtInv'  BY DEF CallInv, Configuring, WdtInv, WatchdogFollows, Returned
<1>5. MuxInv'  BY DEF MuxInv, Measuring, measureVars
<1>6. ValueInv'  BY DEF ValueInv
<1>7. QED  BY <1>1, <1>2, <1>3, <1>4, <1>5, <1>6

LEMMA ResetStep ==
    ASSUME MaxInv, Reset
    PROVE  MaxInv'
<1> USE DEF MaxInv, Reset
<1>1. MaxTypes'
  <2>1. volt' \in [Regulators -> Int] /\ on' \subseteq Regulators
    BY DEF MaxTypes, chipVars
  <2>2. QED
    BY <2>1 DEF MaxTypes, Routines, confVars, chipVars, valueVars
<1>2. CallInv'  BY DEF CallInv, Configuring, Measuring
<1>3. ConfigInv'  BY DEF ConfigInv, Returned
<1>4. WdtInv'  BY DEF WdtInv, WatchdogFollows, Returned
<1>5. MuxInv'  BY DEF MuxInv, Measuring
<1>6. ValueInv'  BY DEF ValueInv
<1>7. QED  BY <1>1, <1>2, <1>3, <1>4, <1>5, <1>6

LEMMA ConfigWdtStep ==
    ASSUME MaxInv, ConfigWdt
    PROVE  MaxInv'
<1> USE DEF MaxInv, ConfigWdt, Begin
<1>1. PICK enable \in BOOLEAN : wdtConf' = enable /\ writes' = WdtWrites(enable)
  OBVIOUS
<1>2. MaxTypes'
  <2>1. writes' \in WdtRemaining
    BY <1>1 DEF WdtWrites, WdtRemaining
  <2>2. QED
    BY <1>1, <2>1 DEF MaxTypes, Routines, chipVars, measureVars, valueVars
<1>3. CallInv'  BY DEF CallInv, Configuring, Measuring
<1>4. ConfigInv'  BY DEF ConfigInv, Returned
<1>5. WdtInv'  BY <1>1 DEF WdtInv, WdtWrites, WatchdogFollows, Returned
<1>6. MuxInv'  BY DEF MuxInv, Measuring, measureVars
<1>7. ValueInv'  BY DEF ValueInv
<1>8. QED  BY <1>2, <1>3, <1>4, <1>5, <1>6, <1>7

LEMMA ClearWdtStep ==
    ASSUME MaxInv, ClearWdt
    PROVE  MaxInv'
<1> USE DEF MaxInv, ClearWdt, Begin
<1>1. MaxTypes'
  <2>1. writes' \in WdtRemaining
    BY DEF MaxTypes, WdtRemaining
  <2>2. QED
    BY <2>1 DEF MaxTypes, Routines, confVars, chipVars, measureVars, valueVars
<1>2. CallInv'  BY DEF CallInv, Configuring, Measuring
<1>3. ConfigInv'  BY DEF ConfigInv, Returned
<1>4. WdtInv'  BY DEF WdtInv, WatchdogFollows, Returned
<1>5. MuxInv'  BY DEF MuxInv, Measuring, measureVars
<1>6. ValueInv'  BY DEF ValueInv
<1>7. QED  BY <1>1, <1>2, <1>3, <1>4, <1>5, <1>6

\* The write of CNFG_WDT that removes the lock makes the one that disables
\* effective.
LEMMA WriteWdtStep ==
    ASSUME MaxInv, WriteWdt
    PROVE  MaxInv'
<1> USE DEF MaxInv, WriteWdt
<1> DEFINE w == Head(writes)
<1>1. \A a, b \in BOOLEAN : W(a, b).enable = a /\ W(a, b).lock = b
  BY DEF W
<1>2. /\ UNCHANGED <<confVars, volt, on, measureVars, call, idx>> /\ pc = "wdt"
      /\ pc' = (IF Len(writes) = 1 THEN "idle" ELSE "wdt")
      /\ writes' = (IF Len(writes) = 1 THEN writes ELSE Tail(writes))
      /\ \/ wdtOn' = (w.enable \/ (wdtOn /\ wdtLock)) /\ wdtLock' = w.lock /\ err' = err
         \/ UNCHANGED <<wdtOn, wdtLock>> /\ err' = TRUE
  BY DEF Write
<1> DEFINE open == W(FALSE, FALSE)
           close == W(FALSE, TRUE)
<1> HIDE DEF open, close
<1>t. /\ \A a : Head(<<a>>) = a /\ Len(<<a>>) = 1
      /\ Head(<<open, close>>) = open /\ Len(<<open, close>>) = 2
      /\ Tail(<<open, close>>) = <<close>>
      /\ Head(<<open, open, close>>) = open /\ Len(<<open, open, close>>) = 3
      /\ Tail(<<open, open, close>>) = <<open, close>>
  BY TailLemma
\* The cases of what is left to write.
<1>s. ASSUME NEW e \in BOOLEAN, writes = <<W(e, TRUE)>>
      PROVE  w = W(e, TRUE) /\ writes' = writes /\ pc' = "idle"
  BY <1>2, <1>s, <1>t
<1>d. ASSUME writes = <<open, close>>
      PROVE  w = open /\ writes' = <<close>> /\ pc' = "wdt"
  BY <1>2, <1>d, <1>t
<1>f. ASSUME writes = <<open, open, close>>
      PROVE  w = open /\ writes' = <<open, close>> /\ pc' = "wdt"
  BY <1>2, <1>f, <1>t
<1>g. \/ \E e \in BOOLEAN : writes = <<W(e, TRUE)>>
      \/ writes = <<open, close>>
      \/ writes = <<open, open, close>>
  BY DEF MaxTypes, WdtRemaining, open, close
<1> USE DEF open, close
<1>b. w.enable \in BOOLEAN /\ w.lock \in BOOLEAN
  BY <1>1, <1>s, <1>d, <1>f, <1>g
<1>3. MaxTypes'
  <2>1. writes' \in WdtRemaining
    BY <1>s, <1>d, <1>f, <1>g DEF MaxTypes, WdtRemaining
  <2>2. wdtOn' \in BOOLEAN /\ wdtLock' \in BOOLEAN /\ err' \in BOOLEAN
    BY <1>2, <1>b DEF MaxTypes
  <2>3. pc' \in {"idle", "wdt"}
    BY <1>2
  <2>4. QED
    BY <1>2, <2>1, <2>2, <2>3 DEF MaxTypes, Routines, confVars, measureVars, valueVars
<1>4. CallInv'  BY <1>2 DEF CallInv, Configuring, Measuring
<1>5. ConfigInv'  BY <1>2 DEF CallInv, ConfigInv, Returned
<1>6. WdtInv'
  <2>1. SUFFICES ASSUME call = "wdt", ~err' PROVE WdtInv'
    BY <1>2 DEF CallInv, WdtInv, WatchdogFollows, Returned
  <2>2. /\ ~err /\ wdtOn' = (w.enable \/ (wdtOn /\ wdtLock)) /\ wdtLock' = w.lock
        /\ UNCHANGED <<wdtConf, call>>
    BY <1>2, <2>1 DEF MaxTypes, confVars
  <2>3. CASE wdtConf /\ writes = <<W(TRUE, TRUE)>>
    <3>1. w = W(TRUE, TRUE) /\ pc' = "idle"
      BY <1>s, <2>3
    <3>2. QED  BY <1>1, <2>2, <2>3, <3>1 DEF WdtInv, WatchdogFollows, Returned
  <2>4. CASE ~wdtConf /\ writes = <<W(FALSE, FALSE), W(FALSE, FALSE), W(FALSE, TRUE)>>
    <3>1. /\ w = W(FALSE, FALSE) /\ pc' = "wdt"
          /\ writes' = <<W(FALSE, FALSE), W(FALSE, TRUE)>>
      BY <1>f, <2>4
    <3>2. QED  BY <1>1, <2>2, <2>4, <3>1 DEF WdtInv, WatchdogFollows, Returned
  <2>5. CASE ~wdtConf /\ writes = <<W(FALSE, FALSE), W(FALSE, TRUE)>> /\ ~wdtLock
    <3>1. w = W(FALSE, FALSE) /\ pc' = "wdt" /\ writes' = <<W(FALSE, TRUE)>>
      BY <1>d, <2>5
    <3>2. ~wdtOn' /\ ~wdtLock'
      BY <1>1, <2>2, <2>5, <3>1
    <3>3. QED  BY <2>2, <2>5, <3>1, <3>2 DEF WdtInv, WatchdogFollows, Returned
  <2>6. CASE ~wdtConf /\ writes = <<W(FALSE, TRUE)>> /\ ~wdtLock /\ ~wdtOn
    <3>1. w = W(FALSE, TRUE) /\ pc' = "idle"
      BY <1>s, <2>6
    <3>2. ~wdtOn' /\ wdtLock'
      BY <1>1, <2>2, <2>6, <3>1
    <3>3. QED  BY <2>2, <2>6, <3>1, <3>2 DEF MaxTypes, WdtInv, WatchdogFollows, Returned
  <2>7. QED  BY <1>2, <2>1, <2>2, <2>3, <2>4, <2>5, <2>6 DEF WdtInv
<1>7. MuxInv'  BY <1>2 DEF MuxInv, Measuring, measureVars
<1>8. ValueInv'  BY <1>2 DEF ValueInv
<1>9. QED  BY <1>3, <1>4, <1>5, <1>6, <1>7, <1>8

LEMMA MeasureStep ==
    ASSUME MaxInv, Measure
    PROVE  MaxInv'
<1> USE DEF MaxInv, Measure, Begin
<1>1. MaxTypes'
  BY DEF MaxTypes, Routines, Measuring, confVars, chipVars
<1>2. CallInv'  BY DEF CallInv, Configuring, Measuring
<1>3. ConfigInv'  BY DEF ConfigInv, Returned
<1>4. WdtInv'  BY DEF WdtInv, WatchdogFollows, Returned
<1>5. MuxInv'  BY DEF MuxInv, Measuring
<1>6. ValueInv'  BY DEF ValueInv
<1>7. QED  BY <1>1, <1>2, <1>3, <1>4, <1>5, <1>6

LEMMA SelectStep ==
    ASSUME MaxInv, Select
    PROVE  MaxInv'
<1> USE DEF MaxInv, Select, Write
<1>1. MaxTypes'
  BY DEF MaxTypes, Measuring, confVars, chipVars, valueVars
<1>2. CallInv'  BY DEF CallInv, Configuring, Measuring
<1>3. ConfigInv'  BY DEF ConfigInv, Returned
<1>4. WdtInv'  BY DEF WdtInv, WatchdogFollows, Returned
<1>5. MuxInv'  BY DEF MuxInv, Measuring
<1>6. ValueInv'  BY DEF ValueInv
<1>7. QED  BY <1>1, <1>2, <1>3, <1>4, <1>5, <1>6

LEMMA ConvertStep ==
    ASSUME MaxInv, Convert
    PROVE  MaxInv'
<1> USE DEF MaxInv
<1>1. PICK r \in Readings :
        \/ /\ pc = "adc" /\ channel = "battery"
           /\ reading' = r /\ result' = BatteryMv(r)
           /\ pc' = "off" /\ null' = null
        \/ /\ pc = "adc" /\ channel = "current"
           /\ null' = r /\ pc' = "mux2" /\ UNCHANGED <<reading, result>>
        \/ /\ pc = "adc2"
           /\ reading' = r /\ result' = Discharge(r, null)
           /\ pc' = "off" /\ null' = null
  BY DEF Convert
<1>2. UNCHANGED <<confVars, chipVars, mux, channel, muxStuck, call, idx, writes, err>>
  BY DEF Convert
<1>3. r \in Reading
  BY MaxAssumption DEF Reading
<1>4. MaxTypes'
  BY <1>1, <1>2, <1>3 DEF MaxTypes, Measuring, confVars, chipVars
<1>5. CallInv'
  BY <1>1, <1>2 DEF CallInv, Configuring, Measuring
<1>6. ConfigInv'  BY <1>1, <1>2 DEF ConfigInv, Returned
<1>7. WdtInv'  BY <1>1, <1>2 DEF WdtInv, WatchdogFollows, Returned
<1>8. MuxInv'  BY <1>1, <1>2 DEF MuxInv, Measuring
<1>9. ValueInv'
  <2>1. CASE pc = "adc2"
    <3>1. null \in Reading
      BY DEF MaxTypes
    <3>2. Percentage(Discharge(r, null), r, null)
      BY <1>3, <3>1, DischargeLemma
    <3>3. reading' = r /\ result' = Discharge(r, null) /\ null' = null
      BY <1>1, <2>1
    <3>4. Percentage(result', reading', null')
      BY <3>2, <3>3, Zenon
    <3>5. QED  BY <3>4, Zenon DEF ValueInv
  <2>2. CASE pc = "adc"
    BY <1>1, <1>2, <2>2 DEF ValueInv
  <2>3. QED  BY <1>1, <2>1, <2>2
<1>10. QED  BY <1>4, <1>5, <1>6, <1>7, <1>8, <1>9

LEMMA ConvertFailsStep ==
    ASSUME MaxInv, ConvertFails
    PROVE  MaxInv'
<1> USE DEF MaxInv, ConvertFails
<1>1. MaxTypes'
  BY DEF MaxTypes, Measuring, confVars, chipVars, measureVars, valueVars
<1>2. CallInv'  BY DEF CallInv, Configuring, Measuring
<1>3. ConfigInv'  BY DEF ConfigInv, Returned
<1>4. WdtInv'  BY DEF WdtInv, WatchdogFollows, Returned
<1>5. MuxInv'  BY DEF MuxInv, Measuring
<1>6. ValueInv'  BY DEF ValueInv
<1>7. QED  BY <1>1, <1>2, <1>3, <1>4, <1>5, <1>6

LEMMA SwitchOffStep ==
    ASSUME MaxInv, SwitchOff
    PROVE  MaxInv'
<1> USE DEF MaxInv, SwitchOff, Write
<1>1. MaxTypes'
  BY ZeroReading DEF MaxTypes, confVars, chipVars
<1>2. CallInv'  BY DEF CallInv, Configuring, Measuring
<1>3. ConfigInv'  BY DEF CallInv, Measuring, ConfigInv, Returned
<1>4. WdtInv'  BY DEF CallInv, Measuring, WdtInv, WatchdogFollows, Returned
<1>5. MuxInv'  BY DEF MuxInv, Measuring
<1>6. ValueInv'  BY DEF ValueInv
<1>7. QED  BY <1>1, <1>2, <1>3, <1>4, <1>5, <1>6

LEMMA MaxStutter == MaxInv /\ UNCHANGED vars => MaxInv'
<1> SUFFICES ASSUME MaxInv, UNCHANGED vars PROVE MaxInv'
  OBVIOUS
<1> USE DEF MaxInv, vars, confVars, chipVars, measureVars, valueVars
<1>1. MaxTypes'  BY DEF MaxTypes
<1>2. CallInv'  BY DEF CallInv
<1>3. ConfigInv'  BY AppliedKept DEF ConfigInv, Returned
<1>4. WdtInv'  BY DEF WdtInv, WatchdogFollows, Returned
<1>5. MuxInv'  BY DEF MuxInv
<1>6. ValueInv'
  <2>1. Percentage(result, reading, null)' = Percentage(result, reading, null)
    BY DEF Percentage
  <2>2. QED  BY <2>1 DEF ValueInv
<1>7. QED  BY <1>1, <1>2, <1>3, <1>4, <1>5, <1>6

LEMMA MaxStep == MaxInv /\ [Next]_vars => MaxInv'
BY MaxStutter, ConfigStep, ConfigTopStep, ConfigRefusedStep, ConfigVoltageStep,
   ConfigEnableStep, ConfigRestStep, ResetStep, ConfigWdtStep, ClearWdtStep,
   WriteWdtStep, MeasureStep, SelectStep, ConvertStep, ConvertFailsStep,
   SwitchOffStep DEF Next

-----------------------------------------------------------------------------
(* The theorems.                                                           *)

\* The inductive invariant of the driver's routines, transaction by
\* transaction.
THEOREM MaxInvariance == Spec => []MaxInv
<1>1. Init => MaxInv
  BY MaxInitInv
<1>2. MaxInv /\ [Next]_vars => MaxInv'
  BY MaxStep
<1>3. QED  BY <1>1, <1>2, PTL DEF Spec

\* When max77654_config returns success the chip supplies what was configured,
\* whatever failed before.
THEOREM MaxConfigApplied == Spec => []ConfigApplied
<1>1. MaxInv => ConfigApplied
  BY DEF MaxInv, ConfigInv, ConfigApplied, Applied, VoltageOf
<1>2. QED  BY <1>1, MaxInvariance, PTL

\* max77654_config_wdt leaves the watchdog as asked, whatever failed before.
THEOREM MaxWatchdogFollows == Spec => []WatchdogFollows
<1>1. MaxInv => WatchdogFollows
  BY DEF MaxInv, WdtInv
<1>2. QED  BY <1>1, MaxInvariance, PTL

\* Every path through max77654_measure tries to return the multiplexer.
THEOREM MaxMuxReturned == Spec => []MuxReturned
<1>1. MaxInv => MuxReturned
  BY DEF MaxInv, MuxInv, MuxReturned, Measuring
<1>2. QED  BY <1>1, MaxInvariance, PTL

\* The discharge current is a percentage rounded down for every two readings,
\* but for noise within a millivolt.
THEOREM MaxDischargePercent == Spec => []DischargePercent
<1>1. MaxInv => DischargePercent
  <2> SUFFICES ASSUME MaxInv, pc = "off" /\ channel = "current" /\ ~err
               PROVE  DischargePercent
    BY DEF DischargePercent
  <2>1. Percentage(result, reading, null)
    BY DEF MaxInv, ValueInv
  <2>2. QED  BY <2>1 DEF Percentage, DischargePercent
<1>2. QED  BY <1>1, MaxInvariance, PTL

\* No regulator is switched on at a voltage that an earlier configuration left,
\* unless the write of the new one failed.
THEOREM MaxEnabledAtVoltage == Spec => EnabledAtVoltage
<1>1. MaxInv /\ [Next]_vars
        => [\A r \in on' \ on : NeedsVoltage(r) =>
                Supplies(r, volt'[r]) = conf[r].mV \/ err]_vars
  <2> SUFFICES ASSUME MaxInv, Next, NEW r \in on' \ on, NeedsVoltage(r), ~err
               PROVE  Supplies(r, volt'[r]) = conf[r].mV
    OBVIOUS
  <2>1. CASE ConfigEnable
    <3>1. volt' = volt /\ pc = "enable" /\ on' \in {on, Enabled(on, idx)}
      BY <2>1 DEF ConfigEnable, Write
    <3>2. r = idx
      BY <3>1 DEF Enabled
    <3>3. QED  BY <3>1, <3>2 DEF MaxInv, ConfigInv, VoltageOf
  <2>2. CASE ~ConfigEnable
    <3>1. on' \in {on, {}}
      BY <2>2 DEF Next, Config, ConfigTop, ConfigRefused, ConfigVoltage, ConfigRest,
         Reset, ConfigWdt, ClearWdt, WriteWdt, Measure, Select, Convert,
         ConvertFails, SwitchOff, chipVars
    <3>2. QED  BY <3>1
  <2>3. QED  BY <2>1, <2>2
<1>2. QED  BY <1>1, MaxInvariance, PTL DEF Spec, EnabledAtVoltage
=============================================================================
