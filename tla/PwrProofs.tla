------------------------------ MODULE PwrProofs ------------------------------
(***************************************************************************)
(* Proofs about the power subsystem: the invariant IInv is inductive, for  *)
(* any number of clients, rails, samples, lock attempts and bus faults.    *)
(***************************************************************************)
EXTENDS Pwr, TLAPS

\* Thread t executes pwr_kill, past its attempts to lock the mutex.
Killing(t) ==
    \/ pc[t] \in {"k_conf", "k_reboot"}
    \/ pc[t] \in ConfigLabels /\ job[t] = "kill"

\* Thread t executes pwr_init or pwr_start.
Booting(t) ==
    \/ pc[t] \in BootLabels
    \/ pc[t] \in ConfigLabels \cup MeasureLabels /\ job[t] \in {"init", "start"}
    \/ pc[t] = "g_pin" /\ job[t] = "start"

\* Thread t is at a place the code reaches only with the mutex.
Holding(t) ==
    \/ pc[t] \in {"i_reset", "i_cid", "i_thread", "i_done", "i_unlock",
                 "a_unlock"}
    \/ pc[t] \in MeasureLabels \cup (ThreadLabels \ {"t_unlock"})
    \/ pc[t] \in ConfigLabels /\ job[t] = "init"
    \/ pc[t] = "k_lock" /\ t = PwrThread
    \/ Killing(t) /\ t \notin forced

\* Which threads can be where, and what their loop counters are there.
Control(t) ==
    /\ Booting(t) => t = Main /\ ~running
    /\ t = Main => pc[t] # "off"
    /\ t # Main => (running <=> pc[t] # "off")
    /\ pc[t] \in ThreadLabels \cup {"t_lock", "t_sleep"} => t = PwrThread
    /\ pc[t] \in {"idle", "a_unlock", "g_pin"} => t # PwrThread
    /\ pc[t] \in ConfigLabels => job[t] \in {"init", "start", "kill"}
    /\ pc[t] \in MeasureLabels =>
          IF t = PwrThread THEN job[t] = "thread"
                           ELSE job[t] \in {"client", "init"}
    /\ pc[t] = "c_rail" => idx[t] \in Rails
    /\ pc[t] \in MeasureLabels => idx[t] \in 1..Samples
    /\ pc[t] = "k_lock" => idx[t] \in 1..LockTries
    /\ pc[t] \notin MeasureLabels \cup {"c_rail", "k_lock"} => idx[t] = 1

ControlInv == \A t \in Threads : Control(t)

\* Who holds the mutex, and how often.
LockInv ==
    /\ owner = NoThread <=> depth = 0
    /\ \A t \in Threads :
          /\ Holding(t) => owner = t
          /\ owner = t => /\ Holding(t) \/ pc[t] = "t_unlock"
                          /\ depth = IF t = PwrThread /\ Killing(t)
                                     THEN 2 ELSE 1
          /\ t \in forced => Killing(t) /\ owner # t

\* Thread t has called max77654_config from pwr_kill.
Applying(t) ==
    \/ pc[t] = "k_reboot"
    \/ pc[t] \in ConfigLabels /\ job[t] = "kill"

\* How far the shutdown got.
ShutdownInv ==
    \A t \in Threads : Applying(t) =>
        /\ ~confBias
        /\ confRail = {}
        /\ pc[t] = "c_rail" => rail \subseteq idx[t]..NumRails
        /\ pc[t] \in {"c_int", "k_reboot"} => rail = {}
        /\ pc[t] = "c_global" => ~local[t]
        /\ pc[t] \in {"c_charger", "c_rail", "c_int", "k_reboot"} /\ forced = {}
              => ~bias

\* What is measured and what is summed.
BatteryInv ==
    /\ battery \subseteq {"batt"} /\ acc \subseteq {"batt"}
    /\ \A t \in Threads : pc[t] = "m_adc" => mux \in {Channel(t), "off"}

IInv == TypeOK /\ ControlInv /\ LockInv /\ ShutdownInv /\ BatteryInv

-----------------------------------------------------------------------------
(* Every step preserves each conjunct.                                     *)

\* What a setting of GAP9's supply does: only one that succeeds on an output
\* leaves the pin one, at the level asked for.
LEMMA SetGap9Lemma ==
  ASSUME TypeOK, MaxFaults \in Nat,
         NEW on \in BOOLEAN, NEW ok \in BOOLEAN, SetGap9(on, ok)
  PROVE  /\ gap9Pin' \in BOOLEAN
         /\ gap9Port' \in {"input", "output", "stuck"}
         /\ faults' \in 0..MaxFaults
         /\ gap9Port' = "output" => gap9Pin' = on
PROOF
  <1>1. gap9Pin' \in BOOLEAN
    BY Zenon DEF SetGap9, TypeOK
  <1>2. gap9Port' \in {"input", "output", "stuck"}
    BY Zenon DEF SetGap9
  <1>3. faults' \in 0..MaxFaults
    BY SMT DEF SetGap9, Bus, TypeOK
  <1>4. ASSUME gap9Port' = "output" PROVE gap9Pin' = on
    <2>1. ok /\ gap9Port # "input"
      BY <1>4 DEF SetGap9
    <2>2. QED
      BY <2>1, Zenon DEF SetGap9
  <1>5. QED
    BY <1>1, <1>2, <1>3, <1>4

\* Every step preserves the types.
LEMMA TypeStep ==
  ASSUME IInv, [Next]_vars
  PROVE  TypeOK'
PROOF
  <1> USE PwrAssumption DEF IInv, TypeOK, Threads, Rails, Jobs, Channels,
                            Labels,
             BootLabels, ConfigLabels, MeasureLabels, ThreadLabels, KillLabels,
             lockVars, confVars, chipVars,
             battVars, gap9Vars, lifeVars
  <1>1. CASE Boot
    <2>1. CASE InitUnready
      BY <2>1, SMTT(30) DEF InitUnready, Goto, Bus
    <2>2. CASE InitLock
      BY <2>2, SMTT(30) DEF InitLock, Goto, CanLock, Lock, LockInv, Holding,
         Killing
    <2>3. CASE InitReset
      <3>1. bias' \in BOOLEAN /\ nen' \in BOOLEAN /\ rail' \subseteq Rails
        BY <2>3, Zenon DEF InitReset, TypeOK
      <3>2. presses' \subseteq {"latched", "taken"}
        BY <2>3, Zenon DEF InitReset, TypeOK
      <3>3. QED
        BY <2>3, <3>1, <3>2, SMTT(30) DEF InitReset, Goto, Bus
    <2>4. CASE InitCheck
      BY <2>4, SMTT(30) DEF InitCheck, Goto, Bus, CallConfig
    <2>5. CASE InitThread
      BY <2>5, SMTT(30) DEF InitThread, Goto, Bus, CallMeasure
    <2>6. CASE InitDone
      BY <2>6, SMTT(30) DEF InitDone, Goto
    <2>7. CASE InitUnlock
      BY <2>7, SMTT(30) DEF InitUnlock, Goto, Unlock, LockInv, Holding,
         Killing
    <2>8. CASE StartLed
      BY <2>8, SMTT(30) DEF StartLed, Goto, Bus
    <2>9. CASE StartConfig
      <3>1. confRail' \subseteq Rails
        BY <2>9, Zenon DEF StartConfig, TypeOK
      <3>2. QED
        BY <2>9, <3>1, SMTT(30) DEF StartConfig, Goto, CallConfig
    <2>10. CASE StartGpio
      BY <2>10, SMTT(30) DEF StartGpio, Goto, Bus
    <2>11. CASE StartGap9
      BY <2>11, SMTT(30) DEF StartGap9, Goto
    <2>12. CASE StartThread
      BY <2>12, SMTT(30) DEF StartThread
    <2>13. QED
      BY <1>1, <2>1, <2>2, <2>3, <2>4, <2>5, <2>6, <2>7, <2>8, <2>9, <2>10,
         <2>11, <2>12
         DEF Boot
  <1>2. CASE PowerThread
    <2>1. CASE ThreadLock
      BY <2>1, SMTT(30) DEF ThreadLock, Goto, CanLock, Lock, LockInv, Holding,
         Killing
    <2>2. CASE ThreadTimeout
      BY <2>2, SMTT(30) DEF ThreadTimeout, Goto, CanLock
    <2>3. CASE ReadFlags
      <3>1. nen' \in BOOLEAN
        BY <2>3, Zenon DEF ReadFlags, TypeOK
      <3>2. presses' \subseteq {"latched", "taken"}
        BY <2>3, Zenon DEF ReadFlags, TypeOK
      <3>3. QED
        BY <2>3, <3>1, <3>2, SMTT(30) DEF ReadFlags, Goto, Bus, CallMeasure
    <2>4. CASE ReadFlags2
      BY <2>4, SMTT(30) DEF ReadFlags2, Goto, Bus, CallMeasure
    <2>5. CASE HandleInterrupts
      <3>1. PICK ok \in BOOLEAN :
              SetGap9(FALSE, ok) \/ UNCHANGED <<gap9Pin, gap9Port, faults>>
        BY <2>5 DEF HandleInterrupts
      <3>2. /\ gap9Pin' \in BOOLEAN /\ faults' \in 0..MaxFaults
            /\ gap9Port' \in {"input", "output", "stuck"}
        BY <3>1, SetGap9Lemma
      <3>3. /\ pc' = [pc EXCEPT ![PwrThread] = "t_reset"]
               \/ pc' = [pc EXCEPT ![PwrThread] = "t_button"]
            /\ presses' \subseteq presses
            /\ UNCHANGED <<lockVars, job, idx, local, confVars, chipVars, flag,
                           battVars, gap9State, lifeVars>>
        BY <2>5, Zenon DEF HandleInterrupts, Goto
      <3>4. QED
        BY <3>2, <3>3, SMTT(30)
    <2>6. CASE ResetEnd
      <3>1. /\ gap9Pin' \in BOOLEAN /\ faults' \in 0..MaxFaults
            /\ gap9Port' \in {"input", "output", "stuck"}
        BY <2>6, SetGap9Lemma DEF ResetEnd
      <3>2. QED
        BY <2>6, <3>1, SMTT(30) DEF ResetEnd, Goto
    <2>7. CASE CheckButton
      BY <2>7, SMTT(30) DEF CheckButton, Goto
    <2>8. CASE CheckReconfig
      BY <2>8, SMTT(30) DEF CheckReconfig, Goto
    <2>9. CASE ReapplyCharger
      BY <2>9, SMTT(30) DEF ReapplyCharger, Goto, Bus
    <2>10. CASE ReapplyGlobal
      BY <2>10, SMTT(30) DEF ReapplyGlobal, Goto, WriteBias, Bus
    <2>11. CASE ThreadUnlock
      BY <2>11, SMTT(30) DEF ThreadUnlock, Goto, Unlock, LockInv, Holding,
         Killing
    <2>12. CASE ThreadWake
      BY <2>12, SMTT(30) DEF ThreadWake, Goto
    <2>13. QED
      BY <1>2, <2>1, <2>2, <2>3, <2>4, <2>5, <2>6, <2>7, <2>8, <2>9, <2>10,
         <2>11, <2>12 DEF PowerThread
  <1>3. ASSUME NEW c \in Clients, Client(c) PROVE TypeOK'
    <2>1. CASE MeasureLock(c)
      BY <2>1, SMTT(30) DEF MeasureLock, Goto, CanLock, Lock, CallMeasure,
         LockInv, Holding, Killing
    <2>2. CASE MeasureUnlock(c)
      BY <2>2, SMTT(30) DEF MeasureUnlock, Goto, Unlock, LockInv, Holding,
         Killing
    <2>3. CASE Gap9Set(c)
      BY <2>3, SMTT(30) DEF Gap9Set, Goto
    <2>4. CASE Gap9SetPin(c)
      BY <2>4, SMTT(30) DEF Gap9SetPin, Goto, SetGap9, Bus
    <2>5. CASE CallKill(c)
      BY <2>5, SMTT(30) DEF CallKill, Goto
    <2>6. QED
      BY <1>3, <2>1, <2>2, <2>3, <2>4, <2>5 DEF Client
  <1>4. ASSUME NEW t \in Threads, Config(t) PROVE TypeOK'
    <2>1. CASE ConfigBias(t)
      BY <2>1, SMTT(30) DEF ConfigBias, Goto
    <2>2. CASE ConfigGlobal(t)
      BY <2>2, SMTT(30) DEF ConfigGlobal, Goto, WriteBias, Bus, ConfigReturn
    <2>3. CASE ConfigCharger(t)
      BY <2>3, SMTT(30) DEF ConfigCharger, Goto, Bus, ConfigReturn
    <2>4. CASE ConfigRail(t)
      BY <2>4, SMTT(30) DEF ConfigRail, Goto, Bus, ConfigReturn, ControlInv,
         Control
    <2>5. CASE ConfigInt(t)
      BY <2>5, SMTT(30) DEF ConfigInt, Goto, Bus, ConfigReturn
    <2>6. QED
      BY <1>4, <2>1, <2>2, <2>3, <2>4, <2>5 DEF Config
  <1>5. ASSUME NEW t \in Threads, Measure(t) PROVE TypeOK'
    <2>1. CASE MeasureMux(t)
      BY <2>1, SMTT(30) DEF MeasureMux, Goto, Bus, Channel
    <2>2. CASE MeasureAdc(t)
      BY <2>2, SMTT(30) DEF MeasureAdc, Goto, Bus, ChecksBattery
    <2>3. CASE MeasureOff(t)
      BY <2>3, SMTT(30) DEF MeasureOff, Goto, Bus, ChecksBattery,
         MeasureReturn
    <2>4. CASE MeasureAbort(t)
      BY <2>4, SMTT(30) DEF MeasureAbort, Goto, Bus, ChecksBattery,
         MeasureReturn
    <2>5. QED
      BY <1>5, <2>1, <2>2, <2>3, <2>4 DEF Measure
  <1>6. ASSUME NEW t \in Threads, Kill(t) PROVE TypeOK'
    <2>1. CASE KillLock(t)
      BY <2>1, SMTT(30) DEF KillLock, Goto, CanLock, Lock, LockInv, Holding,
         Killing
    <2>2. CASE KillTimeout(t)
      BY <2>2, SMTT(30) DEF KillTimeout, Goto, CanLock
    <2>3. CASE KillConf(t)
      <3>1. confBias' \in BOOLEAN
        BY <2>3, Zenon DEF KillConf, TypeOK
      <3>2. QED
        BY <2>3, <3>1, SMTT(30) DEF KillConf, Goto, CallConfig
    <2>4. CASE Reboot(t)
      <3>1. /\ confBias' \in BOOLEAN /\ flag' \in BOOLEAN
            /\ gap9State' \in BOOLEAN /\ gap9Pin' \in BOOLEAN
            /\ initialised' \in BOOLEAN /\ running' \in BOOLEAN
        BY <2>4, Zenon DEF Reboot, TypeOK
      <3>2. local' \in [Threads -> BOOLEAN]
        BY <2>4, Zenon DEF Reboot
      <3>3. QED
        BY <2>4, <3>1, <3>2, SMTT(30) DEF Reboot
    <2>5. QED
      BY <1>6, <2>1, <2>2, <2>3, <2>4 DEF Kill
  <1>7. CASE PressButton
    BY <1>7, SMTT(30) DEF PressButton
  <1>8. CASE UNCHANGED vars
    BY <1>8, SMTT(30) DEF vars
  <1>9. QED
    BY <1>1, <1>2, <1>3, <1>4, <1>5, <1>6, <1>7, <1>8 DEF Next, Step

\* Every step preserves the control flow.
LEMMA ControlStep ==
  ASSUME IInv, [Next]_vars
  PROVE  ControlInv'
PROOF
  <1> USE PwrAssumption DEF IInv, TypeOK, ControlInv, Control, LockInv,
             Holding, Killing, Booting, BootLabels, ConfigLabels,
             MeasureLabels, ThreadLabels, KillLabels,
             Threads, Rails, lockVars, confVars, chipVars,
             battVars, gap9Vars, lifeVars
  <1>1. CASE Boot
    <2>1. CASE InitUnready
      BY <2>1, SMTT(30) DEF InitUnready, Goto, Bus
    <2>2. CASE InitLock
      BY <2>2, SMTT(30) DEF InitLock, Goto, CanLock, Lock
    <2>3. CASE InitReset
      BY <2>3, SMTT(30) DEF InitReset, Goto, Bus
    <2>4. CASE InitCheck
      BY <2>4, SMTT(30) DEF InitCheck, Goto, Bus, CallConfig
    <2>5. CASE InitThread
      BY <2>5, SMTT(30) DEF InitThread, Goto, Bus, CallMeasure
    <2>6. CASE InitDone
      BY <2>6, SMTT(30) DEF InitDone, Goto
    <2>7. CASE InitUnlock
      BY <2>7, SMTT(30) DEF InitUnlock, Goto, Unlock
    <2>8. CASE StartLed
      BY <2>8, SMTT(30) DEF StartLed, Goto, Bus
    <2>9. CASE StartConfig
      BY <2>9, SMTT(30) DEF StartConfig, Goto, CallConfig
    <2>10. CASE StartGpio
      BY <2>10, SMTT(30) DEF StartGpio, Goto, Bus
    <2>11. CASE StartGap9
      BY <2>11, SMTT(30) DEF StartGap9, Goto
    <2>12. CASE StartThread
      BY <2>12, SMTT(30) DEF StartThread
    <2>13. QED
      BY <1>1, <2>1, <2>2, <2>3, <2>4, <2>5, <2>6, <2>7, <2>8, <2>9, <2>10,
         <2>11, <2>12
         DEF Boot
  <1>2. CASE PowerThread
    <2>1. CASE ThreadLock
      BY <2>1, SMTT(30) DEF ThreadLock, Goto, CanLock, Lock
    <2>2. CASE ThreadTimeout
      BY <2>2, SMTT(30) DEF ThreadTimeout, Goto, CanLock
    <2>3. CASE ReadFlags
      BY <2>3, SMTT(30) DEF ReadFlags, Goto, Bus, CallMeasure
    <2>4. CASE ReadFlags2
      BY <2>4, SMTT(30) DEF ReadFlags2, Goto, Bus, CallMeasure
    <2>5. CASE HandleInterrupts
      BY <2>5, SMTT(30) DEF HandleInterrupts, Goto, SetGap9, Bus
    <2>6. CASE ResetEnd
      BY <2>6, SMTT(30) DEF ResetEnd, Goto, SetGap9, Bus
    <2>7. CASE CheckButton
      BY <2>7, SMTT(30) DEF CheckButton, Goto
    <2>8. CASE CheckReconfig
      BY <2>8, SMTT(30) DEF CheckReconfig, Goto
    <2>9. CASE ReapplyCharger
      BY <2>9, SMTT(30) DEF ReapplyCharger, Goto, Bus
    <2>10. CASE ReapplyGlobal
      BY <2>10, SMTT(30) DEF ReapplyGlobal, Goto, WriteBias, Bus
    <2>11. CASE ThreadUnlock
      BY <2>11, SMTT(30) DEF ThreadUnlock, Goto, Unlock
    <2>12. CASE ThreadWake
      BY <2>12, SMTT(30) DEF ThreadWake, Goto
    <2>13. QED
      BY <1>2, <2>1, <2>2, <2>3, <2>4, <2>5, <2>6, <2>7, <2>8, <2>9, <2>10,
         <2>11, <2>12 DEF PowerThread
  <1>3. ASSUME NEW c \in Clients, Client(c) PROVE ControlInv'
    <2>1. CASE MeasureLock(c)
      BY <2>1, SMTT(30) DEF MeasureLock, Goto, CanLock, Lock, CallMeasure
    <2>2. CASE MeasureUnlock(c)
      BY <2>2, SMTT(30) DEF MeasureUnlock, Goto, Unlock
    <2>3. CASE Gap9Set(c)
      BY <2>3, SMTT(30) DEF Gap9Set, Goto
    <2>4. CASE Gap9SetPin(c)
      BY <2>4, SMTT(30) DEF Gap9SetPin, Goto, SetGap9, Bus
    <2>5. CASE CallKill(c)
      BY <2>5, SMTT(30) DEF CallKill, Goto
    <2>6. QED
      BY <1>3, <2>1, <2>2, <2>3, <2>4, <2>5 DEF Client
  <1>4. ASSUME NEW t \in Threads, Config(t) PROVE ControlInv'
    <2>1. CASE ConfigBias(t)
      BY <2>1, SMTT(30) DEF ConfigBias, Goto
    <2>2. CASE ConfigGlobal(t)
      BY <2>2, SMTT(30) DEF ConfigGlobal, Goto, WriteBias, Bus, ConfigReturn
    <2>3. CASE ConfigCharger(t)
      BY <2>3, SMTT(30) DEF ConfigCharger, Goto, Bus, ConfigReturn
    <2>4. CASE ConfigRail(t)
      BY <2>4, SMTT(30) DEF ConfigRail, Goto, Bus, ConfigReturn
    <2>5. CASE ConfigInt(t)
      BY <2>5, SMTT(30) DEF ConfigInt, Goto, Bus, ConfigReturn
    <2>6. QED
      BY <1>4, <2>1, <2>2, <2>3, <2>4, <2>5 DEF Config
  <1>5. ASSUME NEW t \in Threads, Measure(t) PROVE ControlInv'
    <2>1. CASE MeasureMux(t)
      BY <2>1, SMTT(30) DEF MeasureMux, Goto, Bus, Channel
    <2>2. CASE MeasureAdc(t)
      BY <2>2, SMTT(30) DEF MeasureAdc, Goto, Bus, ChecksBattery
    <2>3. CASE MeasureOff(t)
      BY <2>3, SMTT(30) DEF MeasureOff, Goto, Bus, ChecksBattery,
         MeasureReturn
    <2>4. CASE MeasureAbort(t)
      BY <2>4, SMTT(30) DEF MeasureAbort, Goto, Bus, ChecksBattery,
         MeasureReturn
    <2>5. QED
      BY <1>5, <2>1, <2>2, <2>3, <2>4 DEF Measure
  <1>6. ASSUME NEW t \in Threads, Kill(t) PROVE ControlInv'
    <2>1. CASE KillLock(t)
      BY <2>1, SMTT(30) DEF KillLock, Goto, CanLock, Lock
    <2>2. CASE KillTimeout(t)
      BY <2>2, SMTT(30) DEF KillTimeout, Goto, CanLock
    <2>3. CASE KillConf(t)
      BY <2>3, SMTT(30) DEF KillConf, Goto, CallConfig
    <2>4. CASE Reboot(t)
      BY <2>4, SMTT(30) DEF Reboot
    <2>5. QED
      BY <1>6, <2>1, <2>2, <2>3, <2>4 DEF Kill
  <1>7. CASE PressButton
    BY <1>7, SMTT(30) DEF PressButton
  <1>8. CASE UNCHANGED vars
    BY <1>8, SMTT(30) DEF vars
  <1>9. QED
    BY <1>1, <1>2, <1>3, <1>4, <1>5, <1>6, <1>7, <1>8 DEF Next, Step

\* Every step preserves the discipline of the mutex.
LEMMA LockStep ==
  ASSUME IInv, [Next]_vars
  PROVE  LockInv'
PROOF
  <1> USE PwrAssumption DEF IInv, TypeOK, ControlInv, Control, LockInv,
             Holding, Killing, Booting, BootLabels, ConfigLabels,
             MeasureLabels, ThreadLabels, KillLabels,
             Threads, Rails, lockVars, confVars, chipVars,
             battVars, gap9Vars, lifeVars
  <1>1. CASE Boot
    <2>1. CASE InitUnready
      BY <2>1, SMTT(30) DEF InitUnready, Goto, Bus
    <2>2. CASE InitLock
      BY <2>2, SMTT(30) DEF InitLock, Goto, CanLock, Lock
    <2>3. CASE InitReset
      BY <2>3, SMTT(30) DEF InitReset, Goto, Bus
    <2>4. CASE InitCheck
      BY <2>4, SMTT(30) DEF InitCheck, Goto, Bus, CallConfig
    <2>5. CASE InitThread
      BY <2>5, SMTT(30) DEF InitThread, Goto, Bus, CallMeasure
    <2>6. CASE InitDone
      BY <2>6, SMTT(30) DEF InitDone, Goto
    <2>7. CASE InitUnlock
      BY <2>7, SMTT(30) DEF InitUnlock, Goto, Unlock
    <2>8. CASE StartLed
      BY <2>8, SMTT(30) DEF StartLed, Goto, Bus
    <2>9. CASE StartConfig
      BY <2>9, SMTT(30) DEF StartConfig, Goto, CallConfig
    <2>10. CASE StartGpio
      BY <2>10, SMTT(30) DEF StartGpio, Goto, Bus
    <2>11. CASE StartGap9
      BY <2>11, SMTT(30) DEF StartGap9, Goto
    <2>12. CASE StartThread
      BY <2>12, SMTT(30) DEF StartThread
    <2>13. QED
      BY <1>1, <2>1, <2>2, <2>3, <2>4, <2>5, <2>6, <2>7, <2>8, <2>9, <2>10,
         <2>11, <2>12
         DEF Boot
  <1>2. CASE PowerThread
    <2>1. CASE ThreadLock
      BY <2>1, SMTT(30) DEF ThreadLock, Goto, CanLock, Lock
    <2>2. CASE ThreadTimeout
      BY <2>2, SMTT(30) DEF ThreadTimeout, Goto, CanLock
    <2>3. CASE ReadFlags
      BY <2>3, SMTT(30) DEF ReadFlags, Goto, Bus, CallMeasure
    <2>4. CASE ReadFlags2
      BY <2>4, SMTT(30) DEF ReadFlags2, Goto, Bus, CallMeasure
    <2>5. CASE HandleInterrupts
      BY <2>5, SMTT(30) DEF HandleInterrupts, Goto, SetGap9, Bus
    <2>6. CASE ResetEnd
      BY <2>6, SMTT(30) DEF ResetEnd, Goto, SetGap9, Bus
    <2>7. CASE CheckButton
      BY <2>7, SMTT(30) DEF CheckButton, Goto
    <2>8. CASE CheckReconfig
      BY <2>8, SMTT(30) DEF CheckReconfig, Goto
    <2>9. CASE ReapplyCharger
      BY <2>9, SMTT(30) DEF ReapplyCharger, Goto, Bus
    <2>10. CASE ReapplyGlobal
      BY <2>10, SMTT(30) DEF ReapplyGlobal, Goto, WriteBias, Bus
    <2>11. CASE ThreadUnlock
      BY <2>11, SMTT(30) DEF ThreadUnlock, Goto, Unlock
    <2>12. CASE ThreadWake
      BY <2>12, SMTT(30) DEF ThreadWake, Goto
    <2>13. QED
      BY <1>2, <2>1, <2>2, <2>3, <2>4, <2>5, <2>6, <2>7, <2>8, <2>9, <2>10,
         <2>11, <2>12 DEF PowerThread
  <1>3. ASSUME NEW c \in Clients, Client(c) PROVE LockInv'
    <2>1. CASE MeasureLock(c)
      BY <2>1, SMTT(30) DEF MeasureLock, Goto, CanLock, Lock, CallMeasure
    <2>2. CASE MeasureUnlock(c)
      BY <2>2, SMTT(30) DEF MeasureUnlock, Goto, Unlock
    <2>3. CASE Gap9Set(c)
      BY <2>3, SMTT(30) DEF Gap9Set, Goto
    <2>4. CASE Gap9SetPin(c)
      BY <2>4, SMTT(30) DEF Gap9SetPin, Goto, SetGap9, Bus
    <2>5. CASE CallKill(c)
      BY <2>5, SMTT(30) DEF CallKill, Goto
    <2>6. QED
      BY <1>3, <2>1, <2>2, <2>3, <2>4, <2>5 DEF Client
  <1>4. ASSUME NEW t \in Threads, Config(t) PROVE LockInv'
    <2>1. CASE ConfigBias(t)
      BY <2>1, SMTT(30) DEF ConfigBias, Goto
    <2>2. CASE ConfigGlobal(t)
      BY <2>2, SMTT(30) DEF ConfigGlobal, Goto, WriteBias, Bus, ConfigReturn
    <2>3. CASE ConfigCharger(t)
      BY <2>3, SMTT(30) DEF ConfigCharger, Goto, Bus, ConfigReturn
    <2>4. CASE ConfigRail(t)
      BY <2>4, SMTT(30) DEF ConfigRail, Goto, Bus, ConfigReturn
    <2>5. CASE ConfigInt(t)
      BY <2>5, SMTT(30) DEF ConfigInt, Goto, Bus, ConfigReturn
    <2>6. QED
      BY <1>4, <2>1, <2>2, <2>3, <2>4, <2>5 DEF Config
  <1>5. ASSUME NEW t \in Threads, Measure(t) PROVE LockInv'
    <2>1. CASE MeasureMux(t)
      BY <2>1, SMTT(30) DEF MeasureMux, Goto, Bus, Channel
    <2>2. CASE MeasureAdc(t)
      BY <2>2, SMTT(30) DEF MeasureAdc, Goto, Bus, ChecksBattery
    <2>3. CASE MeasureOff(t)
      BY <2>3, SMTT(30) DEF MeasureOff, Goto, Bus, ChecksBattery,
         MeasureReturn
    <2>4. CASE MeasureAbort(t)
      BY <2>4, SMTT(30) DEF MeasureAbort, Goto, Bus, ChecksBattery,
         MeasureReturn
    <2>5. QED
      BY <1>5, <2>1, <2>2, <2>3, <2>4 DEF Measure
  <1>6. ASSUME NEW t \in Threads, Kill(t) PROVE LockInv'
    <2>1. CASE KillLock(t)
      BY <2>1, SMTT(30) DEF KillLock, Goto, CanLock, Lock
    <2>2. CASE KillTimeout(t)
      BY <2>2, SMTT(30) DEF KillTimeout, Goto, CanLock
    <2>3. CASE KillConf(t)
      BY <2>3, SMTT(30) DEF KillConf, Goto, CallConfig
    <2>4. CASE Reboot(t)
      BY <2>4, SMTT(30) DEF Reboot
    <2>5. QED
      BY <1>6, <2>1, <2>2, <2>3, <2>4 DEF Kill
  <1>7. CASE PressButton
    BY <1>7, SMTT(30) DEF PressButton
  <1>8. CASE UNCHANGED vars
    BY <1>8, SMTT(30) DEF vars
  <1>9. QED
    BY <1>1, <1>2, <1>3, <1>4, <1>5, <1>6, <1>7, <1>8 DEF Next, Step

\* Every step preserves the progress of the shutdown.
LEMMA ShutdownStep ==
  ASSUME IInv, [Next]_vars
  PROVE  ShutdownInv'
PROOF
  <1> USE PwrAssumption DEF IInv, TypeOK, ControlInv, Control, LockInv,
             Holding, Killing, Booting, BootLabels, ConfigLabels,
             MeasureLabels, ThreadLabels, KillLabels,
             Threads, Rails, ShutdownInv, Applying, lockVars, confVars,
             chipVars,
             battVars, gap9Vars, lifeVars
  <1>1. CASE Boot
    <2>1. CASE InitUnready
      BY <2>1, SMTT(30) DEF InitUnready, Goto, Bus
    <2>2. CASE InitLock
      BY <2>2, SMTT(30) DEF InitLock, Goto, CanLock, Lock
    <2>3. CASE InitReset
      BY <2>3, SMTT(30) DEF InitReset, Goto, Bus
    <2>4. CASE InitCheck
      BY <2>4, SMTT(30) DEF InitCheck, Goto, Bus, CallConfig
    <2>5. CASE InitThread
      BY <2>5, SMTT(30) DEF InitThread, Goto, Bus, CallMeasure
    <2>6. CASE InitDone
      BY <2>6, SMTT(30) DEF InitDone, Goto
    <2>7. CASE InitUnlock
      BY <2>7, SMTT(30) DEF InitUnlock, Goto, Unlock
    <2>8. CASE StartLed
      BY <2>8, SMTT(30) DEF StartLed, Goto, Bus
    <2>9. CASE StartConfig
      BY <2>9, SMTT(30) DEF StartConfig, Goto, CallConfig
    <2>10. CASE StartGpio
      BY <2>10, SMTT(30) DEF StartGpio, Goto, Bus
    <2>11. CASE StartGap9
      BY <2>11, SMTT(30) DEF StartGap9, Goto
    <2>12. CASE StartThread
      BY <2>12, SMTT(30) DEF StartThread
    <2>13. QED
      BY <1>1, <2>1, <2>2, <2>3, <2>4, <2>5, <2>6, <2>7, <2>8, <2>9, <2>10,
         <2>11, <2>12
         DEF Boot
  <1>2. CASE PowerThread
    <2>1. CASE ThreadLock
      BY <2>1, SMTT(30) DEF ThreadLock, Goto, CanLock, Lock
    <2>2. CASE ThreadTimeout
      BY <2>2, SMTT(30) DEF ThreadTimeout, Goto, CanLock
    <2>3. CASE ReadFlags
      BY <2>3, SMTT(30) DEF ReadFlags, Goto, Bus, CallMeasure
    <2>4. CASE ReadFlags2
      BY <2>4, SMTT(30) DEF ReadFlags2, Goto, Bus, CallMeasure
    <2>5. CASE HandleInterrupts
      BY <2>5, SMTT(30) DEF HandleInterrupts, Goto, SetGap9, Bus
    <2>6. CASE ResetEnd
      BY <2>6, SMTT(30) DEF ResetEnd, Goto, SetGap9, Bus
    <2>7. CASE CheckButton
      BY <2>7, SMTT(30) DEF CheckButton, Goto
    <2>8. CASE CheckReconfig
      BY <2>8, SMTT(30) DEF CheckReconfig, Goto
    <2>9. CASE ReapplyCharger
      BY <2>9, SMTT(30) DEF ReapplyCharger, Goto, Bus
    <2>10. CASE ReapplyGlobal
      BY <2>10, SMTT(30) DEF ReapplyGlobal, Goto, WriteBias, Bus
    <2>11. CASE ThreadUnlock
      BY <2>11, SMTT(30) DEF ThreadUnlock, Goto, Unlock
    <2>12. CASE ThreadWake
      BY <2>12, SMTT(30) DEF ThreadWake, Goto
    <2>13. QED
      BY <1>2, <2>1, <2>2, <2>3, <2>4, <2>5, <2>6, <2>7, <2>8, <2>9, <2>10,
         <2>11, <2>12 DEF PowerThread
  <1>3. ASSUME NEW c \in Clients, Client(c) PROVE ShutdownInv'
    <2>1. CASE MeasureLock(c)
      BY <2>1, SMTT(30) DEF MeasureLock, Goto, CanLock, Lock, CallMeasure
    <2>2. CASE MeasureUnlock(c)
      BY <2>2, SMTT(30) DEF MeasureUnlock, Goto, Unlock
    <2>3. CASE Gap9Set(c)
      BY <2>3, SMTT(30) DEF Gap9Set, Goto
    <2>4. CASE Gap9SetPin(c)
      BY <2>4, SMTT(30) DEF Gap9SetPin, Goto, SetGap9, Bus
    <2>5. CASE CallKill(c)
      BY <2>5, SMTT(30) DEF CallKill, Goto
    <2>6. QED
      BY <1>3, <2>1, <2>2, <2>3, <2>4, <2>5 DEF Client
  <1>4. ASSUME NEW t \in Threads, Config(t) PROVE ShutdownInv'
    <2>1. CASE ConfigBias(t)
      BY <2>1, SMTT(30) DEF ConfigBias, Goto
    <2>2. CASE ConfigGlobal(t)
      BY <2>2, SMTT(30) DEF ConfigGlobal, Goto, WriteBias, Bus, ConfigReturn
    <2>3. CASE ConfigCharger(t)
      BY <2>3, SMTT(30) DEF ConfigCharger, Goto, Bus, ConfigReturn
    <2>4. CASE ConfigRail(t)
      BY <2>4, SMTT(30) DEF ConfigRail, Goto, Bus, ConfigReturn
    <2>5. CASE ConfigInt(t)
      BY <2>5, SMTT(30) DEF ConfigInt, Goto, Bus, ConfigReturn
    <2>6. QED
      BY <1>4, <2>1, <2>2, <2>3, <2>4, <2>5 DEF Config
  <1>5. ASSUME NEW t \in Threads, Measure(t) PROVE ShutdownInv'
    <2>1. CASE MeasureMux(t)
      BY <2>1, SMTT(30) DEF MeasureMux, Goto, Bus, Channel
    <2>2. CASE MeasureAdc(t)
      BY <2>2, SMTT(30) DEF MeasureAdc, Goto, Bus, ChecksBattery
    <2>3. CASE MeasureOff(t)
      BY <2>3, SMTT(30) DEF MeasureOff, Goto, Bus, ChecksBattery,
         MeasureReturn
    <2>4. CASE MeasureAbort(t)
      BY <2>4, SMTT(30) DEF MeasureAbort, Goto, Bus, ChecksBattery,
         MeasureReturn
    <2>5. QED
      BY <1>5, <2>1, <2>2, <2>3, <2>4 DEF Measure
  <1>6. ASSUME NEW t \in Threads, Kill(t) PROVE ShutdownInv'
    <2>1. CASE KillLock(t)
      BY <2>1, SMTT(30) DEF KillLock, Goto, CanLock, Lock
    <2>2. CASE KillTimeout(t)
      BY <2>2, SMTT(30) DEF KillTimeout, Goto, CanLock
    <2>3. CASE KillConf(t)
      BY <2>3, SMTT(30) DEF KillConf, Goto, CallConfig
    <2>4. CASE Reboot(t)
      BY <2>4, SMTT(30) DEF Reboot
    <2>5. QED
      BY <1>6, <2>1, <2>2, <2>3, <2>4 DEF Kill
  <1>7. CASE PressButton
    BY <1>7, SMTT(30) DEF PressButton
  <1>8. CASE UNCHANGED vars
    BY <1>8, SMTT(30) DEF vars
  <1>9. QED
    BY <1>1, <1>2, <1>3, <1>4, <1>5, <1>6, <1>7, <1>8 DEF Next, Step

\* Every step preserves the origin of the readings.
LEMMA BatteryStep ==
  ASSUME IInv, [Next]_vars
  PROVE  BatteryInv'
PROOF
  <1> USE PwrAssumption DEF IInv, TypeOK, ControlInv, Control, LockInv,
             Holding, Killing, Booting, BootLabels, ConfigLabels,
             MeasureLabels, ThreadLabels, KillLabels,
             Threads, Rails, BatteryInv, Channel, Channels, lockVars,
             confVars, chipVars,
             battVars, gap9Vars, lifeVars
  <1>1. CASE Boot
    <2>1. CASE InitUnready
      BY <2>1, SMTT(30) DEF InitUnready, Goto, Bus
    <2>2. CASE InitLock
      BY <2>2, SMTT(30) DEF InitLock, Goto, CanLock, Lock
    <2>3. CASE InitReset
      BY <2>3, SMTT(30) DEF InitReset, Goto, Bus
    <2>4. CASE InitCheck
      BY <2>4, SMTT(30) DEF InitCheck, Goto, Bus, CallConfig
    <2>5. CASE InitThread
      BY <2>5, SMTT(30) DEF InitThread, Goto, Bus, CallMeasure
    <2>6. CASE InitDone
      BY <2>6, SMTT(30) DEF InitDone, Goto
    <2>7. CASE InitUnlock
      BY <2>7, SMTT(30) DEF InitUnlock, Goto, Unlock
    <2>8. CASE StartLed
      BY <2>8, SMTT(30) DEF StartLed, Goto, Bus
    <2>9. CASE StartConfig
      BY <2>9, SMTT(30) DEF StartConfig, Goto, CallConfig
    <2>10. CASE StartGpio
      BY <2>10, SMTT(30) DEF StartGpio, Goto, Bus
    <2>11. CASE StartGap9
      BY <2>11, SMTT(30) DEF StartGap9, Goto
    <2>12. CASE StartThread
      BY <2>12, SMTT(30) DEF StartThread
    <2>13. QED
      BY <1>1, <2>1, <2>2, <2>3, <2>4, <2>5, <2>6, <2>7, <2>8, <2>9, <2>10,
         <2>11, <2>12
         DEF Boot
  <1>2. CASE PowerThread
    <2>1. CASE ThreadLock
      BY <2>1, SMTT(30) DEF ThreadLock, Goto, CanLock, Lock
    <2>2. CASE ThreadTimeout
      BY <2>2, SMTT(30) DEF ThreadTimeout, Goto, CanLock
    <2>3. CASE ReadFlags
      BY <2>3, SMTT(30) DEF ReadFlags, Goto, Bus, CallMeasure
    <2>4. CASE ReadFlags2
      BY <2>4, SMTT(30) DEF ReadFlags2, Goto, Bus, CallMeasure
    <2>5. CASE HandleInterrupts
      BY <2>5, SMTT(30) DEF HandleInterrupts, Goto, SetGap9, Bus
    <2>6. CASE ResetEnd
      BY <2>6, SMTT(30) DEF ResetEnd, Goto, SetGap9, Bus
    <2>7. CASE CheckButton
      BY <2>7, SMTT(30) DEF CheckButton, Goto
    <2>8. CASE CheckReconfig
      BY <2>8, SMTT(30) DEF CheckReconfig, Goto
    <2>9. CASE ReapplyCharger
      BY <2>9, SMTT(30) DEF ReapplyCharger, Goto, Bus
    <2>10. CASE ReapplyGlobal
      BY <2>10, SMTT(30) DEF ReapplyGlobal, Goto, WriteBias, Bus
    <2>11. CASE ThreadUnlock
      BY <2>11, SMTT(30) DEF ThreadUnlock, Goto, Unlock
    <2>12. CASE ThreadWake
      BY <2>12, SMTT(30) DEF ThreadWake, Goto
    <2>13. QED
      BY <1>2, <2>1, <2>2, <2>3, <2>4, <2>5, <2>6, <2>7, <2>8, <2>9, <2>10,
         <2>11, <2>12 DEF PowerThread
  <1>3. ASSUME NEW c \in Clients, Client(c) PROVE BatteryInv'
    <2>1. CASE MeasureLock(c)
      BY <2>1, SMTT(30) DEF MeasureLock, Goto, CanLock, Lock, CallMeasure
    <2>2. CASE MeasureUnlock(c)
      BY <2>2, SMTT(30) DEF MeasureUnlock, Goto, Unlock
    <2>3. CASE Gap9Set(c)
      BY <2>3, SMTT(30) DEF Gap9Set, Goto
    <2>4. CASE Gap9SetPin(c)
      BY <2>4, SMTT(30) DEF Gap9SetPin, Goto, SetGap9, Bus
    <2>5. CASE CallKill(c)
      BY <2>5, SMTT(30) DEF CallKill, Goto
    <2>6. QED
      BY <1>3, <2>1, <2>2, <2>3, <2>4, <2>5 DEF Client
  <1>4. ASSUME NEW t \in Threads, Config(t) PROVE BatteryInv'
    <2>1. CASE ConfigBias(t)
      BY <2>1, SMTT(30) DEF ConfigBias, Goto
    <2>2. CASE ConfigGlobal(t)
      BY <2>2, SMTT(30) DEF ConfigGlobal, Goto, WriteBias, Bus, ConfigReturn
    <2>3. CASE ConfigCharger(t)
      BY <2>3, SMTT(30) DEF ConfigCharger, Goto, Bus, ConfigReturn
    <2>4. CASE ConfigRail(t)
      BY <2>4, SMTT(30) DEF ConfigRail, Goto, Bus, ConfigReturn
    <2>5. CASE ConfigInt(t)
      BY <2>5, SMTT(30) DEF ConfigInt, Goto, Bus, ConfigReturn
    <2>6. QED
      BY <1>4, <2>1, <2>2, <2>3, <2>4, <2>5 DEF Config
  <1>5. ASSUME NEW t \in Threads, Measure(t) PROVE BatteryInv'
    <2>1. CASE MeasureMux(t)
      BY <2>1, SMTT(30) DEF MeasureMux, Goto, Bus, Channel
    <2>2. CASE MeasureAdc(t)
      BY <2>2, SMTT(30) DEF MeasureAdc, Goto, Bus, ChecksBattery
    <2>3. CASE MeasureOff(t)
      BY <2>3, SMTT(30) DEF MeasureOff, Goto, Bus, ChecksBattery,
         MeasureReturn
    <2>4. CASE MeasureAbort(t)
      BY <2>4, SMTT(30) DEF MeasureAbort, Goto, Bus, ChecksBattery,
         MeasureReturn
    <2>5. QED
      BY <1>5, <2>1, <2>2, <2>3, <2>4 DEF Measure
  <1>6. ASSUME NEW t \in Threads, Kill(t) PROVE BatteryInv'
    <2>1. CASE KillLock(t)
      BY <2>1, SMTT(30) DEF KillLock, Goto, CanLock, Lock
    <2>2. CASE KillTimeout(t)
      BY <2>2, SMTT(30) DEF KillTimeout, Goto, CanLock
    <2>3. CASE KillConf(t)
      BY <2>3, SMTT(30) DEF KillConf, Goto, CallConfig
    <2>4. CASE Reboot(t)
      BY <2>4, SMTT(30) DEF Reboot
    <2>5. QED
      BY <1>6, <2>1, <2>2, <2>3, <2>4 DEF Kill
  <1>7. CASE PressButton
    BY <1>7, SMTT(30) DEF PressButton
  <1>8. CASE UNCHANGED vars
    BY <1>8, SMTT(30) DEF vars
  <1>9. QED
    BY <1>1, <1>2, <1>3, <1>4, <1>5, <1>6, <1>7, <1>8 DEF Next, Step

-----------------------------------------------------------------------------
(* The theorems.                                                           *)

\* A thread that has not started or is booting does not need the mutex.
LEMMA NotHolding == \A t \in Threads : pc[t] \in {"boot", "off"} => ~Holding(t)
BY SMT DEF Holding, Killing, ConfigLabels, MeasureLabels, ThreadLabels

\* The invariant holds initially.
LEMMA InitInv == Init => IInv
PROOF
  <1> SUFFICES ASSUME Init PROVE IInv
    OBVIOUS
  <1>1. TypeOK
    <2>1. /\ confBias \in BOOLEAN /\ bias \in BOOLEAN /\ nen \in BOOLEAN
          /\ flag \in BOOLEAN /\ gap9State \in BOOLEAN /\ gap9Pin \in BOOLEAN
          /\ initialised \in BOOLEAN /\ running \in BOOLEAN
      BY Zenon DEF Init
    <2>2. local \in [Threads -> BOOLEAN]
      BY Zenon DEF Init
    <2>3. QED
      BY <2>1, <2>2, PwrAssumption, SMT
      DEF Init, TypeOK, Labels, BootLabels, Jobs, Channels, Threads
  <1>2. ControlInv
    BY PwrAssumption, SMT DEF Init, ControlInv, Control, Booting, Threads,
       BootLabels, ConfigLabels, MeasureLabels, ThreadLabels
  <1>3. LockInv
    <2>1. ASSUME NEW t \in Threads
          PROVE  pc[t] \in {"boot", "off"} /\ owner # t /\ t \notin forced
      BY PwrAssumption, SMT DEF Init
    <2>2. ASSUME NEW t \in Threads
          PROVE  ~Holding(t)
      BY <2>1, NotHolding
    <2>3. owner = NoThread /\ depth = 0
      BY DEF Init
    <2>4. QED
      BY <2>1, <2>2, <2>3, SMT DEF LockInv
  <1>4. ShutdownInv
    BY SMT DEF Init, ShutdownInv, Applying, ConfigLabels
  <1>5. BatteryInv
    BY SMT DEF Init, BatteryInv
  <1>6. QED
    BY <1>1, <1>2, <1>3, <1>4, <1>5 DEF IInv

\* The invariant is inductive.
THEOREM Invariance == Spec => []IInv
PROOF
  <1>1. IInv /\ [Next]_vars => IInv'
    BY TypeStep, ControlStep, LockStep, ShutdownStep, BatteryStep DEF IInv
  <1>2. QED
    BY InitInv, <1>1, PTL DEF Spec

\* Every variable has its type; in particular the mutex is never taken more
\* than twice, however its holders nest.
THEOREM TypeCorrect == Spec => []TypeOK
PROOF
  <1>1. IInv => TypeOK
    BY DEF IInv
  <1>2. QED
    BY Invariance, <1>1, PTL

\* Two threads operate on the PMIC at once only after pwr_kill gave up on
\* the mutex, for any number of threads (pwr.c:60, pwr.c:183).
THEOREM Exclusion == Spec => []PmicExclusive
PROOF
  <1>1. IInv => PmicExclusive
    <2> SUFFICES ASSUME IInv, forced = {},
                        NEW s \in Threads, NEW t \in Threads,
                        s # t, Operates(s), Operates(t)
                 PROVE  FALSE
      BY DEF PmicExclusive
    <2> USE DEF IInv, ControlInv, Control, LockInv
    <2>1. ASSUME NEW u \in Threads, Operates(u)
          PROVE  \/ owner = u
                 \/ Booting(u)
      BY <2>1, SMT DEF Operates, Holding, Killing, Booting, BootLabels,
                  ConfigLabels, MeasureLabels, ThreadLabels
    <2>2. ASSUME NEW u \in Threads, Operates(u)
          PROVE  pc[u] # "off"
      BY <2>2, SMT DEF Operates, ConfigLabels, MeasureLabels
    <2>3. owner = s /\ owner = t
      BY <2>1, <2>2, SMT
    <2>4. QED
      BY <2>3
  <1>2. QED
    BY Invariance, <1>1, PTL

\* Places where no code that needs the mutex is under way.
Outside == {"off", "boot", "start", "s_conf", "s_gpio", "s_gap9", "s_done", "idle",
            "g_pin", "t_lock", "t_sleep"}

\* No path leaks the mutex, whatever fails on it, and no holder waits: who has
\* it is inside of an operation, waits for it at most as pwr_kill called by the
\* power thread does, which gets it at once, and has it once where it unlocks
\* it, so that the unlock frees it (pwr.c:60, thread_pwr.c:200).  This is the
\* safety half of MutexReleased.
HolderInside ==
    \A t \in Threads : owner = t =>
        /\ pc[t] \notin Outside
        /\ pc[t] = "k_lock" => t = PwrThread /\ depth = 1
        /\ pc[t] \in {"i_unlock", "a_unlock", "t_unlock"} => depth = 1

\* No path of pwr_init, of the power thread, of pwr_kill or of a client's
\* measurement leaks the mutex or waits for others while it has it, for any
\* number of threads, attempts and faults.
THEOREM NoLeak == Spec => []HolderInside
PROOF
  <1>1. IInv => HolderInside
    <2> SUFFICES ASSUME IInv, NEW t \in Threads, owner = t
                 PROVE  /\ pc[t] \notin Outside
                        /\ pc[t] = "k_lock" => t = PwrThread /\ depth = 1
                        /\ pc[t] \in {"i_unlock", "a_unlock", "t_unlock"} => depth = 1
      BY DEF HolderInside
    <2>1. /\ Holding(t) \/ pc[t] = "t_unlock"
          /\ depth = IF t = PwrThread /\ Killing(t) THEN 2 ELSE 1
      BY DEF IInv, LockInv
    <2>2. pc[t] \in {"k_lock", "i_unlock", "a_unlock", "t_unlock"} => ~Killing(t)
      BY DEF Killing, ConfigLabels
    <2>3. pc[t] \notin Outside
      BY <2>1 DEF Holding, Killing, Outside, ConfigLabels, MeasureLabels, ThreadLabels
    <2>4. pc[t] = "k_lock" => t = PwrThread
      BY <2>1 DEF Holding, Killing, ConfigLabels, MeasureLabels, ThreadLabels
    <2>5. QED
      BY <2>1, <2>2, <2>3, <2>4
  <1>2. QED
    BY Invariance, <1>1, PTL

\* Whatever fails and however threads interleave, pwr_kill reboots with
\* every rail off, and with the main bias off if it had the mutex (pwr.c:196).
THEOREM SafeReboot == Spec => []RebootSafe
PROOF
  <1>1. IInv => RebootSafe
    BY SMT DEF IInv, ShutdownInv, Applying, RebootSafe
  <1>2. QED
    BY Invariance, <1>1, PTL

\* Readings of other channels never enter the battery level.
THEOREM BatteryOnly == Spec => []BatterySource
PROOF
  <1>1. IInv => BatterySource
    BY DEF IInv, BatteryInv, BatterySource
  <1>2. QED
    BY Invariance, <1>1, PTL

\* Only a step of its holder releases the mutex, the unlock of an iteration
\* that never got it included (thread_pwr.c:200).
THEOREM OwnerUnlocks == Spec => OnlyOwnerUnlocks
PROOF
  <1> DEFINE Moves ==
        owner # NoThread /\ owner' # owner => pc'[owner] # pc[owner]
  <1>1. ASSUME IInv, Next
        PROVE  Moves
    <2> USE <1>1, PwrAssumption DEF IInv, TypeOK, LockInv, Threads, Goto,
       lockVars
    <2>1. CASE Boot
      <3>1. InitLock \/ InitUnlock \/ owner' = owner
        BY <2>1, Zenon DEF Boot, InitUnready, InitReset, InitCheck, InitThread,
           InitDone, StartLed, StartConfig, StartGpio, StartGap9, StartThread
      <3>2. CASE InitLock
        BY <3>2, SMTT(30) DEF InitLock, CanLock, Lock
      <3>3. CASE InitUnlock
        BY <3>3, SMTT(30) DEF InitUnlock, Unlock
      <3>4. QED
        BY <3>1, <3>2, <3>3
    <2>2. CASE PowerThread
      <3>1. ThreadLock \/ ThreadUnlock \/ owner' = owner
        BY <2>2, Zenon DEF PowerThread, ThreadTimeout, ReadFlags, ReadFlags2,
           HandleInterrupts, ResetEnd, CheckButton, CheckReconfig,
           ReapplyCharger, ReapplyGlobal, ThreadWake
      <3>2. CASE ThreadLock
        BY <3>2, SMTT(30) DEF ThreadLock, CanLock, Lock
      <3>3. CASE ThreadUnlock
        BY <3>3, SMTT(30) DEF ThreadUnlock, Unlock
      <3>4. QED
        BY <3>1, <3>2, <3>3
    <2>3. ASSUME NEW c \in Clients, Client(c) PROVE Moves
      BY <2>3, SMTT(30) DEF Client, MeasureLock, CanLock, Lock, MeasureUnlock,
         Unlock, Gap9Set, Gap9SetPin, CallKill
    <2>4. ASSUME NEW t \in Threads, Config(t) PROVE Moves
      <3>1. owner' = owner
        BY <2>4, Zenon DEF Config, ConfigBias, ConfigGlobal, ConfigCharger,
           ConfigRail, ConfigInt
      <3>2. QED
        BY <3>1
    <2>5. ASSUME NEW t \in Threads, Measure(t) PROVE Moves
      BY <2>5, SMT DEF Measure, MeasureMux, MeasureAdc, MeasureOff,
                       MeasureAbort
    <2>6. ASSUME NEW t \in Threads, Kill(t) PROVE Moves
      <3>1. CASE Reboot(t)
        <4>1. owner # NoThread => pc[owner] \notin {"boot", "off"}
          BY NotHolding, SMT
        <4>2. QED
          BY <3>1, <4>1, SMT DEF Reboot
      <3>2. CASE ~Reboot(t)
        BY <2>6, <3>2, SMT DEF Kill, KillLock, CanLock, Lock, KillTimeout,
                               KillConf
      <3>3. QED
        BY <3>1, <3>2
    <2>7. CASE PressButton
      BY <2>7, SMT DEF PressButton
    <2>8. QED
      BY <1>1, <2>1, <2>2, <2>3, <2>4, <2>5, <2>6, <2>7 DEF Next, Step
  <1>2. IInv /\ [Next]_vars => [Moves]_vars
    BY <1>1
  <1>3. QED
    BY Invariance, <1>2, PTL DEF Spec, OnlyOwnerUnlocks, Moves
-----------------------------------------------------------------------------
(* GAP9's supply.  Clients that only ever switch GAP9 on cannot undo a     *)
(* reset in the middle; one that switches it off can (the run              *)
(* pwr_gap9_off), so the theorem is about the former.                      *)

\* A reset is performed only while the state says on, and a call of gap9_pwr
\* that has set the state is going to set the pin to the same.
Gap9Inv ==
    /\ pc[PwrThread] = "t_reset" => gap9State = TRUE
    /\ \A t \in Threads :
          pc[t] = "g_pin" => gap9State = TRUE /\ local[t] = TRUE
    /\ pc[Main] = "boot" => gap9Pin = gap9State
    /\ Gap9Agrees

\* A step that is none of GAP9's business.
Gap9Still ==
    /\ UNCHANGED <<gap9State, gap9Pin, gap9Port>>
    /\ pc'[Main] = "boot" => pc[Main] = "boot"
    /\ \A t \in Threads :
          /\ pc'[t] = "g_pin" <=> pc[t] = "g_pin"
          /\ pc[t] = "g_pin" => local'[t] = local[t]
    /\ pc'[PwrThread] = "t_reset" <=> pc[PwrThread] = "t_reset"

LEMMA StillLemma ==
    ASSUME Gap9Inv, Gap9Still
    PROVE  Gap9Inv'
BY SMT DEF Gap9Inv, Gap9Still, Gap9Agrees, Threads

\* The steps that are: the pin's configuration, gap9_pwr, the reset of the
\* power thread, a reboot.
Gap9Business ==
    \/ InitUnready \/ InitLock
    \/ StartGap9 \/ HandleInterrupts \/ ResetEnd
    \/ \E c \in Clients : Gap9Set(c) \/ Gap9SetPin(c)
    \/ \E t \in Threads : Reboot(t)

LEMMA BusinessLemma ==
  ASSUME IInv, [Next]_vars, ~Gap9Business
  PROVE  Gap9Still
PROOF
  <1> USE PwrAssumption DEF IInv, TypeOK, ControlInv, Control, Booting,
             BootLabels, ConfigLabels, MeasureLabels, ThreadLabels,
             KillLabels, Threads, Gap9Still, confVars, chipVars,
             battVars, gap9Vars, lifeVars
  <1>1. CASE Boot
    <2>1. CASE InitReset
      BY <2>1, SMTT(30) DEF InitReset, Goto
    <2>2. CASE InitCheck
      BY <2>2, SMTT(30) DEF InitCheck, Goto, CallConfig
    <2>3. CASE InitThread
      BY <2>3, SMTT(30) DEF InitThread, Goto, CallMeasure
    <2>4. CASE InitDone
      BY <2>4, SMTT(30) DEF InitDone, Goto
    <2>5. CASE InitUnlock
      BY <2>5, SMTT(30) DEF InitUnlock, Goto
    <2>6. CASE StartLed
      BY <2>6, SMTT(30) DEF StartLed, Goto
    <2>7. CASE StartConfig
      BY <2>7, SMTT(30) DEF StartConfig, Goto, CallConfig
    <2>8. CASE StartGpio
      BY <2>8, SMTT(30) DEF StartGpio, Goto
    <2>9. CASE StartThread
      BY <2>9, SMTT(30) DEF StartThread
    <2>10. QED
      BY <1>1, <2>1, <2>2, <2>3, <2>4, <2>5, <2>6, <2>7, <2>8,
         <2>9
         DEF Boot, Gap9Business
  <1>2. CASE PowerThread
    <2>1. CASE ThreadLock
      BY <2>1, SMTT(30) DEF ThreadLock, Goto
    <2>2. CASE ThreadTimeout
      BY <2>2, SMTT(30) DEF ThreadTimeout, Goto
    <2>3. CASE ReadFlags
      BY <2>3, SMTT(30) DEF ReadFlags, Goto, CallMeasure
    <2>4. CASE ReadFlags2
      <3>1. /\ UNCHANGED <<gap9State, gap9Pin, gap9Port>>
            /\ pc[PwrThread] = "t_flags2"
            /\ pc' = [pc EXCEPT ![PwrThread] = "m_mux"]
            /\ local' = [local EXCEPT ![PwrThread] = FALSE]
        BY <2>4, Zenon DEF ReadFlags2, Goto, CallMeasure, gap9Vars
      <3>2. \A t \in Threads \ {PwrThread} :
              pc'[t] = pc[t] /\ local'[t] = local[t]
        BY <3>1, Zenon
      <3>3. /\ pc[PwrThread] \notin {"g_pin", "t_reset"}
            /\ pc'[PwrThread] \notin {"g_pin", "t_reset"}
        BY <3>1, SMT
      <3>4. QED
        BY <3>1, <3>2, <3>3, Zenon
    <2>5. CASE CheckButton
      BY <2>5, SMTT(30) DEF CheckButton, Goto
    <2>6. CASE CheckReconfig
      BY <2>6, SMTT(30) DEF CheckReconfig, Goto
    <2>7. CASE ReapplyCharger
      BY <2>7, SMTT(30) DEF ReapplyCharger, Goto
    <2>8. CASE ReapplyGlobal
      <3>1. /\ UNCHANGED <<gap9State, gap9Pin, gap9Port>>
            /\ pc[PwrThread] = "r_global"
            /\ pc' = [pc EXCEPT ![PwrThread] = "t_unlock"]
            /\ local' = [local EXCEPT ![PwrThread] = FALSE]
        BY <2>8, Zenon DEF ReapplyGlobal, Goto, WriteBias, gap9Vars
      <3>2. \A t \in Threads \ {PwrThread} :
              pc'[t] = pc[t] /\ local'[t] = local[t]
        BY <3>1, Zenon
      <3>3. /\ pc[PwrThread] \notin {"g_pin", "t_reset"}
            /\ pc'[PwrThread] \notin {"g_pin", "t_reset"}
        BY <3>1, SMT
      <3>4. QED
        BY <3>1, <3>2, <3>3, Zenon
    <2>9. CASE ThreadUnlock
      BY <2>9, SMTT(30) DEF ThreadUnlock, Goto
    <2>10. CASE ThreadWake
      BY <2>10, SMTT(30) DEF ThreadWake, Goto
    <2>11. QED
      BY <1>2, <2>1, <2>2, <2>3, <2>4, <2>5, <2>6, <2>7, <2>8, <2>9, <2>10
         DEF PowerThread, Gap9Business
  <1>3. ASSUME NEW c \in Clients, Client(c) PROVE Gap9Still
    <2>1. CASE MeasureLock(c)
      BY <2>1, SMTT(30) DEF MeasureLock, Goto, CallMeasure
    <2>2. CASE MeasureUnlock(c)
      BY <2>2, SMTT(30) DEF MeasureUnlock, Goto
    <2>3. CASE CallKill(c)
      BY <2>3, SMTT(30) DEF CallKill, Goto
    <2>4. QED
      BY <1>3, <2>1, <2>2, <2>3 DEF Client, Gap9Business
  <1>4. ASSUME NEW t \in Threads, Config(t) PROVE Gap9Still
    <2>1. CASE ConfigBias(t)
      BY <2>1, SMTT(30) DEF ConfigBias, Goto
    <2>2. CASE ConfigGlobal(t)
      <3>1. PICK ok \in BOOLEAN :
              /\ UNCHANGED <<gap9State, gap9Pin, gap9Port>>
              /\ pc[t] = "c_global"
              /\ pc' = [pc EXCEPT ![t] =
                            IF ok THEN "c_charger" ELSE ConfigReturn(t, FALSE)]
              /\ local' = [local EXCEPT ![t] = FALSE]
        BY <2>2, Zenon DEF ConfigGlobal, Goto, WriteBias, gap9Vars
      <3>2. ConfigReturn(t, FALSE) \notin {"g_pin", "t_reset"}
        BY SMT DEF ConfigReturn
      <3>3. \A u \in Threads \ {t} : pc'[u] = pc[u] /\ local'[u] = local[u]
        BY <3>1, Zenon
      <3>4. pc'[t] \in {"c_charger", ConfigReturn(t, FALSE)}
        BY <3>1, Zenon
      <3>5. /\ pc[t] \notin {"g_pin", "t_reset"}
            /\ pc'[t] \notin {"g_pin", "t_reset"}
        BY <3>1, <3>2, <3>4, Zenon
      <3>6. pc'[Main] = "boot" => pc[Main] = "boot"
        <4>1. pc'[t] # "boot"
          BY <3>4, SMT DEF ConfigReturn
        <4>2. QED
          BY <3>3, <4>1
      <3>7. QED
        BY <3>1, <3>3, <3>5, <3>6, Zenon
    <2>3. CASE ConfigCharger(t)
      BY <2>3, SMTT(30) DEF ConfigCharger, Goto, ConfigReturn
    <2>4. CASE ConfigRail(t)
      BY <2>4, SMTT(30) DEF ConfigRail, Goto, ConfigReturn
    <2>5. CASE ConfigInt(t)
      BY <2>5, SMTT(30) DEF ConfigInt, Goto, ConfigReturn
    <2>6. QED
      BY <1>4, <2>1, <2>2, <2>3, <2>4, <2>5 DEF Config
  <1>5. ASSUME NEW t \in Threads, Measure(t) PROVE Gap9Still
    <2>1. CASE MeasureMux(t)
      BY <2>1, SMTT(30) DEF MeasureMux, Goto
    <2>2. CASE MeasureAdc(t)
      BY <2>2, SMTT(30) DEF MeasureAdc, Goto
    <2>3. CASE MeasureOff(t)
      BY <2>3, SMTT(30) DEF MeasureOff, Goto, MeasureReturn
    <2>4. CASE MeasureAbort(t)
      BY <2>4, SMTT(30) DEF MeasureAbort, Goto, MeasureReturn
    <2>5. QED
      BY <1>5, <2>1, <2>2, <2>3, <2>4 DEF Measure
  <1>6. ASSUME NEW t \in Threads, Kill(t) PROVE Gap9Still
    <2>1. CASE KillLock(t)
      BY <2>1, SMTT(30) DEF KillLock, Goto
    <2>2. CASE KillTimeout(t)
      BY <2>2, SMTT(30) DEF KillTimeout, Goto
    <2>3. CASE KillConf(t)
      BY <2>3, SMTT(30) DEF KillConf, Goto, CallConfig
    <2>4. QED
      BY <1>6, <2>1, <2>2, <2>3 DEF Kill, Gap9Business
  <1>7. CASE PressButton
    BY <1>7, SMTT(30) DEF PressButton
  <1>8. CASE UNCHANGED vars
    BY <1>8, SMTT(30) DEF vars
  <1>9. QED
    BY <1>1, <1>2, <1>3, <1>4, <1>5, <1>6, <1>7, <1>8 DEF Next, Step

LEMMA Gap9Step ==
  ASSUME IInv, Gap9Values \subseteq {TRUE}, Gap9Inv, [Next]_vars
  PROVE  Gap9Inv'
PROOF
  <1> USE PwrAssumption DEF IInv, TypeOK, ControlInv, Control, Booting,
             BootLabels, Threads, Gap9Inv, Gap9Agrees, Goto
  <1>1. CASE ~Gap9Business
    BY <1>1, BusinessLemma, StillLemma
  <1>2. CASE StartGap9
    BY <1>2, SMTT(30) DEF StartGap9
  <1>3. CASE HandleInterrupts
    <2>1. PICK ok \in BOOLEAN :
            /\ pc[PwrThread] = "t_ints" /\ UNCHANGED <<gap9State, local>>
            /\ flag /\ gap9State => SetGap9(FALSE, ok)
            /\ ~(flag /\ gap9State) => UNCHANGED <<gap9Pin, gap9Port>>
            /\ pc' = [pc EXCEPT ![PwrThread] =
                         IF flag /\ gap9State /\ ok THEN "t_reset" ELSE "t_button"]
      BY <1>3, Zenon DEF HandleInterrupts
    <2>2. /\ PwrThread # Main /\ PwrThread \in Threads
          /\ pc[PwrThread] # "t_reset" /\ pc[Main] # "boot"
      BY <2>1, SMT
    <2>3. \A u \in Threads \ {PwrThread} : pc'[u] = pc[u]
      BY <2>1
    <2>4. CASE flag /\ gap9State /\ ok
      <3>1. pc'[PwrThread] = "t_reset" /\ pc'[Main] # "boot"
        BY <2>1, <2>2, <2>4
      <3>2. gap9State' = TRUE /\ local' = local
        BY <2>1, <2>4
      <3>3. Gap9Agrees'
        BY <3>1, Zenon
      <3>4. QED
        BY <2>2, <2>3, <3>1, <3>2, <3>3, ZenonT(40)
    <2>5. CASE flag /\ gap9State /\ ~ok
      <3>1. gap9Port' # "output" /\ pc'[PwrThread] = "t_button"
        BY <2>1, <2>5 DEF SetGap9
      <3>2. QED
        BY <2>1, <2>2, <2>3, <3>1, SMTT(30)
    <2>6. CASE ~(flag /\ gap9State)
      <3>1. UNCHANGED <<gap9Pin, gap9Port>> /\ pc'[PwrThread] = "t_button"
        BY <2>1, <2>6
      <3>2. QED
        BY <2>1, <2>2, <2>3, <3>1, SMTT(30)
    <2>7. QED
      BY <2>4, <2>5, <2>6
  <1>4. CASE ResetEnd
    <2>1. gap9Port' = "output" => gap9Pin' = TRUE
      BY <1>4, SetGap9Lemma DEF ResetEnd
    <2>2. /\ pc[PwrThread] = "t_reset" /\ UNCHANGED <<gap9State, local>>
          /\ pc' = [pc EXCEPT ![PwrThread] = "t_button"]
      BY <1>4, Zenon DEF ResetEnd
    <2>3. /\ PwrThread # Main /\ pc[Main] # "boot"
          /\ pc'[PwrThread] = "t_button" /\ pc'[Main] = pc[Main]
      BY <2>2, SMT
    <2>4. \A u \in Threads \ {PwrThread} : pc'[u] = pc[u]
      BY <2>2
    <2>5. gap9State' = TRUE
      BY <2>2
    <2>6. QED
      BY <2>1, <2>2, <2>3, <2>4, <2>5, Zenon
  <1>5. ASSUME NEW c \in Clients, Gap9Set(c) PROVE Gap9Inv'
    <2>1. /\ pc[c] = "idle" /\ gap9State' = TRUE
          /\ local' = [local EXCEPT ![c] = TRUE]
          /\ pc' = [pc EXCEPT ![c] = "g_pin"]
      BY <1>5, Zenon DEF Gap9Set
    <2>2. \A u \in Threads \ {c} : pc'[u] = pc[u] /\ local'[u] = local[u]
      BY <2>1, Zenon
    <2>3. pc'[c] = "g_pin" /\ local'[c] = TRUE
      BY <2>1, Zenon
    <2>4. c # PwrThread /\ c \in Threads
      BY SMT
    <2>5. Gap9Agrees'
      BY <2>3, Zenon
    <2>6. QED
      BY <2>1, <2>2, <2>3, <2>4, <2>5, Zenon
  <1>6. ASSUME NEW c \in Clients, Gap9SetPin(c) PROVE Gap9Inv'
    BY <1>6, SMTT(30) DEF Gap9SetPin, SetGap9, Bus
  <1>7. ASSUME NEW t \in Threads, Reboot(t) PROVE Gap9Inv'
    <2>1. /\ gap9State' = gap9Pin'
          /\ pc' = [u \in Threads |-> IF u = Main THEN "boot" ELSE "off"]
      BY <1>7, Zenon DEF Reboot
    <2>2. QED
      BY <2>1, SMT
  <1>8. CASE InitUnready \/ InitLock
    <2>1. /\ pc[Main] = "boot" /\ UNCHANGED <<gap9State, gap9Pin, local>>
          /\ pc' = [pc EXCEPT ![Main] = "start"] \/ pc' = [pc EXCEPT ![Main] = "i_reset"]
      BY <1>8, Zenon DEF InitUnready, InitLock, gap9Vars
    <2>2. gap9Pin' = gap9State'
      BY <2>1
    <2>3. QED
      BY <2>1, <2>2, SMTT(30)
  <1>9. QED
    BY <1>1, <1>2, <1>3, <1>4, <1>5, <1>6, <1>7, <1>8 DEF Gap9Business

\* With clients that never switch GAP9 off, its supply pin follows
\* gap9_pwr_state through every reset and every overlap of calls, for any
\* number of threads (thread_pwr.c:243-258, pwr.c:232-241).
THEOREM Gap9Agreement ==
    Gap9Values \subseteq {TRUE} => (Spec => []Gap9Agrees)
PROOF
  <1> SUFFICES ASSUME Gap9Values \subseteq {TRUE}
               PROVE  Spec => []Gap9Agrees
    OBVIOUS
  <1>1. Init => Gap9Inv
    <2> SUFFICES ASSUME Init PROVE Gap9Inv
      OBVIOUS
    <2>1. gap9Pin = gap9State
      BY Zenon DEF Init
    <2>2. \A t \in Threads : pc[t] \in {"boot", "off"}
      BY SMT DEF Init
    <2>3. QED
      BY <2>1, <2>2, PwrAssumption, SMT DEF Gap9Inv, Gap9Agrees, Threads
  <1>2. IInv /\ Gap9Inv /\ [Next]_vars => Gap9Inv'
    BY Gap9Step
  <1>3. Gap9Inv => Gap9Agrees
    BY DEF Gap9Inv
  <1>4. QED
    BY Invariance, <1>1, <1>2, <1>3, PTL DEF Spec

-----------------------------------------------------------------------------
(* One reset for a press.                                                  *)

\* On a bus that has not failed, whatever says that the button was pressed
\* (the chip's flag, the value read from it, the driver's copy until it is
\* handled) stands for a press that is not handled yet.
PressInv ==
    faults = 0 =>
        /\ nen => "latched" \in presses
        /\ pc[PwrThread] = "t_flags2" /\ local[PwrThread] => "taken" \in presses
        /\ pc[PwrThread] \in MeasureLabels \cup {"t_ints"} /\ flag
              => "taken" \in presses

\* A step that no press has to do with: it leaves the flag and its copies
\* alone and starts nothing that uses them.
PressStill ==
    /\ UNCHANGED <<nen, flag, presses>>
    /\ faults' = 0 => faults = 0
    /\ pc'[PwrThread] \in {"t_flags2", "t_reset"} => pc'[PwrThread] = pc[PwrThread]
    /\ pc'[PwrThread] = "t_flags2" => local'[PwrThread] = local[PwrThread]
    /\ pc'[PwrThread] \in MeasureLabels \cup {"t_ints"}
          => pc[PwrThread] \in MeasureLabels \cup {"t_ints"}

PressBusiness ==
    \/ InitReset \/ ReadFlags \/ ReadFlags2 \/ HandleInterrupts \/ PressButton
    \/ \E t \in Threads : Reboot(t)

LEMMA PressBusinessLemma ==
  ASSUME IInv, [Next]_vars, ~PressBusiness
  PROVE  PressStill
PROOF
  <1> USE PwrAssumption DEF IInv, TypeOK, ControlInv, Control, Booting,
             BootLabels, ConfigLabels, MeasureLabels, ThreadLabels,
             KillLabels, Threads, PressStill, confVars, chipVars,
             battVars, gap9Vars, lifeVars, Bus, Goto
  <1>1. CASE Boot
    <2>1. CASE InitUnready
      BY <2>1, SMTT(30) DEF InitUnready
    <2>2. CASE InitLock
      BY <2>2, SMTT(30) DEF InitLock
    <2>3. CASE InitCheck
      BY <2>3, SMTT(30) DEF InitCheck, CallConfig
    <2>4. CASE InitThread
      BY <2>4, SMTT(30) DEF InitThread, CallMeasure
    <2>5. CASE InitDone
      BY <2>5, SMTT(30) DEF InitDone
    <2>6. CASE InitUnlock
      BY <2>6, SMTT(30) DEF InitUnlock
    <2>7. CASE StartLed
      BY <2>7, SMTT(30) DEF StartLed
    <2>8. CASE StartConfig
      BY <2>8, SMTT(30) DEF StartConfig, CallConfig
    <2>9. CASE StartGpio
      BY <2>9, SMTT(30) DEF StartGpio
    <2>10. CASE StartGap9
      BY <2>10, SMTT(30) DEF StartGap9
    <2>11. CASE StartThread
      BY <2>11, SMTT(30) DEF StartThread
    <2>12. QED
      BY <1>1, <2>1, <2>2, <2>3, <2>4, <2>5, <2>6, <2>7, <2>8, <2>9, <2>10,
         <2>11
         DEF Boot, PressBusiness
  <1>2. CASE PowerThread
    <2>1. CASE ThreadLock
      BY <2>1, SMTT(30) DEF ThreadLock
    <2>2. CASE ThreadTimeout
      BY <2>2, SMTT(30) DEF ThreadTimeout
    <2>3. CASE ResetEnd
      BY <2>3, SMTT(30) DEF ResetEnd, SetGap9
    <2>4. CASE CheckButton
      BY <2>4, SMTT(30) DEF CheckButton
    <2>5. CASE CheckReconfig
      BY <2>5, SMTT(30) DEF CheckReconfig
    <2>6. CASE ReapplyCharger
      BY <2>6, SMTT(30) DEF ReapplyCharger
    <2>7. CASE ReapplyGlobal
      BY <2>7, SMTT(30) DEF ReapplyGlobal, WriteBias
    <2>8. CASE ThreadUnlock
      BY <2>8, SMTT(30) DEF ThreadUnlock
    <2>9. CASE ThreadWake
      BY <2>9, SMTT(30) DEF ThreadWake
    <2>10. QED
      BY <1>2, <2>1, <2>2, <2>3, <2>4, <2>5, <2>6, <2>7, <2>8, <2>9
         DEF PowerThread, PressBusiness
  <1>3. ASSUME NEW c \in Clients, Client(c) PROVE PressStill
    <2>1. CASE MeasureLock(c)
      BY <2>1, SMTT(30) DEF MeasureLock, CallMeasure
    <2>2. CASE MeasureUnlock(c)
      BY <2>2, SMTT(30) DEF MeasureUnlock
    <2>3. CASE Gap9Set(c)
      BY <2>3, SMTT(30) DEF Gap9Set
    <2>4. CASE Gap9SetPin(c)
      BY <2>4, SMTT(30) DEF Gap9SetPin, SetGap9
    <2>5. CASE CallKill(c)
      BY <2>5, SMTT(30) DEF CallKill
    <2>6. QED
      BY <1>3, <2>1, <2>2, <2>3, <2>4, <2>5 DEF Client
  <1>4. ASSUME NEW t \in Threads, Config(t) PROVE PressStill
    <2>1. CASE ConfigBias(t)
      BY <2>1, SMTT(30) DEF ConfigBias
    <2>2. CASE ConfigGlobal(t)
      BY <2>2, SMTT(30) DEF ConfigGlobal, WriteBias, ConfigReturn
    <2>3. CASE ConfigCharger(t)
      BY <2>3, SMTT(30) DEF ConfigCharger, ConfigReturn
    <2>4. CASE ConfigRail(t)
      BY <2>4, SMTT(30) DEF ConfigRail, ConfigReturn
    <2>5. CASE ConfigInt(t)
      BY <2>5, SMTT(30) DEF ConfigInt, ConfigReturn
    <2>6. QED
      BY <1>4, <2>1, <2>2, <2>3, <2>4, <2>5 DEF Config
  <1>5. ASSUME NEW t \in Threads, Measure(t) PROVE PressStill
    <2>1. CASE MeasureMux(t)
      BY <2>1, SMTT(30) DEF MeasureMux
    <2>2. CASE MeasureAdc(t)
      BY <2>2, SMTT(30) DEF MeasureAdc
    <2>3. CASE MeasureOff(t)
      BY <2>3, SMTT(30) DEF MeasureOff, MeasureReturn
    <2>4. CASE MeasureAbort(t)
      BY <2>4, SMTT(30) DEF MeasureAbort, MeasureReturn
    <2>5. QED
      BY <1>5, <2>1, <2>2, <2>3, <2>4 DEF Measure
  <1>6. ASSUME NEW t \in Threads, Kill(t) PROVE PressStill
    <2>1. CASE KillLock(t)
      BY <2>1, SMTT(30) DEF KillLock
    <2>2. CASE KillTimeout(t)
      BY <2>2, SMTT(30) DEF KillTimeout
    <2>3. CASE KillConf(t)
      BY <2>3, SMTT(30) DEF KillConf, CallConfig
    <2>4. QED
      BY <1>6, <2>1, <2>2, <2>3 DEF Kill, PressBusiness
  <1>7. CASE UNCHANGED vars
    BY <1>7, SMTT(30) DEF vars
  <1>8. QED
    BY <1>1, <1>2, <1>3, <1>4, <1>5, <1>6, <1>7 DEF Next, Step, PressBusiness

\* Reading the flag clears it in the chip, so that a later reading does not
\* find the same press again; the copy is overwritten by every reading.
LEMMA PressStep ==
  ASSUME IInv, PressInv, [Next]_vars
  PROVE  PressInv'
PROOF
  <1> USE PwrAssumption DEF TypeOK, MeasureLabels, Threads, PressInv, Bus, Goto
  <1> TypeOK
    BY DEF IInv
  <1>1. CASE ~PressBusiness
    BY <1>1, PressBusinessLemma DEF PressStill
  <1>2. CASE InitReset
    <2>1. pc'[PwrThread] = pc[PwrThread]
      BY <1>2, SMT DEF InitReset
    <2>2. QED
      BY <1>2, <2>1, SMT DEF InitReset, chipVars
  <1>3. CASE ReadFlags
    BY <1>3, SMTT(30) DEF ReadFlags, CallMeasure
  <1>4. CASE ReadFlags2
    BY <1>4, SMTT(30) DEF ReadFlags2, CallMeasure, chipVars, gap9Vars
  <1>5. CASE HandleInterrupts
    <2>1. /\ pc[PwrThread] = "t_ints" /\ UNCHANGED <<nen, flag, local>>
          /\ presses' = presses \/ presses' = presses \ {"taken"}
          /\ pc' = [pc EXCEPT ![PwrThread] = "t_reset"]
             \/ pc' = [pc EXCEPT ![PwrThread] = "t_button"]
      BY <1>5, Zenon DEF HandleInterrupts, chipVars
    <2>2. faults' = 0 => faults = 0
      <3>1. PICK ok \in BOOLEAN :
              faults' = (IF ok THEN faults ELSE faults + 1) \/ faults' = faults
        BY <1>5, Zenon DEF HandleInterrupts, SetGap9
      <3>2. QED
        BY <3>1, SMT
    <2>3. QED
      BY <2>1, <2>2, SMTT(30)
  <1>6. CASE PressButton
    BY <1>6, SMTT(30) DEF PressButton
  <1>7. ASSUME NEW t \in Threads, Reboot(t) PROVE PressInv'
    BY <1>7, SMTT(30) DEF Reboot, chipVars
  <1>8. QED
    BY <1>1, <1>2, <1>3, <1>4, <1>5, <1>6, <1>7 DEF PressBusiness

\* On a bus that has not failed a press resets GAP9 at most once, for any number
\* of threads and whatever they do meanwhile (thread_pwr.c:242-258).
THEOREM PressesOnce == Spec => ResetOncePerPress
PROOF
  <1>1. Init => PressInv
    BY PwrAssumption DEF Init, PressInv, MeasureLabels, Threads
  <1>2. IInv /\ PressInv /\ [Next]_vars => PressInv'
    BY PressStep
  <1>3. ASSUME IInv, PressInv, [Next]_vars,
               pc'[PwrThread] = "t_reset", pc[PwrThread] # "t_reset"
        PROVE  "taken" \in presses \/ faults > 0
    <2>1. PressBusiness
      BY <1>3, PressBusinessLemma DEF PressStill
    <2>2. HandleInterrupts
      <3> USE PwrAssumption DEF IInv, TypeOK, Threads, Goto
      <3>1. ~InitReset /\ ~PressButton
        BY <1>3, SMTT(30) DEF InitReset, PressButton
      <3>2. ~ReadFlags /\ ~ReadFlags2
        BY <1>3, SMTT(30) DEF ReadFlags, ReadFlags2, CallMeasure
      <3>3. ~ \E t \in Threads : Reboot(t)
        BY <1>3, SMTT(30) DEF Reboot
      <3>4. QED
        BY <2>1, <3>1, <3>2, <3>3 DEF PressBusiness
    <2>3. pc[PwrThread] = "t_ints" /\ flag
      BY <1>3, <2>2, PwrAssumption, SMTT(30)
      DEF HandleInterrupts, Goto, IInv, TypeOK, Threads
    <2>4. QED
      BY <1>3, <2>3 DEF PressInv, IInv, TypeOK
  <1>4. IInv /\ PressInv /\ [Next]_vars
          => [pc'[PwrThread] = "t_reset" /\ pc[PwrThread] # "t_reset"
                 => "taken" \in presses \/ faults > 0]_vars
    BY <1>3
  <1>5. QED
    BY Invariance, <1>1, <1>2, <1>4, PTL DEF Spec, ResetOncePerPress
=============================================================================
