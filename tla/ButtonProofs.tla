----------------------------- MODULE ButtonProofs -----------------------------
(***************************************************************************)
(* Theorems about the button, for every latency, period and limit of the   *)
(* semaphore, with every disturbance.                                      *)
(*                                                                         *)
(* TimedInv is the invariant behind OnlyLongPressKills: as long as nothing *)
(* disturbed the press, the age of last_keydown_ms is the age of the       *)
(* press, so the span that the release computes is how long it lasted.     *)
(***************************************************************************)
EXTENDS PwrButton, TLAPS

TimedInv ==
    /\ pc \in {"boot", "armed"} /\ button => disturbed
    /\ ~disturbed => /\ span <= held
                     /\ button => sinceDown = held /\ span = 0

ButtonInv == TypeOK /\ NoLostWakeup /\ TimedInv

LEMMA Numbers == /\ Latency \in Nat /\ Latency > 0
                 /\ Period \in Nat
                 /\ SemLimit \in Nat /\ SemLimit > 0
BY PwrButtonAssumption

LEMMA OlderLemma ==
    ASSUME NEW age \in Ages
    PROVE  Older(age) \in Ages /\ age <= Older(age)
BY Numbers DEF Ages, Older

LEMMA ButtonInit == Init => ButtonInv
<1> SUFFICES ASSUME Init PROVE ButtonInv
  OBVIOUS
<1>1. TypeOK
  <2>1. 0 \in Ages /\ 0 \in 0..Period /\ 0 \in 0..SemLimit
    BY Numbers DEF Ages
  <2>2. {} \subseteq Flags
    OBVIOUS
  <2>3. /\ button \in BOOLEAN
        /\ skipped \in BOOLEAN /\ disturbed \in BOOLEAN
    BY DEF Init
  <2>4. QED  BY <2>1, <2>2, <2>3 DEF Init, TypeOK
<1>2. NoLostWakeup
  BY Numbers DEF Init, NoLostWakeup
<1>3. TimedInv
  BY DEF Init, TimedInv
<1>4. QED  BY <1>1, <1>2, <1>3 DEF ButtonInv

\* What an edge of the PMIC's line does to the semaphore and the time stamps.
LEMMA InterruptLemma ==
    ASSUME TypeOK, NEW f \in Flags, PmicInterrupt(f)
    PROVE  /\ intFlags' \subseteq Flags
           /\ sem' \in 0..SemLimit /\ (sem # 0 => sem' # 0)
           /\ sinceDown' \in Ages /\ span' \in Ages
           /\ \/ /\ intFlags = {} /\ pc # "boot"
                 /\ sinceDown' = 0 /\ span' = 0 /\ sem' # 0
              \/ /\ intFlags # {} \/ pc = "boot"
                 /\ UNCHANGED <<sinceDown, span, sem>>
BY Numbers DEF PmicInterrupt, Give, TypeOK, Ages, Flags

LEMMA PressStep ==
    ASSUME ButtonInv, Press
    PROVE  ButtonInv'
<1> USE DEF ButtonInv
<1>1. /\ "nen_f" \in Flags
      /\ PmicInterrupt("nen_f")
  BY DEF Press, Flags
<1>2. TypeOK'
  <2>1. /\ UNCHANGED <<pc, uptime, waited, skipped>>
        /\ button' \in BOOLEAN /\ disturbed' \in BOOLEAN /\ held' = 0
    BY DEF Press
  <2>2. 0 \in Ages
    BY Numbers DEF Ages
  <2>3. QED  BY <1>1, <2>1, <2>2, InterruptLemma DEF TypeOK
<1>3. NoLostWakeup'
  BY <1>1, InterruptLemma, Numbers DEF Press, NoLostWakeup, history
<1>4. TimedInv'
  <2>1. button' = TRUE /\ held' = 0 /\ pc' = pc
    BY DEF Press
  <2>2. CASE pc \in {"boot", "armed"} \/ intFlags # {}
    <3>1. disturbed' = TRUE
      BY <2>2 DEF Press
    <3>2. QED  BY <3>1 DEF TimedInv
  <2>3. CASE pc \notin {"boot", "armed"} /\ intFlags = {}
    <3>1. sinceDown' = 0 /\ span' = 0
      BY <1>1, <2>3, InterruptLemma
    <3>2. QED  BY <2>1, <2>3, <3>1 DEF TimedInv
  <2>4. QED  BY <2>2, <2>3
<1>5. QED  BY <1>2, <1>3, <1>4

LEMMA ChargerStep ==
    ASSUME ButtonInv, ChargerInterrupt
    PROVE  ButtonInv'
<1> USE DEF ButtonInv
<1>1. /\ "chgin" \in Flags
      /\ PmicInterrupt("chgin")
  BY DEF ChargerInterrupt, Flags
<1>2. TypeOK'
  BY <1>1, InterruptLemma DEF ChargerInterrupt, TypeOK
<1>3. NoLostWakeup'
  BY <1>1, InterruptLemma DEF ChargerInterrupt, NoLostWakeup
<1>4. TimedInv'
  BY <1>1, InterruptLemma DEF ChargerInterrupt, TimedInv
<1>5. QED  BY <1>2, <1>3, <1>4

LEMMA ReleaseStep ==
    ASSUME ButtonInv, Release
    PROVE  ButtonInv'
<1> USE DEF ButtonInv
<1>1. TypeOK'
  <2>1. /\ UNCHANGED <<pc, uptime, waited, intFlags, sinceDown, held,
                       skipped, disturbed>>
        /\ button' \in BOOLEAN
    BY DEF Release, history
  <2>2. span' \in Ages /\ sem' \in 0..SemLimit
    BY Numbers DEF Release, Give, TypeOK
  <2>3. QED  BY <2>1, <2>2 DEF TypeOK
<1>2. NoLostWakeup'
  BY Numbers DEF Release, Give, history, TypeOK, NoLostWakeup
<1>3. TimedInv'
  BY Numbers DEF Release, history, TypeOK, Ages, TimedInv
<1>4. QED  BY <1>1, <1>2, <1>3

LEMMA ThreadStep ==
    ASSUME ButtonInv, PowerThread
    PROVE  ButtonInv'
<1> USE Numbers
    DEF ButtonInv, TypeOK, NoLostWakeup, TimedInv, history, Ages
<1>1. CASE ArmInterrupts
  BY <1>1 DEF ArmInterrupts
<1>2. CASE ThreadStart
  BY <1>2 DEF ThreadStart, ZeroTimeStamps
<1>3. CASE Wake
  BY <1>3 DEF Wake
<1>4. CASE TakeLock
  BY <1>4 DEF TakeLock
<1>5. CASE LockTimeout
  BY <1>5 DEF LockTimeout
<1>6. CASE ReadFlags
  BY <1>6 DEF ReadFlags
<1>7. CASE CheckButton
  <2>1. /\ UNCHANGED <<uptime, waited, sem, intFlags, button, held, disturbed>>
        /\ pc = "check" /\ skipped' = FALSE
    BY <1>7 DEF CheckButton
  <2>2. CASE span > Latency
    <3>1. pc' = "kill" /\ sinceDown' = uptime /\ span' = 0
      BY <1>7, <2>2 DEF CheckButton, ZeroTimeStamps
    <3>2. 0 \in Ages
      BY Numbers
    <3>3. ~disturbed => button = FALSE
      BY <2>2, Numbers
    <3>4. TypeOK'
      BY <2>1, <3>1, <3>2
    <3>5. NoLostWakeup'
      BY <3>1
    <3>6. TimedInv'
      BY <2>1, <3>1, <3>3, Numbers
    <3>7. QED  BY <3>4, <3>5, <3>6
  <2>3. CASE ~(span > Latency)
    <3>1. pc' = "wait" /\ UNCHANGED <<sinceDown, span>>
      BY <1>7, <2>3 DEF CheckButton
    <3>2. TypeOK'
      BY <2>1, <3>1
    <3>3. NoLostWakeup'
      BY <2>3, <3>1, Numbers
    <3>4. TimedInv'
      BY <2>1, <3>1
    <3>5. QED  BY <3>2, <3>3, <3>4
  <2>4. QED  BY <2>2, <2>3
<1>8. CASE Reboot
  <2>1. /\ pc' = "boot" /\ uptime' = 0 /\ waited' = 0 /\ sem' = 0
        /\ intFlags' = {} /\ sinceDown' = 0 /\ span' = 0 /\ skipped' = FALSE
        /\ disturbed' = button /\ button' = button
        /\ held' \in {held, 0}
    BY <1>8 DEF Reboot
  <2>2. 0 \in Ages /\ 0 \in 0..Period /\ 0 \in 0..SemLimit
    BY Numbers
  <2>3. TypeOK'
    BY <2>1, <2>2
  <2>4. NoLostWakeup' /\ TimedInv'
    BY <2>1, Numbers
  <2>5. QED  BY <2>3, <2>4
<1>9. QED
  BY <1>1, <1>2, <1>3, <1>4, <1>5, <1>6, <1>7, <1>8 DEF PowerThread

LEMMA TickStep ==
    ASSUME ButtonInv, Tick
    PROVE  ButtonInv'
<1> USE DEF ButtonInv
<1>1. /\ Older(uptime) \in Ages /\ Older(sinceDown) \in Ages
      /\ Older(held) \in Ages /\ held <= Older(held)
  BY OlderLemma DEF TypeOK
<1>2. TypeOK'
  BY <1>1, Numbers DEF Tick, TypeOK, history
<1>3. NoLostWakeup'
  BY DEF Tick, NoLostWakeup, history
<1>4. TimedInv'
  BY <1>1, Numbers DEF Tick, TimedInv, TypeOK, Ages, history
<1>5. QED  BY <1>2, <1>3, <1>4

LEMMA ButtonStep == ButtonInv /\ [Next]_vars => ButtonInv'
<1>1. ASSUME ButtonInv, UNCHANGED vars
      PROVE  ButtonInv'
  BY <1>1 DEF ButtonInv, TypeOK, NoLostWakeup, TimedInv, vars, history
<1>2. QED
  BY <1>1, PressStep, ChargerStep, ReleaseStep, ThreadStep, TickStep DEF Next

\* ButtonInv is inductive.
THEOREM ButtonInvariance == Spec => []ButtonInv
<1>1. QED  BY ButtonInit, ButtonStep, PTL DEF Spec

\* Types; the semaphore stays within its limit.
THEOREM ButtonTypeCorrect == Spec => []TypeOK
<1>1. ButtonInv => TypeOK
  BY DEF ButtonInv
<1>2. QED  BY <1>1, ButtonInvariance, PTL

\* The thread never sleeps on the release of a long press that it has not
\* looked at, unless its last iteration could not take the mutex
\* (thread_pwr.c:203, 215-219).
THEOREM ButtonNoLostWakeup == Spec => []NoLostWakeup
<1>1. ButtonInv => NoLostWakeup
  BY DEF ButtonInv
<1>2. QED  BY <1>1, ButtonInvariance, PTL

\* Only a press longer than the latency shuts the system down
\* (thread_pwr.c:178), unless something else moved its time stamps.
THEOREM ButtonOnlyLongPress == Spec => OnlyLongPressKills
<1>1. ButtonInv /\ [Next]_vars
        => [pc = "check" /\ pc' = "kill" => held > Latency \/ disturbed]_vars
  <2> SUFFICES ASSUME ButtonInv, Next, pc = "check", pc' = "kill"
               PROVE  held > Latency \/ disturbed
    BY DEF vars
  <2>1. CheckButton
    BY DEF Next, Press, Release, ChargerInterrupt, Tick, PowerThread,
       ArmInterrupts, ThreadStart, Wake, TakeLock, LockTimeout, ReadFlags,
       Reboot
  <2>2. span > Latency
    BY <2>1 DEF CheckButton
  <2>3. QED
    BY <2>2, Numbers DEF ButtonInv, TimedInv, TypeOK, Ages
<1>2. QED  BY <1>1, ButtonInvariance, PTL DEF Spec, OnlyLongPressKills
=============================================================================
