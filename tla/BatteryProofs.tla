----------------------------- MODULE BatteryProofs -----------------------------
(***************************************************************************)
(* Proofs about the battery's level, for any readings: what                *)
(* battery_perc_conversion computes for every voltage, and that the level  *)
(* a node shows is a mean of accepted measurements and lies on the charge  *)
(* curve, through failed rounds and restarts.                              *)
(***************************************************************************)
EXTENDS SensorNode, TLAPS

-----------------------------------------------------------------------------
(* The conversion.                                                         *)

\* perc_ref_points, point by point.
LEMMA PointsLemma ==
    /\ Points[1].mV = 4200 /\ Points[1].perc = 100
    /\ Points[2].mV = 4000 /\ Points[2].perc = 85
    /\ Points[3].mV = 3900 /\ Points[3].perc = 60
    /\ Points[4].mV = 3700 /\ Points[4].perc = 40
    /\ Points[5].mV = 3600 /\ Points[5].perc = 20
    /\ Points[6].mV = 3500 /\ Points[6].perc = 10
    /\ Points[7].mV = 3400 /\ Points[7].perc = 5
    /\ Points[8].mV = 3300 /\ Points[8].perc = 0
BY DEF Points

Segment(mV, i) == Points[i + 1].mV < mV /\ mV <= Points[i].mV

\* Every voltage between the first and the last point lies in a segment, ...
LEMMA SegmentLemma ==
    ASSUME NEW mV \in Nat, 3300 < mV, mV <= 4200
    PROVE  \E i \in 1..7 : Segment(mV, i)
<1> USE PointsLemma DEF Segment
<1>1. CASE mV > 4000  BY <1>1
<1>2. CASE 3900 < mV /\ mV <= 4000  BY <1>2
<1>3. CASE 3700 < mV /\ mV <= 3900  BY <1>3
<1>4. CASE 3600 < mV /\ mV <= 3700  BY <1>4
<1>5. CASE 3500 < mV /\ mV <= 3600  BY <1>5
<1>6. CASE 3400 < mV /\ mV <= 3500  BY <1>6
<1>7. CASE 3300 < mV /\ mV <= 3400  BY <1>7
<1>8. QED  BY <1>1, <1>2, <1>3, <1>4, <1>5, <1>6, <1>7

\* ... at whose lower end the loop stops.
LEMMA BelowLemma ==
    ASSUME NEW mV \in Nat, NEW i \in 1..7, Segment(mV, i)
    PROVE  Below(mV) = i + 1
<1> DEFINE Stops(k) == mV > Points[k].mV /\ \A j \in 2..(k - 1) : mV <= Points[j].mV
<1>1. \A j, k \in 1..8 : j <= k => Points[k].mV <= Points[j].mV
  BY PointsLemma
<1>2. \A k \in 1..8 : Points[k].mV \in Nat
  BY PointsLemma
<1>3. i + 1 \in 2..8 /\ Stops(i + 1)
  BY <1>1, <1>2 DEF Segment
<1>4. ASSUME NEW k \in 2..8, Stops(k) PROVE k = i + 1
  <2>1. CASE k < i + 1
    BY <1>1, <1>2, <1>4, <2>1 DEF Segment
  <2>2. CASE k > i + 1
    BY <1>2, <1>3, <1>4, <2>2
  <2>3. QED  BY <2>1, <2>2
<1> HIDE DEF Stops
<1>5. (CHOOSE k \in 2..8 : Stops(k)) = i + 1
  BY <1>3, <1>4
<1>6. QED  BY <1>5 DEF Below, Stops

\* The percentage of a voltage in segment i: the line through its ends.
LEMMA LineLemma ==
    ASSUME NEW mV \in Nat, NEW i \in 1..7, Segment(mV, i)
    PROVE  /\ BatteryPercConversion(mV)
                = Interpolate(mV, Points[i + 1], Points[i])
           /\ BatteryPercConversion(mV) \in Points[i + 1].perc..Points[i].perc
           /\ OnCurve(mV, BatteryPercConversion(mV))
<1>1. 3300 < mV /\ mV <= 4200
  BY PointsLemma DEF Segment
<1>2. BatteryPercConversion(mV) = Interpolate(mV, Points[i + 1], Points[i])
  BY <1>1, BelowLemma DEF BatteryPercConversion
<1> DEFINE lo == Points[i + 1]
           hi == Points[i]
           rise == (mV - lo.mV) * (hi.perc - lo.perc)
           p == Interpolate(mV, lo, hi)
<1>3. /\ p \in lo.perc..hi.perc
      /\ (p - lo.perc) * (hi.mV - lo.mV) <= rise
      /\ rise < (p + 1 - lo.perc) * (hi.mV - lo.mV)
  <2> USE PointsLemma DEF Segment, Interpolate
  <2>1. CASE i = 1  BY <2>1
  <2>2. CASE i = 2  BY <2>2
  <2>3. CASE i = 3  BY <2>3
  <2>4. CASE i = 4  BY <2>4
  <2>5. CASE i = 5  BY <2>5
  <2>6. CASE i = 6  BY <2>6
  <2>7. CASE i = 7  BY <2>7
  <2>8. QED  BY <2>1, <2>2, <2>3, <2>4, <2>5, <2>6, <2>7
<1>4. QED
  BY <1>2, <1>3 DEF OnCurve, Segment

\* For every voltage the percentage is that of the charge curve.
THEOREM OnCurveAlways ==
    \A mV \in Nat : OnCurve(mV, BatteryPercConversion(mV))
<1> SUFFICES ASSUME NEW mV \in Nat
             PROVE  OnCurve(mV, BatteryPercConversion(mV))
  OBVIOUS
<1>1. CASE mV > 4200 \/ mV <= 3300
  BY <1>1 DEF OnCurve, BatteryPercConversion
<1>2. CASE 3300 < mV /\ mV <= 4200
  BY <1>2, SegmentLemma, LineLemma
<1>3. QED  BY <1>1, <1>2

\* For every voltage the percentage is one, from 0 to 100.
THEOREM Percentage == \A mV \in Nat : BatteryPercConversion(mV) \in 0..100
<1> SUFFICES ASSUME NEW mV \in Nat
             PROVE  BatteryPercConversion(mV) \in 0..100
  OBVIOUS
<1>1. CASE mV > 4200 \/ mV <= 3300
  BY <1>1 DEF BatteryPercConversion
<1>2. CASE 3300 < mV /\ mV <= 4200
  <2>1. PICK i \in 1..7 : Segment(mV, i)
    BY <1>2, SegmentLemma
  <2>2. BatteryPercConversion(mV) \in Points[i + 1].perc..Points[i].perc
    BY <2>1, LineLemma
  <2>3. \A k \in 1..8 : Points[k].perc \in 0..100
    BY PointsLemma
  <2>4. Points[i].perc \in 0..100 /\ Points[i + 1].perc \in 0..100
    BY <2>3
  <2>5. QED  BY <2>2, <2>4
<1>3. QED  BY <1>1, <1>2

\* A higher voltage never gives a lower percentage.
THEOREM Monotone ==
    \A low, up \in Nat : low <= up =>
        BatteryPercConversion(low) <= BatteryPercConversion(up)
<1> SUFFICES ASSUME NEW low \in Nat, NEW up \in Nat, low <= up
             PROVE  BatteryPercConversion(low) <= BatteryPercConversion(up)
  OBVIOUS
<1>1. CASE low <= 3300
  BY <1>1, Percentage DEF BatteryPercConversion
<1>2. CASE up > 4200
  BY <1>2, Percentage DEF BatteryPercConversion
<1>3. CASE 3300 < low /\ up <= 4200
  <2>1. PICK i \in 1..7 : Segment(low, i)
    BY <1>3, SegmentLemma
  <2>2. PICK j \in 1..7 : Segment(up, j)
    BY <1>3, SegmentLemma
  <2>3. CASE i = j
    <3>1. /\ BatteryPercConversion(low)
                = Interpolate(low, Points[i + 1], Points[i])
          /\ BatteryPercConversion(up)
                = Interpolate(up, Points[i + 1], Points[i])
      BY <2>1, <2>2, <2>3, LineLemma
    <3>2. Interpolate(low, Points[i + 1], Points[i])
              <= Interpolate(up, Points[i + 1], Points[i])
      <4> USE PointsLemma, <2>1, <2>2, <2>3 DEF Segment, Interpolate
      <4>1. CASE i = 1  BY <4>1
      <4>2. CASE i = 2  BY <4>2
      <4>3. CASE i = 3  BY <4>3
      <4>4. CASE i = 4  BY <4>4
      <4>5. CASE i = 5  BY <4>5
      <4>6. CASE i = 6  BY <4>6
      <4>7. CASE i = 7  BY <4>7
      <4>8. QED  BY <4>1, <4>2, <4>3, <4>4, <4>5, <4>6, <4>7
    <3>3. QED  BY <3>1, <3>2
  <2>4. CASE i # j
    <3>1. /\ \A k \in 1..8 : Points[k].mV \in Nat /\ Points[k].perc \in Nat
          /\ \A k, l \in 1..8 : k <= l => /\ Points[l].mV <= Points[k].mV
                                          /\ Points[l].perc <= Points[k].perc
      BY PointsLemma
    <3>2. j + 1 <= i
      BY <2>1, <2>2, <2>4, <3>1 DEF Segment
    <3>3. /\ BatteryPercConversion(low) <= Points[i].perc
          /\ Points[j + 1].perc <= BatteryPercConversion(up)
          /\ BatteryPercConversion(low) \in Nat
          /\ BatteryPercConversion(up) \in Nat
      BY <2>1, <2>2, <3>1, LineLemma
    <3>4. Points[i].perc <= Points[j + 1].perc
      BY <3>1, <3>2
    <3>5. QED  BY <3>1, <3>3, <3>4
  <2>5. QED  BY <2>3, <2>4
<1>4. QED  BY <1>1, <1>2, <1>3

-----------------------------------------------------------------------------
(* The stored level.                                                       *)

BatteryTypes ==
    /\ check \in {"idle", "measure", "mV", "perc"}
    /\ sample \in 0..3 /\ measurements \in 0..sample
    /\ sum \in Nat
    /\ accepted \subseteq Nat /\ basis \subseteq Nat
    /\ batteryMv \in Nat /\ batteryPerc \in Nat

\* The sum of a round lies between what its least and its greatest accepted
\* measurement alone would give.
RoundInv ==
    /\ \A r \in accepted : r > 100
    /\ measurements > 0 =>
          /\ \E r \in accepted : r * measurements <= sum
          /\ \E r \in accepted : sum <= r * measurements
    /\ measurements = 0 => sum = 0

BatteryInv == /\ BatteryTypes
              /\ RoundInv
              /\ LevelConsistent
              /\ MeanOfAccepted

\* Of the steps of a node, only those of check_battery and restarts touch
\* the battery's level.
LEMMA BatterySteps ==
    [Next]_vars => \/ UNCHANGED batteryVars
                   \/ CheckBegins
                   \/ CheckBattery
                   \/ BatteryRestart
BY DEF Next, vars, MainStartsBluetooth, FirstCheck, ThreadChecks, CheckGoesOn,
       ThreadKills, AllDown

LEMMA ZeroLemma == OnCurve(0, 0)
BY DEF OnCurve

LEMMA MeasureStep ==
    ASSUME BatteryInv, MeasureBattery
    PROVE  BatteryInv'
<1> USE DEF BatteryInv, BatteryTypes
<1>1. CASE UNCHANGED roundVars
  BY <1>1 DEF MeasureBattery, roundVars, RoundInv, LevelConsistent,
     MeanOfAccepted
<1>2. ASSUME NEW r \in Readings,
             sample' = sample + 1,
             IF Accepted(r)
             THEN /\ sum' = sum + r
                  /\ measurements' = measurements + 1
                  /\ accepted' = accepted \cup {r}
             ELSE UNCHANGED <<sum, measurements, accepted>>
      PROVE  BatteryInv'
  <2>1. /\ check = "measure" /\ sample < 3 /\ check' \in {"measure", "idle"}
        /\ UNCHANGED <<basis, batteryMv, batteryPerc>>
    BY DEF MeasureBattery
  <2>2. r \in Nat
    BY ReadingsAssumption
  <2>3. CASE ~Accepted(r)
    <3>1. UNCHANGED <<sum, measurements, accepted>>
      BY <1>2, <2>3
    <3>2. sample' = sample + 1 /\ sample' \in 0..3
      BY <1>2, <2>1
    <3>3. BatteryTypes'
      BY <2>1, <3>1, <3>2
    <3>4. RoundInv'
      BY <3>1 DEF RoundInv
    <3>5. LevelConsistent' /\ MeanOfAccepted'
      BY <2>1 DEF LevelConsistent, MeanOfAccepted
    <3>6. QED  BY <3>3, <3>4, <3>5
  <2>4. CASE Accepted(r)
    <3>1. /\ sum' = sum + r /\ measurements' = measurements + 1
          /\ accepted' = accepted \cup {r}
      BY <1>2, <2>4
    <3>2. RoundInv'
      <4>1. \A q \in accepted' : q > 100
        BY <2>2, <2>4, <3>1 DEF RoundInv, Accepted
      <4>2. CASE measurements = 0
        BY <2>2, <3>1, <4>1, <4>2 DEF RoundInv
      <4>3. CASE measurements > 0
        <5>1. PICK low \in accepted : low * measurements <= sum
          BY <4>3 DEF RoundInv
        <5>2. PICK up \in accepted : sum <= up * measurements
          BY <4>3 DEF RoundInv
        <5>3. low * (measurements + 1) = low * measurements + low
          BY <5>1
        <5>4. up * (measurements + 1) = up * measurements + up
          BY <5>2
        <5>5. \E q \in accepted' : q * measurements' <= sum'
          <6>1. CASE low <= r
            BY <2>2, <3>1, <5>1, <5>3, <6>1
          <6>2. CASE r < low
            <7>1. r * (measurements + 1) <= low * measurements + r
              <8>1. r * (measurements + 1) = r * measurements + r
                BY <2>2
              <8>2. r * measurements <= low * measurements
                BY <2>2, <5>1, <6>2
              <8>3. QED  BY <2>2, <5>1, <8>1, <8>2
            <7>2. QED  BY <2>2, <3>1, <5>1, <7>1
          <6>3. QED  BY <2>2, <6>1, <6>2
        <5>6. \E q \in accepted' : sum' <= q * measurements'
          <6>1. CASE r <= up
            BY <2>2, <3>1, <5>2, <5>4, <6>1
          <6>2. CASE up < r
            <7>1. up * measurements + r <= r * (measurements + 1)
              <8>1. r * (measurements + 1) = r * measurements + r
                BY <2>2
              <8>2. up * measurements <= r * measurements
                BY <2>2, <5>2, <6>2
              <8>3. QED  BY <2>2, <5>2, <8>1, <8>2
            <7>2. QED  BY <2>2, <3>1, <5>2, <7>1
          <6>3. QED  BY <2>2, <6>1, <6>2
        <5>7. measurements' > 0
          BY <3>1, <4>3
        <5>8. accepted' # {}
          BY <3>1
        <5>9. QED  BY <4>1, <5>5, <5>6, <5>7, <5>8 DEF RoundInv
      <4>4. QED  BY <4>2, <4>3
    <3>3. BatteryTypes'
      BY <2>1, <2>2, <3>1, <1>2 DEF RoundInv
    <3>4. QED  BY <2>1, <3>2, <3>3 DEF LevelConsistent, MeanOfAccepted
  <2>5. QED  BY <2>3, <2>4
<1>3. QED  BY <1>1, <1>2 DEF MeasureBattery

\* The mean of a round that accepted something.
LEMMA MeanLemma ==
    ASSUME NEW m \in 1..3, NEW s \in Nat, NEW low \in Nat, NEW up \in Nat,
           low * m <= s, s <= up * m
    PROVE  s \div m \in Nat /\ low <= s \div m /\ s \div m <= up
<1>1. CASE m = 1  BY <1>1
<1>2. CASE m = 2  BY <1>2
<1>3. CASE m = 3  BY <1>3
<1>4. QED  BY <1>1, <1>2, <1>3

LEMMA StoreMvStep ==
    ASSUME BatteryInv, StoreMv
    PROVE  BatteryInv'
<1> USE DEF BatteryInv, BatteryTypes
<1>1. check = "measure" /\ sample = 3 /\ UNCHANGED <<roundVars, batteryPerc>>
  BY DEF StoreMv
<1>2. CASE measurements = 0
  <2>1. check' = "idle" /\ UNCHANGED <<basis, batteryMv>>
    BY <1>2 DEF StoreMv
  <2>2. QED
    BY <1>1, <2>1 DEF roundVars, RoundInv, LevelConsistent, MeanOfAccepted
<1>3. CASE measurements > 0
  <2>1. /\ batteryMv' = sum \div measurements
        /\ basis' = accepted /\ check' = "perc"
    BY <1>3 DEF StoreMv
  <2>2. PICK low \in accepted : low * measurements <= sum
    BY <1>3 DEF RoundInv
  <2>3. PICK up \in accepted : sum <= up * measurements
    BY <1>3 DEF RoundInv
  <2>4. measurements \in 1..3 /\ low \in Nat /\ up \in Nat
    BY <1>1, <1>3
  <2>5. /\ batteryMv' \in Nat
        /\ low <= batteryMv' /\ batteryMv' <= up
    BY <2>1, <2>2, <2>3, <2>4, MeanLemma
  <2>6. low > 100
    BY DEF RoundInv
  <2>7. MeanOfAccepted'
    BY <2>1, <2>4, <2>5, <2>6 DEF MeanOfAccepted
  <2>8. BatteryTypes' /\ RoundInv' /\ LevelConsistent'
    BY <1>1, <2>1, <2>5 DEF roundVars, RoundInv, LevelConsistent
  <2>9. QED  BY <2>7, <2>8
<1>4. QED  BY <1>2, <1>3

LEMMA StorePercStep ==
    ASSUME BatteryInv, StorePerc
    PROVE  BatteryInv'
<1> USE DEF BatteryInv, BatteryTypes
<1>1. /\ check' = "idle" /\ batteryPerc' = BatteryPercConversion(batteryMv)
      /\ UNCHANGED <<roundVars, basis, batteryMv>>
  BY DEF StorePerc
<1>2. batteryPerc' \in Nat
  BY <1>1, Percentage
<1>3. LevelConsistent'
  BY <1>1, OnCurveAlways DEF LevelConsistent
<1>4. QED
  BY <1>1, <1>2, <1>3 DEF roundVars, RoundInv, MeanOfAccepted

\* The invariant of the measurements: it holds of whatever the rest of the
\* node does.
THEOREM BatteryInvariance == Spec => []BatteryInv
<1>1. Init => BatteryInv
  BY ZeroLemma DEF Init, BatteryZero, BatteryInv, BatteryTypes, RoundInv,
     LevelConsistent, MeanOfAccepted
<1>2. BatteryInv /\ [Next]_vars => BatteryInv'
  <2> SUFFICES ASSUME BatteryInv, [Next]_vars PROVE BatteryInv'
    OBVIOUS
  <2> USE DEF BatteryInv, BatteryTypes
  <2>1. CASE UNCHANGED batteryVars
    BY <2>1 DEF batteryVars, roundVars, RoundInv, LevelConsistent,
       MeanOfAccepted
  <2>2. CASE CheckBegins
    BY <2>2 DEF CheckBegins, RoundInv, LevelConsistent, MeanOfAccepted
  <2>3. CASE CheckBattery
    BY <2>3, MeasureStep, StoreMvStep, StorePercStep DEF CheckBattery
  <2>4. CASE BatteryRestart
    BY <2>4, ZeroLemma DEF BatteryRestart, RoundInv, LevelConsistent,
       MeanOfAccepted
  <2>5. QED  BY <2>1, <2>2, <2>3, <2>4, BatterySteps
<1>3. QED  BY <1>1, <1>2, PTL DEF Spec

\* Voltage and percentage belong together whenever they are not being stored.
THEOREM NodeLevelConsistent == Spec => []LevelConsistent
BY BatteryInvariance, PTL DEF BatteryInv

\* The stored voltage is a mean of accepted measurements of one round.
THEOREM NodeMeanOfAccepted == Spec => []MeanOfAccepted
BY BatteryInvariance, PTL DEF BatteryInv
=============================================================================
