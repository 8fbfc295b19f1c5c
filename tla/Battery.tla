-------------------------------- MODULE Battery --------------------------------
(***************************************************************************)
(* The battery's level (thread_pwr.c): check_battery takes three           *)
(* measurements, drops those that are no battery, and stores the mean and  *)
(* the percentage, one after the other, for readers in other threads.      *)
(***************************************************************************)
EXTENDS Integers, Sequences

CONSTANT Readings   \* what max77654_measure may deliver, in mV

ASSUME ReadingsAssumption == Readings \subseteq Nat

VARIABLES
    check,     \* check_battery: "idle", "measure", "mV", "perc"
    sample,    \* measurements made in this round
    sum, measurements, \* of those accepted
    accepted,  \* history: their values, ...
    basis,     \* ... and those of the round that battery_mV is of
    batteryMv, batteryPerc

roundVars == <<sample, sum, measurements, accepted>>
batteryVars == <<check, roundVars, basis, batteryMv, batteryPerc>>

-----------------------------------------------------------------------------
(* battery_perc_conversion.                                                *)

\* perc_ref_points.
Points == << [mV |-> 4200, perc |-> 100], [mV |-> 4000, perc |-> 85],
             [mV |-> 3900, perc |-> 60],  [mV |-> 3700, perc |-> 40],
             [mV |-> 3600, perc |-> 20],  [mV |-> 3500, perc |-> 10],
             [mV |-> 3400, perc |-> 5],   [mV |-> 3300, perc |-> 0] >>

\* The first point below the reading, which ends the loop.
Below(mV) == CHOOSE i \in 2..8 :
    mV > Points[i].mV /\ \A j \in 2..(i - 1) : mV <= Points[j].mV

Interpolate(mV, lo, hi) ==
    lo.perc + ((mV - lo.mV) * (hi.perc - lo.perc)) \div (hi.mV - lo.mV)

\* Mutant: the division comes before the multiplication.
PercDividesFirst(mV) ==
    IF mV > 4200 THEN 100
    ELSE IF mV <= 3300 THEN 0
    ELSE LET lo == Points[Below(mV)]
             hi == Points[Below(mV) - 1]
         IN  lo.perc + ((mV - lo.mV) \div (hi.mV - lo.mV)) * (hi.perc - lo.perc)

BatteryPercConversion(mV) ==
    IF mV > 4200 THEN 100
    ELSE IF mV <= 3300 THEN 0
    ELSE Interpolate(mV, Points[Below(mV)], Points[Below(mV) - 1])

-----------------------------------------------------------------------------
(* check_battery.                                                          *)

CheckBegins ==
    /\ check = "idle"
    /\ check' = "measure"
    /\ sample' = 0 /\ sum' = 0 /\ measurements' = 0 /\ accepted' = {}
    /\ UNCHANGED <<basis, batteryMv, batteryPerc>>

Accepted(r) == r > 100

\* A measurement, or an error that ends the round.
MeasureBattery ==
    /\ check = "measure" /\ sample < 3
    /\ \/ \E r \in Readings :
             /\ sample' = sample + 1
             /\ IF Accepted(r)
                THEN /\ sum' = sum + r
                     /\ measurements' = measurements + 1
                     /\ accepted' = accepted \cup {r}
                ELSE UNCHANGED <<sum, measurements, accepted>>
             /\ check' = check
       \/ check' = "idle" /\ UNCHANGED roundVars
    /\ UNCHANGED <<basis, batteryMv, batteryPerc>>

\* Mutant: the sum is divided by the number of samples.
StoreMvOfAll ==
    /\ check = "measure" /\ sample = 3
    /\ IF measurements = 0
       THEN check' = "idle" /\ UNCHANGED <<basis, batteryMv>>
       ELSE /\ batteryMv' = sum \div sample
            /\ basis' = accepted
            /\ check' = "perc"
    /\ UNCHANGED <<roundVars, batteryPerc>>

\* atomic_set(&battery_mV, ...), unless no measurement was accepted.
StoreMv ==
    /\ check = "measure" /\ sample = 3
    /\ IF measurements = 0
       THEN check' = "idle" /\ UNCHANGED <<basis, batteryMv>>
       ELSE /\ batteryMv' = sum \div measurements
            /\ basis' = accepted
            /\ check' = "perc"
    /\ UNCHANGED <<roundVars, batteryPerc>>

\* atomic_set(&battery_perc, ...).
StorePerc ==
    /\ check = "perc"
    /\ batteryPerc' = BatteryPercConversion(batteryMv)
    /\ check' = "idle"
    /\ UNCHANGED <<roundVars, basis, batteryMv>>

BatteryZero ==
    /\ check = "idle"
    /\ sample = 0 /\ sum = 0 /\ measurements = 0 /\ accepted = {}
    /\ basis = {} /\ batteryMv = 0 /\ batteryPerc = 0

\* The processor restarts.
BatteryRestart ==
    /\ check' = "idle"
    /\ sample' = 0 /\ sum' = 0 /\ measurements' = 0 /\ accepted' = {}
    /\ basis' = {} /\ batteryMv' = 0 /\ batteryPerc' = 0

CheckBattery == MeasureBattery \/ StoreMv \/ StorePerc

-----------------------------------------------------------------------------
(* Properties.                                                             *)

\* The percentage p is the charge curve at mV, rounded down: the reference
\* to which battery_perc_conversion is compared, without dividing.
OnCurve(mV, p) ==
    \/ mV > 4200 /\ p = 100
    \/ mV <= 3300 /\ p = 0
    \/ \E i \in 1..7 :
          LET hi == Points[i]
              lo == Points[i + 1]
              rise == (mV - lo.mV) * (hi.perc - lo.perc)
          IN  /\ lo.mV < mV /\ mV <= hi.mV
              /\ (p - lo.perc) * (hi.mV - lo.mV) <= rise
              /\ rise < (p + 1 - lo.perc) * (hi.mV - lo.mV)

\* The two values a reader finds belong together, and to the charge curve,
\* except between the two stores: a round that fails leaves both.
LevelConsistent == check # "perc" => OnCurve(batteryMv, batteryPerc)

\* The stored voltage is a mean of accepted measurements of one round: it
\* lies between two of them, and no reading of a disconnected ADC, an aborted
\* round or an earlier one shows in it.
MeanOfAccepted ==
    basis # {} => /\ \E r \in basis : r <= batteryMv
                  /\ \E r \in basis : batteryMv <= r
                  /\ batteryMv > 100
=============================================================================
