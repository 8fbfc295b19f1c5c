------------------------------- MODULE LedProofs -------------------------------
(***************************************************************************)
(* Theorems about the LED driver under the programs of LedTest, for any    *)
(* number of failed transfers and restarts: colours are shown whole, a     *)
(* device that is ready has the limits of its configuration, and the debug *)
(* board's pattern leaves its LEDs dark.                                   *)
(*                                                                         *)
(* A LED of three channels is shown whole because a call stages all of     *)
(* them before its update (PendingInv), whatever a failed call left        *)
(* staged.  Of three LEDs of one channel an update shows all, so what is   *)
(* staged must itself be allowed (WholeInv).                               *)
(*                                                                         *)
(* The other two each have an invariant beside that one: LimitsInv of the  *)
(* limits in the chip and DarkInv of where the pattern is.                 *)
(***************************************************************************)
EXTENDS LedTest, SequenceTheorems, TLAPS

\* The chips and the histories are functions of their devices and LEDs.
ShapeInv ==
    /\ DOMAIN chip = Devices /\ DOMAIN allowed = Devices
    /\ dev \in Devices /\ ready \subseteq Devices
    /\ \A d \in Devices :
          /\ DOMAIN chip[d] = {"staged", "shown", "current", "enabled"}
          /\ DOMAIN chip[d].staged = Channel
          /\ DOMAIN allowed[d] = 0..2

\* A device is ready, or being initialised, only if its configuration was
\* accepted.
ConfigInv == ready # {} \/ todo # <<>> => CheckConfig

Allowed(d, l, level) == allowed[d][l] # {} => level \in allowed[d][l]

\* The colour of a LED whose three channels have these levels.
Color(levels) ==
    [k \in Channel |-> levels[CHOOSE i \in Channel : config.leds[1][i] = Rgb[k]]]

\* What is shown was asked for, and with a LED on each channel also what is
\* staged.
WholeInv ==
    CheckConfig => \A d \in Devices :
        IF NumLeds = 1 THEN Allowed(d, 0, Color(chip[d].shown))
        ELSE \A l \in 0..2 : /\ Allowed(d, l, <<chip[d].shown[l + 1]>>)
                             /\ Allowed(d, l, <<chip[d].staged[l + 1]>>)

ReadId == [reg |-> "id", channel |-> 0, value |-> 0]
SetLimits == [reg |-> "current", channel |-> 0, value |-> CurrentReg]
Enable == [reg |-> "conf", channel |-> 0, value |-> 1]
Initialising(n) ==
    \/ n = 1 /\ todo = <<ReadId, SetLimits, Enable>>
    \/ n = 2 /\ todo = <<SetLimits, Enable>>
    \/ n = 3 /\ todo = <<Enable>>

\* A call of set_color has n - 1 of its transfers behind it: the channels
\* before n have their components staged.
ColorOut(i) == Out(i, Component(target.level, i))
Coloring(n) ==
    /\ NumLeds = 1 /\ target.led = 0
    /\ target.level \in [Channel -> Int]
    /\ Allowed(dev, 0, target.level)
    /\ \/ n = 1 /\ todo = <<ColorOut(1), ColorOut(2), ColorOut(3), Update>>
       \/ n = 2 /\ todo = <<ColorOut(2), ColorOut(3), Update>>
       \/ n = 3 /\ todo = <<ColorOut(3), Update>>
       \/ n = 4 /\ todo = <<Update>>
    /\ \A i \in Channel : i < n => chip[dev].staged[i] = Component(target.level, i)

\* A call of set_brightness.
Dimming(n) ==
    /\ NumLeds = 3 /\ target.led \in 0..2
    /\ Allowed(dev, target.led, target.level)
    /\ \E level : /\ target.level = <<level>>
                  /\ \/ n = 1 /\ todo = <<Out(target.led + 1, level), Update>>
                     \/ /\ n = 2 /\ todo = <<Update>>
                        /\ chip[dev].staged[target.led + 1] = level

PendingInv ==
    todo # <<>> =>
        \/ \E n \in 1..4 : Coloring(n)
        \/ \E n \in 1..2 : Dimming(n)
        \/ \E n \in 1..3 : Initialising(n)

DriverInv == ShapeInv /\ ConfigInv /\ WholeInv /\ PendingInv

\* Where main() uses the LEDs a device is ready; GAP9 writes only while
\* main() sleeps.
PlaceInv ==
    /\ pc \notin {"init", "init2", "power", "returned"} => led \in ready
    /\ pc \in {"pattern", "pattern2", "buttons", "button2", "outputs", "toggle",
               "wait", "again"} => ledDebug \in ready
    /\ idx \in 0..9
    /\ gap9 # "off" => pc = "sleep" /\ todo = <<>>

LedInv == DriverInv /\ PlaceInv

-----------------------------------------------------------------------------
(* Configurations, colours and lists of transfers.                         *)

LEMMA RgbLemma == Rgb[1] = "red" /\ Rgb[2] = "green" /\ Rgb[3] = "blue"
BY DEF Rgb

\* A configuration that passed the check.
LEMMA CheckedLemma ==
    ASSUME CheckConfig
    PROVE  \/ NumLeds = 1 /\ Len(config.leds[1]) = 3
           \/ NumLeds = 3 /\ \A i \in Channel : Len(config.leds[i]) = 1
BY DEF CheckConfig

\* Each colour is on one channel.
LEMMA PermutationLemma ==
    ASSUME CheckConfig, NumLeds = 1, NEW k \in Channel,
           NEW color \in [Channel -> Int]
    PROVE  LET i == CHOOSE i \in Channel : config.leds[1][i] = Rgb[k]
           IN  i \in Channel /\ Component(color, i) = color[k]
<1> DEFINE leds == config.leds[1]
<1>1. \A i \in Channel : CountsOne(leds, i)
  BY DEF CheckConfig
<1> HIDE DEF leds
<1>2. /\ leds[1] \in {"red", "green", "blue"}
      /\ leds[2] \in {"red", "green", "blue"} \ {leds[1]}
      /\ leds[3] \in {"red", "green", "blue"} \ {leds[1], leds[2]}
  <2>1. \A i \in Channel : leds[i] \in {"red", "green", "blue"}
    BY <1>1, RgbLemma DEF CountsOne, Channel
  <2>2. leds[1] # leds[2] /\ leds[1] # leds[3] /\ leds[2] # leds[3]
    BY <1>1 DEF CountsOne, Channel
  <2>3. QED  BY <2>1, <2>2 DEF Channel
<1>3. Rgb[k] \in {"red", "green", "blue"}
  BY RgbLemma DEF Channel
<1>4. \E i \in Channel : leds[i] = Rgb[k]
  BY <1>2, <1>3 DEF Channel
<1> DEFINE i == CHOOSE i \in Channel : leds[i] = Rgb[k]
<1>5. i \in Channel /\ leds[i] = Rgb[k]
  BY <1>4
<1> HIDE DEF i
<1>6. \A j \in Channel : leds[i] = Rgb[j] => j = k
  <2>1. "red" # "green" /\ "red" # "blue" /\ "green" # "blue"
    OBVIOUS
  <2>2. \A j \in Channel : Rgb[j] = Rgb[k] => j = k
    <3>1. \A j \in Channel : j = 1 \/ j = 2 \/ j = 3
      BY DEF Channel
    <3>2. k = 1 \/ k = 2 \/ k = 3
      BY DEF Channel
    <3>3. QED  BY <2>1, <3>1, <3>2, RgbLemma, Zenon
  <2>3. QED  BY <1>5, <2>2
<1>7. (CHOOSE j \in Channel : leds[i] = Rgb[j]) = k
  BY <1>5, <1>6
<1>8. Component(color, i) = color[k]
  BY <1>7 DEF Component, leds
<1>9. QED  BY <1>5, <1>8 DEF i, leds

\* The list of set_color.
LEMMA ConcatLemma ==
    ASSUME NEW S, NEW w \in [Channel -> S], NEW u \in S
    PROVE  w \o <<u>> = <<w[1], w[2], w[3], u>>
<1>1. w \in Seq(S) /\ Len(w) = 3
  <2>1. w = [i \in 1..3 |-> w[i]] /\ \A i \in 1..3 : w[i] \in S
    BY DEF Channel
  <2>2. [i \in 1..3 |-> w[i]] \in Seq(S) /\ Len([i \in 1..3 |-> w[i]]) = 3
    BY <2>1
  <2>3. QED  BY <2>1, <2>2
<1>2. <<u>> \in Seq(S) /\ Len(<<u>>) = 1 /\ <<u>>[1] = u
  OBVIOUS
<1>3. /\ w \o <<u>> \in Seq(S) /\ Len(w \o <<u>>) = 4
      /\ \A i \in 1..4 : (w \o <<u>>)[i] = IF i <= 3 THEN w[i] ELSE <<u>>[i - 3]
  <2> DEFINE v == <<u>>
  <2>1. v \in Seq(S) /\ Len(v) = 1
    BY <1>2
  <2> HIDE DEF v
  <2>2. /\ w \o v \in Seq(S) /\ Len(w \o v) = Len(w) + Len(v)
        /\ \A i \in 1..(Len(w) + Len(v)) :
              (w \o v)[i] = IF i <= Len(w) THEN w[i] ELSE v[i - Len(w)]
    BY <1>1, <2>1, ConcatProperties
  <2>3. Len(w) + Len(v) = 4
    BY <1>1, <2>1
  <2>4. QED  BY <1>1, <2>2, <2>3 DEF v
<1> DEFINE t == <<w[1], w[2], w[3], u>>
<1>4. t \in Seq(S) /\ Len(t) = 4
  <2>1. w[1] \in S /\ w[2] \in S /\ w[3] \in S
    BY DEF Channel
  <2>2. QED  BY <2>1
<1>5. \A i \in 1..4 : (w \o <<u>>)[i] = t[i]
  <2> TAKE i \in 1..4
  <2>1. i <= 3 \/ i = 4
    OBVIOUS
  <2>2. CASE i <= 3
    BY <1>3, <2>2
  <2>3. CASE i = 4
    BY <1>2, <1>3, <2>3
  <2>4. QED  BY <2>1, <2>2, <2>3
<1> DEFINE s == w \o <<u>>
<1>6. s \in Seq(S) /\ Len(s) = Len(t) /\ \A i \in 1..Len(s) : s[i] = t[i]
  BY <1>3, <1>4, <1>5
<1> HIDE DEF s, t
<1>7. s = t
  BY <1>4, <1>6, SeqEqual
<1>8. QED  BY <1>7 DEF s, t

-----------------------------------------------------------------------------
(* The steps of the driver.                                                *)

LEMMA ConfigLemma ==
    ASSUME config' = config
    PROVE  /\ CheckConfig' = CheckConfig /\ NumLeds' = NumLeds
           /\ SetLimits' = SetLimits
           /\ \A color, i : Component(color, i)' = Component(color, i)
           /\ \A levels : Color(levels)' = Color(levels)
<1>1. NumLeds' = NumLeds
  BY DEF NumLeds
<1>2. CheckConfig' = CheckConfig
  BY <1>1 DEF CheckConfig, CountsOne
<1>3. SetLimits' = SetLimits
  BY DEF SetLimits, CurrentReg
<1>4. \A color, i : Component(color, i)' = Component(color, i)
  BY DEF Component
<1>5. \A levels : Color(levels)' = Color(levels)
  BY DEF Color
<1>6. QED  BY <1>1, <1>2, <1>3, <1>4, <1>5

LEMMA DriverStutters == DriverInv /\ UNCHANGED ledVars => DriverInv'
<1> SUFFICES ASSUME DriverInv, UNCHANGED ledVars  PROVE DriverInv'
  OBVIOUS
<1> USE DEF ledVars
<1>1. ShapeInv'
  BY DEF DriverInv, ShapeInv
<1>2. ConfigInv'
  BY ConfigLemma DEF DriverInv, ConfigInv
<1>3. WholeInv'
  BY ConfigLemma DEF DriverInv, WholeInv, Allowed
<1>4. PendingInv'
  BY ConfigLemma DEF DriverInv, PendingInv, Coloring, Dimming, Initialising,
     ColorOut, Allowed
<1>5. QED  BY <1>1, <1>2, <1>3, <1>4 DEF DriverInv

LEMMA RefusedCall ==
    ASSUME DriverInv, NEW d \in Devices, NEW err, Refuse(d, err)
    PROVE  DriverInv'
<1> USE DEF Refuse
<1>1. ShapeInv'
  BY DEF DriverInv, ShapeInv
<1>2. ConfigInv'
  BY ConfigLemma DEF DriverInv, ConfigInv
<1>3. WholeInv'
  BY ConfigLemma DEF DriverInv, WholeInv, Allowed
<1>4. PendingInv'
  BY DEF PendingInv
<1>5. QED  BY <1>1, <1>2, <1>3, <1>4 DEF DriverInv

\* A call adds a level to what its LED is allowed to show, and writes nothing.
LEMMA IssuedCall ==
    ASSUME DriverInv, CheckConfig, NEW d \in Devices, NEW l \in 0..2,
           NEW level, NEW writes, Issue(d, l, level, writes)
    PROVE  /\ ShapeInv' /\ ConfigInv' /\ WholeInv'
           /\ dev' = d /\ todo' = writes /\ chip' = chip /\ ready' = ready
           /\ config' = config
           /\ target' = [led |-> l, level |-> level]
           /\ allowed'[d][l] # {} => level \in allowed'[d][l]
<1> USE DEF Issue
<1>1. ShapeInv
  BY DEF DriverInv
<1>2. /\ DOMAIN allowed' = Devices
      /\ \A e \in Devices : DOMAIN allowed'[e] = DOMAIN allowed[e]
  BY <1>1 DEF ShapeInv
<1>3. \A e \in Devices, k \in 0..2 :
          allowed'[e][k] = IF e = d /\ k = l /\ allowed[e][k] # {}
                           THEN allowed[e][k] \cup {level} ELSE allowed[e][k]
  BY <1>1 DEF ShapeInv
<1>4. ShapeInv'
  BY <1>1, <1>2 DEF ShapeInv
<1>5. ConfigInv'
  BY ConfigLemma DEF ConfigInv
<1>6. \A v : \A e \in Devices, k \in 0..2 :
          Allowed(e, k, v) => Allowed(e, k, v)'
  BY <1>3 DEF Allowed
<1>7. WholeInv'
  BY <1>6, ConfigLemma DEF DriverInv, WholeInv
<1>8. allowed'[d][l] # {} => level \in allowed'[d][l]
  <2>1. allowed'[d][l] = IF allowed[d][l] # {} THEN allowed[d][l] \cup {level}
                         ELSE allowed[d][l]
    BY <1>3
  <2> HIDE DEF Issue
  <2>2. QED  BY <2>1
<1>9. /\ dev' = d /\ todo' = writes /\ chip' = chip /\ ready' = ready
      /\ config' = config /\ target' = [led |-> l, level |-> level]
  OBVIOUS
<1>10. QED  BY <1>4, <1>5, <1>7, <1>8, <1>9

LEMMA SetColorStep ==
    ASSUME DriverInv, CheckConfig, NEW d \in Devices, NEW l \in Nat, NEW num,
           NEW color \in [Channel -> Int], SetColor(d, l, num, color)
    PROVE  DriverInv' /\ ready' = ready
<1>1. CASE \E err : Refuse(d, err)
  BY <1>1, RefusedCall DEF Refuse
<1>2. CASE /\ l < NumLeds /\ Len(config.leds[l + 1]) = 3
           /\ Issue(d, 0, color, [i \in Channel |-> Out(i, Component(color, i))]
                                    \o <<Update>>)
  <2>1. NumLeds = 1
    BY <1>2, CheckedLemma DEF Channel
  <2> DEFINE writes == [i \in Channel |-> Out(i, Component(color, i))]
             S == {writes[i] : i \in Channel} \cup {Update}
  <2>2. writes \in [Channel -> S] /\ Update \in S
    OBVIOUS
  <2>3. writes \o <<Update>> = <<writes[1], writes[2], writes[3], Update>>
    BY <2>2, ConcatLemma
  <2>4. /\ writes[1] = Out(1, Component(color, 1))
        /\ writes[2] = Out(2, Component(color, 2))
        /\ writes[3] = Out(3, Component(color, 3))
    BY DEF Channel
  <2>5. todo' = <<Out(1, Component(color, 1)), Out(2, Component(color, 2)),
                  Out(3, Component(color, 3)), Update>>
    BY <1>2, <2>3, <2>4 DEF Issue
  <2>6. /\ ShapeInv' /\ ConfigInv' /\ WholeInv' /\ dev' = d
        /\ config' = config /\ target' = [led |-> 0, level |-> color]
        /\ allowed'[d][0] # {} => color \in allowed'[d][0]
    BY <1>2, IssuedCall
  <2>7. Coloring(1)'
    <3>1. target'.led = 0 /\ target'.level = color
      BY <2>6
    <3>2. \A i : ColorOut(i)' = Out(i, Component(color, i))
      BY <2>6, <3>1, ConfigLemma DEF ColorOut
    <3>3. \A i \in Channel : ~(i < 1)
      BY DEF Channel
    <3>4. QED  BY <2>1, <2>5, <2>6, <3>1, <3>2, <3>3, ConfigLemma
               DEF Coloring, Allowed
  <2>8. PendingInv'
    BY <2>7 DEF PendingInv
  <2>9. QED  BY <1>2, <2>6, <2>8 DEF DriverInv, Issue
<1>3. QED  BY <1>1, <1>2 DEF SetColor

LEMMA SetBrightnessStep ==
    ASSUME DriverInv, CheckConfig, NEW d \in Devices, NEW l \in Nat, NEW value,
           SetBrightness(d, l, value)
    PROVE  DriverInv' /\ ready' = ready
<1>1. CASE \E err : Refuse(d, err)
  BY <1>1, RefusedCall DEF Refuse
<1> DEFINE level == Rescale(value)
<1>2. CASE /\ l < NumLeds /\ Len(config.leds[l + 1]) = 1
           /\ Issue(d, l, <<level>>, <<Out(l + 1, level), Update>>)
  <2> HIDE DEF level
  <2>1. NumLeds = 3 /\ l \in 0..2
    BY <1>2, CheckedLemma
  <2>2. /\ ShapeInv' /\ ConfigInv' /\ WholeInv' /\ dev' = d
        /\ config' = config /\ target' = [led |-> l, level |-> <<level>>]
        /\ todo' = <<Out(l + 1, level), Update>>
        /\ allowed'[d][l] # {} => <<level>> \in allowed'[d][l]
    BY <1>2, <2>1, IssuedCall
  <2>3. target'.led = l /\ target'.level = <<level>> /\ target'.level[1] = level
    BY <2>2
  <2>4. Dimming(1)'
    BY <2>1, <2>2, <2>3, ConfigLemma DEF Dimming, Allowed
  <2>5. PendingInv'
    BY <2>4 DEF PendingInv
  <2>6. QED  BY <1>2, <2>2, <2>5 DEF DriverInv, Issue
<1>3. QED  BY <1>1, <1>2 DEF SetBrightness

LEMMA InitDeviceStep ==
    ASSUME DriverInv, NEW d \in Devices, InitDevice(d)
    PROVE  DriverInv' /\ ready' = ready
<1>1. CASE Refuse(d, "EINVAL")
  BY <1>1, RefusedCall DEF Refuse
<1>2. CASE CheckConfig /\ ~Refuse(d, "EINVAL")
  <2>1. /\ dev' = d /\ todo' = <<ReadId, SetLimits, Enable>>
        /\ UNCHANGED <<config, chip, ready, allowed, target, faults>>
    BY <1>2 DEF InitDevice, ReadId, SetLimits, Enable
  <2>2. ShapeInv'
    BY <2>1 DEF DriverInv, ShapeInv
  <2>3. ConfigInv'
    BY <1>2, <2>1, ConfigLemma DEF ConfigInv
  <2>4. WholeInv'
    BY <2>1, ConfigLemma DEF DriverInv, WholeInv, Allowed
  <2>5. Initialising(1)'
    BY <2>1, ConfigLemma DEF Initialising, ReadId, Enable
  <2>6. PendingInv'
    BY <2>5 DEF PendingInv
  <2>7. QED  BY <2>1, <2>2, <2>3, <2>4, <2>6 DEF DriverInv
<1>3. QED  BY <1>1, <1>2 DEF InitDevice

\* The first error ends a call; a restart forgets it.
LEMMA EndedCall ==
    ASSUME DriverInv, TransferFails \/ RestartDriver
    PROVE  DriverInv' /\ todo' = <<>>
<1>1. /\ todo' = <<>> /\ ready' \subseteq ready
      /\ UNCHANGED <<config, chip, dev, allowed, target>>
  BY DEF TransferFails, RestartDriver
<1>2. ShapeInv'
  BY <1>1 DEF DriverInv, ShapeInv
<1>3. ConfigInv'
  BY <1>1, ConfigLemma DEF DriverInv, ConfigInv
<1>4. WholeInv'
  BY <1>1, ConfigLemma DEF DriverInv, WholeInv, Allowed
<1>5. PendingInv'
  BY <1>1 DEF PendingInv
<1>6. QED  BY <1>1, <1>2, <1>3, <1>4, <1>5 DEF DriverInv

\* A transfer keeps the shape of things.
LEMMA TransferShape ==
    ASSUME DriverInv, Transfer
    PROVE  /\ CheckConfig /\ ShapeInv' /\ ConfigInv'
           /\ config' = config /\ dev' = dev /\ target' = target
           /\ todo' = Tail(todo) /\ ready \subseteq ready'
           /\ \A d \in Devices : d # dev => chip'[d] = chip[d] /\ allowed'[d] = allowed[d]
           /\ chip'[dev] = Written(chip[dev], Head(todo))
<1>1. CheckConfig
  BY DEF DriverInv, ConfigInv, Transfer
<1>2. /\ config' = config /\ dev' = dev /\ target' = target /\ todo' = Tail(todo)
      /\ ready' = ready \/ ready' = ready \cup {dev}
  BY DEF Transfer
<1>3. DOMAIN chip' = Devices /\ chip'[dev] = Written(chip[dev], Head(todo))
  BY DEF DriverInv, ShapeInv, Transfer
<1>4. \A d \in Devices : d # dev => chip'[d] = chip[d] /\ allowed'[d] = allowed[d]
  BY DEF DriverInv, ShapeInv, Transfer
<1>5. /\ DOMAIN Written(chip[dev], Head(todo)) = DOMAIN chip[dev]
      /\ DOMAIN Written(chip[dev], Head(todo)).staged = DOMAIN chip[dev].staged
  <2>1. DOMAIN chip[dev] = {"staged", "shown", "current", "enabled"}
    BY DEF DriverInv, ShapeInv
  <2>2. QED  BY <2>1 DEF Written
<1>6. DOMAIN allowed' = Devices /\ DOMAIN allowed'[dev] = DOMAIN allowed[dev]
  BY DEF DriverInv, ShapeInv, Transfer
<1>7. ShapeInv'
  BY <1>2, <1>3, <1>4, <1>5, <1>6 DEF DriverInv, ShapeInv
<1>8. ConfigInv'
  BY <1>1, <1>2, ConfigLemma DEF ConfigInv
<1>9. QED  BY <1>1, <1>2, <1>3, <1>4, <1>7, <1>8

\* A transfer of set_color.
LEMMA ColorTransfer ==
    ASSUME DriverInv, Transfer, NEW n \in 1..4, Coloring(n)
    PROVE  DriverInv'
<1>1. /\ NumLeds = 1 /\ dev \in Devices /\ CheckConfig
      /\ target.led = 0 /\ target.level \in [Channel -> Int]
      /\ Allowed(dev, 0, target.level)
  BY TransferShape DEF Coloring, DriverInv, ShapeInv
<1>2. /\ DOMAIN chip[dev] = {"staged", "shown", "current", "enabled"}
      /\ DOMAIN chip[dev].staged = Channel
      /\ DOMAIN allowed = Devices /\ DOMAIN allowed[dev] = 0..2
  BY <1>1 DEF DriverInv, ShapeInv
<1>3. NumLeds' = NumLeds /\ CheckConfig' = CheckConfig
  BY TransferShape, ConfigLemma
<1>4. CASE n < 4
  <2>1. /\ Head(todo) = ColorOut(n) /\ Len(todo) # 1
        /\ \/ n = 1 /\ Tail(todo) = <<ColorOut(2), ColorOut(3), Update>>
           \/ n = 2 /\ Tail(todo) = <<ColorOut(3), Update>>
           \/ n = 3 /\ Tail(todo) = <<Update>>
    <3>1. CASE n = 1
      <4>1. todo = <<ColorOut(1), ColorOut(2), ColorOut(3), Update>>
        BY <3>1 DEF Coloring
      <4>2. QED  BY <3>1, <4>1
    <3>2. CASE n = 2
      <4>1. todo = <<ColorOut(2), ColorOut(3), Update>>
        BY <3>2 DEF Coloring
      <4>2. QED  BY <3>2, <4>1
    <3>3. CASE n = 3
      <4>1. todo = <<ColorOut(3), Update>>
        BY <3>3 DEF Coloring
      <4>2. QED  BY <3>3, <4>1
    <3>4. QED  BY <1>4, <3>1, <3>2, <3>3
  <2>2. /\ chip'[dev].shown = chip[dev].shown
        /\ \A i \in Channel : chip'[dev].staged[i] =
              IF i = n THEN Component(target.level, n) ELSE chip[dev].staged[i]
    <3>1. chip'[dev] = [chip[dev] EXCEPT !.staged[n] = Component(target.level, n)]
      BY <2>1, TransferShape DEF Written, ColorOut, Out
    <3>2. QED  BY <1>2, <3>1
  <2>3. allowed' = allowed
    BY <2>1 DEF Transfer, Last
  <2>4. WholeInv'
    BY <1>1, <1>3, <2>2, <2>3, TransferShape, ConfigLemma
    DEF DriverInv, WholeInv, Allowed
  <2>5. \A i : ColorOut(i)' = ColorOut(i)
    BY TransferShape, ConfigLemma DEF ColorOut
  <2>6. \A i \in Channel : i < n + 1 =>
            chip'[dev].staged[i] = Component(target.level, i)
    BY <2>2 DEF Coloring, Channel
  <2>7. Coloring(n + 1)'
    <3>1. /\ n = 1 => todo' = <<ColorOut(2)', ColorOut(3)', Update>>
          /\ n = 2 => todo' = <<ColorOut(3)', Update>>
          /\ n = 3 => todo' = <<Update>>
      <4>1. todo' = Tail(todo)
        BY TransferShape
      <4>2. QED  BY <2>1, <2>5, <4>1
    <3>2. n = 1 \/ n = 2 \/ n = 3
      BY <1>4
    <3>3. Allowed(dev, 0, target.level)'
      BY <1>1, <2>3, TransferShape DEF Allowed
    <3>4. \A i \in Channel : i < n + 1 =>
              chip'[dev'].staged[i] = Component(target.level, i)'
      BY <2>6, TransferShape, ConfigLemma
    <3>5. QED  BY <1>1, <1>3, <3>1, <3>2, <3>3, <3>4, TransferShape DEF Coloring
  <2>8. PendingInv'
    BY <1>4, <2>7 DEF PendingInv
  <2>9. QED  BY <2>4, <2>8, TransferShape DEF DriverInv
<1>5. CASE n = 4
  <2>1. Head(todo) = Update /\ Len(todo) = 1 /\ Tail(todo) = <<>>
    <3>1. todo = <<Update>>
      BY <1>5 DEF Coloring
    <3>2. QED  BY <3>1
  <2>2. chip'[dev].shown = chip[dev].staged
    BY <1>2, <2>1, TransferShape DEF Written, Update
  <2>3. allowed'[dev][0] = {target.level}
    BY <1>1, <1>2, <2>1 DEF Transfer, Last, Update
  <2>4. Color(chip'[dev].shown) = target.level
    <3>1. ASSUME NEW k \in Channel
          PROVE  chip'[dev].shown[CHOOSE i \in Channel : config.leds[1][i] = Rgb[k]]
                     = target.level[k]
      <4> DEFINE j == CHOOSE i \in Channel : config.leds[1][i] = Rgb[k]
      <4>1. j \in Channel /\ Component(target.level, j) = target.level[k]
        BY <1>1, PermutationLemma
      <4>2. \A i \in Channel : chip[dev].staged[i] = Component(target.level, i)
        BY <1>5 DEF Coloring, Channel
      <4> HIDE DEF j
      <4>3. chip'[dev].shown[j] = target.level[k]
        BY <2>2, <4>1, <4>2
      <4>4. QED  BY <4>3 DEF j
    <3>2. QED  BY <1>1, <3>1 DEF Color
  <2>5. WholeInv'
    BY <1>1, <1>3, <2>3, <2>4, TransferShape, ConfigLemma
    DEF DriverInv, WholeInv, Allowed
  <2>6. PendingInv'
    BY <2>1, TransferShape DEF PendingInv
  <2>7. QED  BY <2>5, <2>6, TransferShape DEF DriverInv
<1>6. QED  BY <1>4, <1>5

\* A transfer of set_brightness.
LEMMA BrightnessTransfer ==
    ASSUME DriverInv, Transfer, NEW n \in 1..2, Dimming(n)
    PROVE  DriverInv'
<1> PICK l, level :
        /\ target.led = l /\ target.level = <<level>>
        /\ \/ n = 1 /\ todo = <<Out(l + 1, level), Update>>
           \/ n = 2 /\ todo = <<Update>> /\ chip[dev].staged[l + 1] = level
  BY DEF Dimming
<1>1. /\ NumLeds = 3 /\ dev \in Devices /\ CheckConfig
      /\ l \in 0..2 /\ Allowed(dev, l, <<level>>)
  BY TransferShape DEF Dimming, DriverInv, ShapeInv
<1>2. /\ DOMAIN chip[dev] = {"staged", "shown", "current", "enabled"}
      /\ DOMAIN chip[dev].staged = Channel
      /\ DOMAIN allowed = Devices /\ DOMAIN allowed[dev] = 0..2
  BY <1>1 DEF DriverInv, ShapeInv
<1>3. NumLeds' = NumLeds /\ CheckConfig' = CheckConfig
  BY TransferShape, ConfigLemma
<1>4. \A d \in Devices, k \in 0..2 : /\ Allowed(d, k, <<chip[d].shown[k + 1]>>)
                                    /\ Allowed(d, k, <<chip[d].staged[k + 1]>>)
  <2>1. NumLeds # 1
    BY <1>1
  <2>2. QED  BY <1>1, <2>1 DEF DriverInv, WholeInv
<1>5. \A d \in Devices : d # dev => \A k \in 0..2 :
          /\ Allowed(d, k, <<chip[d].shown[k + 1]>>)'
          /\ Allowed(d, k, <<chip[d].staged[k + 1]>>)'
  BY <1>4, TransferShape DEF Allowed
<1>6. CASE n = 1
  <2>1. /\ Head(todo) = Out(l + 1, level) /\ Len(todo) # 1
        /\ Tail(todo) = <<Update>>
    <3>1. todo = <<Out(l + 1, level), Update>>
      BY <1>6
    <3>2. QED  BY <3>1
  <2>2. /\ chip'[dev].shown = chip[dev].shown
        /\ \A i \in Channel : chip'[dev].staged[i] =
              IF i = l + 1 THEN level ELSE chip[dev].staged[i]
    <3>1. chip'[dev] = [chip[dev] EXCEPT !.staged[l + 1] = level]
      BY <2>1, TransferShape DEF Written, Out
    <3>2. QED  BY <1>2, <3>1
  <2>3. allowed' = allowed
    BY <2>1 DEF Transfer, Last
  <2>4. \A k \in 0..2 : /\ Allowed(dev, k, <<chip[dev].shown[k + 1]>>)'
                       /\ Allowed(dev, k, <<chip[dev].staged[k + 1]>>)'
    <3> TAKE k \in 0..2
    <3>1. Allowed(dev, k, <<chip[dev].shown[k + 1]>>)'
      BY <1>1, <1>4, <2>2, <2>3, TransferShape DEF Allowed
    <3>2. k + 1 \in Channel /\ (k + 1 = l + 1 => k = l)
      BY <1>1 DEF Channel
    <3>3. Allowed(dev, k, <<chip[dev].staged[k + 1]>>)'
      BY <1>1, <1>4, <2>2, <2>3, <3>2, TransferShape, ZenonT(60) DEF Allowed
    <3>4. QED  BY <3>1, <3>3
  <2>5. WholeInv'
    <3>1. NumLeds' # 1
      BY <1>1, <1>3
    <3>2. QED  BY <1>5, <2>4, <3>1, TransferShape, ZenonT(60) DEF WholeInv
  <2>6. Dimming(2)'
    <3>1. l + 1 \in Channel
      BY <1>1 DEF Channel
    <3>2. chip'[dev].staged[l + 1] = level
      BY <2>2, <3>1
    <3>3. QED  BY <1>1, <1>3, <2>1, <2>3, <3>2, TransferShape DEF Dimming, Allowed
  <2>7. PendingInv'
    BY <2>6 DEF PendingInv
  <2>8. QED  BY <2>5, <2>7, TransferShape DEF DriverInv
<1>7. CASE n = 2
  <2>1. Head(todo) = Update /\ Len(todo) = 1 /\ Tail(todo) = <<>>
        /\ chip[dev].staged[l + 1] = level
    <3>1. todo = <<Update>> /\ chip[dev].staged[l + 1] = level
      BY <1>7
    <3>2. QED  BY <3>1
  <2>2. chip'[dev].shown = chip[dev].staged /\ chip'[dev].staged = chip[dev].staged
    BY <1>2, <2>1, TransferShape DEF Written, Update
  <2>3. \A k \in 0..2 : allowed'[dev][k] = IF k = l THEN {<<level>>}
                                            ELSE allowed[dev][k]
    BY <1>1, <1>2, <2>1 DEF Transfer, Last, Update
  <2>4. \A k \in 0..2 : /\ Allowed(dev, k, <<chip[dev].shown[k + 1]>>)'
                       /\ Allowed(dev, k, <<chip[dev].staged[k + 1]>>)'
    <3> TAKE k \in 0..2
    <3>1. CASE k = l
      BY <2>1, <2>2, <2>3, <3>1, TransferShape DEF Allowed
    <3>2. CASE k # l
      BY <1>1, <1>4, <2>2, <2>3, <3>2, TransferShape, ZenonT(60) DEF Allowed
    <3>3. QED  BY <3>1, <3>2
  <2>5. WholeInv'
    <3>1. NumLeds' # 1
      BY <1>1, <1>3
    <3>2. QED  BY <1>5, <2>4, <3>1, TransferShape, ZenonT(60) DEF WholeInv
  <2>6. PendingInv'
    BY <2>1, TransferShape DEF PendingInv
  <2>7. QED  BY <2>5, <2>6, TransferShape DEF DriverInv
<1>8. QED  BY <1>6, <1>7

\* A transfer of is31fl3194_init writes no level.
LEMMA InitTransfer ==
    ASSUME DriverInv, Transfer, NEW n \in 1..3, Initialising(n)
    PROVE  DriverInv'
<1>1. /\ \/ n = 1 /\ todo = <<ReadId, SetLimits, Enable>>
         \/ n = 2 /\ todo = <<SetLimits, Enable>>
         \/ n = 3 /\ todo = <<Enable>>
  BY DEF Initialising
<1>2. /\ Head(todo).reg \in {"id", "current", "conf"}
      /\ \/ n = 1 /\ Tail(todo) = <<SetLimits, Enable>>
         \/ n = 2 /\ Tail(todo) = <<Enable>>
         \/ n = 3 /\ Tail(todo) = <<>>
  <2>1. /\ ReadId.reg = "id" /\ SetLimits.reg = "current" /\ Enable.reg = "conf"
    BY DEF ReadId, SetLimits, Enable
  <2>2. CASE n = 1
    <3>1. todo = <<ReadId, SetLimits, Enable>>
      BY <1>1, <2>2
    <3>2. QED  BY <2>1, <2>2, <3>1
  <2>3. CASE n = 2
    <3>1. todo = <<SetLimits, Enable>>
      BY <1>1, <2>3
    <3>2. QED  BY <2>1, <2>3, <3>1
  <2>4. CASE n = 3
    <3>1. todo = <<Enable>>
      BY <1>1, <2>4
    <3>2. QED  BY <2>1, <2>4, <3>1
  <2>5. QED  BY <2>2, <2>3, <2>4
<1>3. dev \in Devices /\ DOMAIN chip[dev] = {"staged", "shown", "current", "enabled"}
  BY DEF DriverInv, ShapeInv
<1>4. /\ chip'[dev].staged = chip[dev].staged /\ chip'[dev].shown = chip[dev].shown
  BY <1>2, <1>3, TransferShape DEF Written
<1>5. allowed' = allowed
  BY <1>2 DEF Transfer
<1>6. \A d \in Devices : /\ chip'[d].staged = chip[d].staged
                         /\ chip'[d].shown = chip[d].shown
  BY <1>4, TransferShape
<1>7. WholeInv'
  <2>1. NumLeds' = NumLeds /\ CheckConfig' = CheckConfig
    BY TransferShape, ConfigLemma
  <2>2. \A d \in Devices : Color(chip[d].shown)' = Color(chip[d].shown)
    BY <1>6, TransferShape, ConfigLemma
  <2>3. QED  BY <1>5, <1>6, <2>1, <2>2 DEF DriverInv, WholeInv, Allowed
<1>8. PendingInv'
  <2>1. CASE n = 3
    <3>1. Tail(todo) = <<>>
      BY <1>2, <2>1
    <3>2. QED  BY <3>1, TransferShape DEF PendingInv
  <2>2. CASE n < 3
    <3>1. ReadId' = ReadId /\ SetLimits' = SetLimits /\ Enable' = Enable
      BY TransferShape, ConfigLemma DEF ReadId, Enable
    <3>2. \/ n + 1 = 2 /\ todo' = <<SetLimits', Enable'>>
          \/ n + 1 = 3 /\ todo' = <<Enable'>>
      <4>1. todo' = Tail(todo)
        BY TransferShape
      <4>2. QED  BY <1>2, <2>2, <3>1, <4>1
    <3>3. Initialising(n + 1)'
      BY <3>2 DEF Initialising
    <3>4. n + 1 \in 1..3
      BY <2>2
    <3>5. QED  BY <3>3, <3>4 DEF PendingInv
  <2>3. QED  BY <2>1, <2>2
<1>9. QED  BY <1>7, <1>8, TransferShape DEF DriverInv

LEMMA TransferStep ==
    ASSUME DriverInv, Transfer
    PROVE  DriverInv' /\ ready \subseteq ready'
<1>1. todo # <<>>
  BY DEF Transfer
<1>2. CASE \E n \in 1..4 : Coloring(n)
  BY <1>2, ColorTransfer, TransferShape
<1>3. CASE \E n \in 1..2 : Dimming(n)
  BY <1>3, BrightnessTransfer, TransferShape
<1>4. CASE \E n \in 1..3 : Initialising(n)
  BY <1>4, InitTransfer, TransferShape
<1>5. QED  BY <1>1, <1>2, <1>3, <1>4 DEF DriverInv, PendingInv

\* What another master writes is excused.
LEMMA GapWritesStep ==
    ASSUME DriverInv, todo = <<>>, NEW level, NEW lost, GapWrites(level, lost)
    PROVE  DriverInv' /\ ready' = ready /\ todo' = <<>>
<1>1. /\ UNCHANGED <<config, ready, dev, todo>>
      /\ led \in Devices
  BY LedAssumption DEF GapWrites
<1>2. /\ DOMAIN chip' = Devices /\ DOMAIN allowed' = Devices
      /\ DOMAIN chip'[led] = DOMAIN chip[led] /\ DOMAIN chip'[led].staged = Channel
      /\ DOMAIN allowed'[led] = 0..2
      /\ \A l \in 0..2 : allowed'[led][l] = {}
      /\ \A d \in Devices : d # led => chip'[d] = chip[d] /\ allowed'[d] = allowed[d]
  BY <1>1 DEF DriverInv, ShapeInv, GapWrites
<1>3. ShapeInv'
  BY <1>1, <1>2 DEF DriverInv, ShapeInv
<1>4. ConfigInv'
  BY <1>1, ConfigLemma DEF DriverInv, ConfigInv
<1>5. WholeInv'
  <2>1. \A v : \A l \in 0..2 : Allowed(led, l, v)'
    BY <1>2 DEF Allowed
  <2>2. \A d \in Devices : d # led => /\ chip'[d].staged = chip[d].staged
                                     /\ chip'[d].shown = chip[d].shown
                                     /\ \A l, v : Allowed(d, l, v)' = Allowed(d, l, v)
    BY <1>2 DEF Allowed
  <2>3. WholeInv /\ NumLeds' = NumLeds /\ CheckConfig' = CheckConfig
    BY <1>1, ConfigLemma DEF DriverInv
  <2>4. CASE NumLeds = 1
    <3>1. ASSUME NEW d \in Devices, CheckConfig
          PROVE  Allowed(d, 0, Color(chip[d].shown))'
      <4>1. CASE d = led
        BY <2>1, <4>1
      <4>2. CASE d # led
        <5>1. Color(chip[d].shown)' = Color(chip[d].shown)
          BY <1>1, <2>2, <4>2, ConfigLemma
        <5>2. Allowed(d, 0, Color(chip[d].shown))
          BY <2>3, <2>4, <3>1 DEF WholeInv
        <5>3. QED  BY <1>2, <4>2, <5>1, <5>2 DEF Allowed
      <4>3. QED  BY <4>1, <4>2
    <3>2. QED  BY <2>3, <2>4, <3>1 DEF WholeInv
  <2>5. CASE NumLeds # 1
    <3>1. ASSUME NEW d \in Devices, NEW l \in 0..2, CheckConfig
          PROVE  /\ Allowed(d, l, <<chip[d].shown[l + 1]>>)'
                 /\ Allowed(d, l, <<chip[d].staged[l + 1]>>)'
      <4>1. CASE d = led
        BY <2>1, <4>1
      <4>2. CASE d # led
        BY <2>2, <2>3, <2>5, <3>1, <4>2, ZenonT(60) DEF WholeInv, Allowed
      <4>3. QED  BY <4>1, <4>2
    <3>2. QED  BY <2>3, <2>5, <3>1 DEF WholeInv
  <2>6. QED  BY <2>4, <2>5
<1>6. PendingInv'
  BY <1>1 DEF PendingInv
<1>7. QED  BY <1>1, <1>3, <1>4, <1>5, <1>6 DEF DriverInv

-----------------------------------------------------------------------------
(* The steps of the programs.                                              *)

LEMMA ShowStep ==
    ASSUME DriverInv, CheckConfig, NEW d \in Devices, NEW i \in 1..9, Show(d, i)
    PROVE  DriverInv' /\ ready' = ready
<1> DEFINE color == IF i <= 8 THEN ColorSequence[i] ELSE <<0, 0, 0>>
<1>1. color \in [Channel -> Int]
  <2>1. \A a \in Int, b \in Int, c \in Int : <<a, b, c>> \in [Channel -> Int]
    BY DEF Channel
  <2>2. \A j \in 1..8 : ColorSequence[j] \in [Channel -> Int]
    <3>1. /\ ColorSequence[1] = <<255, 0, 0>> /\ ColorSequence[2] = <<0, 255, 0>>
          /\ ColorSequence[3] = <<0, 0, 255>> /\ ColorSequence[4] = <<255, 255, 255>>
          /\ ColorSequence[5] = <<255, 255, 0>> /\ ColorSequence[6] = <<255, 0, 255>>
          /\ ColorSequence[7] = <<0, 255, 255>> /\ ColorSequence[8] = <<244, 121, 32>>
      BY DEF ColorSequence
    <3>2. \A j \in 1..8 : j \in {1, 2, 3, 4, 5, 6, 7, 8}
      OBVIOUS
    <3>3. /\ ColorSequence[1] \in [Channel -> Int] /\ ColorSequence[2] \in [Channel -> Int]
          /\ ColorSequence[3] \in [Channel -> Int] /\ ColorSequence[4] \in [Channel -> Int]
          /\ ColorSequence[5] \in [Channel -> Int] /\ ColorSequence[6] \in [Channel -> Int]
          /\ ColorSequence[7] \in [Channel -> Int] /\ ColorSequence[8] \in [Channel -> Int]
      BY <2>1, <3>1
    <3>4. QED  BY <3>2, <3>3
  <2>3. CASE i <= 8
    BY <2>2, <2>3
  <2>4. CASE ~(i <= 8)
    BY <2>1, <2>4
  <2>5. QED  BY <2>3, <2>4
<1> HIDE DEF color
<1>2. SetColor(d, 0, 3, color)
  BY DEF Show, color
<1>3. QED  BY <1>1, <1>2, SetColorStep

LEMMA DeviceInitStep == LedInv /\ DeviceInit => LedInv'
<1> SUFFICES ASSUME LedInv, DeviceInit  PROVE LedInv'
  OBVIOUS
<1>1. DriverInv'
  BY DriverStutters, InitDeviceStep, LedAssumption DEF LedInv, DeviceInit
<1>2. PlaceInv'
  BY DEF LedInv, PlaceInv, DeviceInit, Goto
<1>3. QED  BY <1>1, <1>2 DEF LedInv

LEMMA ChecksStep == LedInv /\ Checks => LedInv'
<1> SUFFICES ASSUME LedInv, Checks  PROVE LedInv'
  OBVIOUS
<1>1. DriverInv'
  BY DriverStutters DEF LedInv, Checks
<1>2. PlaceInv'
  BY DEF LedInv, PlaceInv, Checks, Goto, ledVars
<1>3. QED  BY <1>1, <1>2 DEF LedInv

\* One step of show_led_pattern.
LEMMA PatternStep ==
    ASSUME LedInv, NEW d, NEW loop, NEW next, d \in ready,
           Pattern(d, loop, next)
    PROVE  /\ DriverInv' /\ ready' = ready /\ idx' \in 0..9
           /\ pc = loop /\ pc' \in {loop, next}
<1>1. CheckConfig /\ d \in Devices /\ idx \in 0..9
  BY DEF LedInv, DriverInv, ConfigInv, ShapeInv, PlaceInv
<1>2. CASE /\ idx = 0 \/ (result = "ok" /\ idx < 9)
           /\ Show(d, idx + 1) /\ idx' = idx + 1 /\ pc' = loop
  <2>1. idx + 1 \in 1..9
    BY <1>1, <1>2
  <2>2. DriverInv' /\ ready' = ready
    BY <1>1, <1>2, <2>1, ShowStep DEF LedInv
  <2>3. QED  BY <1>2, <2>1, <2>2 DEF Pattern
<1>3. CASE idx' = 0 /\ pc' = next /\ UNCHANGED ledVars
  <2>1. DriverInv' /\ ready' = ready
    BY <1>3, DriverStutters DEF LedInv, ledVars
  <2>2. QED  BY <1>3, <2>1 DEF Pattern
<1>4. QED  BY <1>2, <1>3 DEF Pattern

LEMMA PatternsStep == LedInv /\ Patterns => LedInv'
<1> SUFFICES ASSUME LedInv, Patterns  PROVE LedInv'
  OBVIOUS
<1>1. UNCHANGED gap9
  BY DEF Patterns
<1>2. CASE Pattern(led, "pattern", "pattern2")
  <2>1. pc = "pattern" /\ led \in ready /\ ledDebug \in ready
    BY <1>2 DEF LedInv, PlaceInv, Pattern
  <2>2. /\ DriverInv' /\ ready' = ready /\ idx' \in 0..9
        /\ pc' \in {"pattern", "pattern2"}
    BY <1>2, <2>1, PatternStep
  <2>3. QED  BY <1>1, <2>1, <2>2 DEF LedInv, PlaceInv
<1>3. CASE Pattern(ledDebug, "pattern2", "buttons")
  <2>1. pc = "pattern2" /\ led \in ready /\ ledDebug \in ready
    BY <1>3 DEF LedInv, PlaceInv, Pattern
  <2>2. /\ DriverInv' /\ ready' = ready /\ idx' \in 0..9
        /\ pc' \in {"pattern2", "buttons"}
    BY <1>3, <2>1, PatternStep
  <2>3. QED  BY <1>1, <2>1, <2>2 DEF LedInv, PlaceInv
<1>4. CASE Pattern(ledDebug, "again", "toggle")
  <2>1. pc = "again" /\ led \in ready /\ ledDebug \in ready
    BY <1>4 DEF LedInv, PlaceInv, Pattern
  <2>2. /\ DriverInv' /\ ready' = ready /\ idx' \in 0..9
        /\ pc' \in {"again", "toggle"}
    BY <1>4, <2>1, PatternStep
  <2>3. QED  BY <1>1, <2>1, <2>2 DEF LedInv, PlaceInv
<1>5. QED  BY <1>2, <1>3, <1>4 DEF Patterns

LEMMA SetUpStep == LedInv /\ SetUp => LedInv'
<1> SUFFICES ASSUME LedInv, SetUp  PROVE LedInv'
  OBVIOUS
<1>1. DriverInv'
  BY DriverStutters DEF LedInv, SetUp
<1>2. PlaceInv'
  BY DEF LedInv, PlaceInv, SetUp, Goto, ledVars
<1>3. QED  BY <1>1, <1>2 DEF LedInv

LEMMA TakeSemStep == LedInv /\ TakeSem => LedInv'
<1> SUFFICES ASSUME LedInv, TakeSem  PROVE LedInv'
  OBVIOUS
<1>1. DriverInv'
  BY DriverStutters DEF LedInv, TakeSem
<1>2. PlaceInv'
  BY DEF LedInv, PlaceInv, TakeSem, Goto, ledVars
<1>3. QED  BY <1>1, <1>2 DEF LedInv

LEMMA ButtonStep == LedInv /\ (Button1 \/ Button2) => LedInv'
<1> SUFFICES ASSUME LedInv, Button1 \/ Button2  PROVE LedInv'
  OBVIOUS
<1>1. DriverInv'
  BY DriverStutters DEF LedInv, Button1, Button2
<1>2. PlaceInv'
  BY DEF LedInv, PlaceInv, Button1, Button2, ledVars
<1>3. QED  BY <1>1, <1>2 DEF LedInv

LEMMA LedColorsStep == LedInv /\ LedColors => LedInv'
<1> SUFFICES ASSUME LedInv, LedColors  PROVE LedInv'
  OBVIOUS
<1>1. CheckConfig /\ led \in Devices /\ led \in ready /\ idx \in 0..9
      /\ pc = "colors" /\ gap9 = "off"
  BY LedAssumption
  DEF LedInv, DriverInv, ConfigInv, PlaceInv, LedColors, Goto
<1>2. CASE /\ idx < 8 /\ Show(led, idx + 1) /\ idx' = idx + 1 /\ pc' = "colors"
           /\ UNCHANGED gap9
  <2>1. idx + 1 \in 1..9
    BY <1>1, <1>2
  <2>2. DriverInv' /\ ready' = ready
    BY <1>1, <1>2, <2>1, ShowStep DEF LedInv
  <2>3. QED  BY <1>1, <1>2, <2>1, <2>2 DEF LedInv, PlaceInv
<1>3. CASE /\ pc' \in {"sleep", "returned"} /\ UNCHANGED <<ledVars, idx>>
           /\ pc' = "sleep" \/ UNCHANGED gap9
           /\ todo = <<>>
  <2>1. DriverInv'
    BY <1>3, DriverStutters DEF LedInv
  <2>2. QED  BY <1>1, <1>3, <2>1 DEF LedInv, PlaceInv, ledVars
<1>4. QED  BY <1>2, <1>3 DEF LedColors, Goto, Idle

LEMMA ApiStep == LedInv /\ Api => LedInv'
<1> SUFFICES ASSUME LedInv, Api  PROVE LedInv'
  OBVIOUS
<1>1. CheckConfig /\ led \in Devices /\ todo = <<>>
  BY LedAssumption
  DEF LedInv, DriverInv, ConfigInv, PlaceInv, Api, SetColor, SetBrightness
<1>2. DriverInv' /\ ready' = ready
  <2>1. CASE \E l \in 0..3, num \in {1, 3}, c \in {<<255, 0, 0>>, <<244, 121, 32>>} :
                 SetColor(led, l, num, c)
    <3>1. \A c \in {<<255, 0, 0>>, <<244, 121, 32>>} : c \in [Channel -> Int]
      BY DEF Channel
    <3>2. \A l \in 0..3 : l \in Nat
      OBVIOUS
    <3>3. QED  BY <1>1, <2>1, <3>1, <3>2, SetColorStep, ZenonT(60) DEF LedInv
  <2>2. CASE \E l \in 0..3, v \in {50, 100, 101} : SetBrightness(led, l, v)
    <3>1. \A l \in 0..3 : l \in Nat
      OBVIOUS
    <3>2. QED  BY <1>1, <2>2, <3>1, SetBrightnessStep DEF LedInv
  <2>3. QED  BY <2>1, <2>2 DEF Api
<1>3. PlaceInv'
  BY <1>2 DEF LedInv, PlaceInv, Api, appVars
<1>4. QED  BY <1>2, <1>3 DEF LedInv

LEMMA TransfersStep ==
    LedInv /\ (Transfer \/ TransferFails) /\ UNCHANGED <<appVars, gap9>> => LedInv'
<1> SUFFICES ASSUME LedInv, Transfer \/ TransferFails, UNCHANGED <<appVars, gap9>>
             PROVE  LedInv'
  OBVIOUS
<1>1. DriverInv' /\ ready \subseteq ready'
  <2>1. CASE Transfer
    BY <2>1, TransferStep DEF LedInv
  <2>2. CASE TransferFails
    BY <2>2, EndedCall DEF LedInv, TransferFails
  <2>3. QED  BY <2>1, <2>2
<1>2. gap9 = "off"
  BY DEF LedInv, PlaceInv, Transfer, TransferFails
<1>3. PlaceInv'
  BY <1>1, <1>2 DEF LedInv, PlaceInv, appVars
<1>4. QED  BY <1>1, <1>3 DEF LedInv

LEMMA Gap9Step == LedInv /\ (TurnOn \/ Rainbow) => LedInv'
<1> SUFFICES ASSUME LedInv, TurnOn \/ Rainbow  PROVE LedInv'
  OBVIOUS
<1>1. gap9 # "off" /\ UNCHANGED appVars
  BY DEF TurnOn, Rainbow
<1>2. pc = "sleep" /\ todo = <<>>
  BY <1>1 DEF LedInv, PlaceInv
<1>3. \E level, lost : GapWrites(level, lost)
  BY DEF TurnOn, Rainbow
<1>4. DriverInv' /\ ready' = ready /\ todo' = <<>>
  BY <1>2, <1>3, GapWritesStep DEF LedInv
<1>5. PlaceInv'
  BY <1>1, <1>2, <1>4 DEF LedInv, PlaceInv, appVars
<1>6. QED  BY <1>4, <1>5 DEF LedInv

LEMMA RestartStep == LedInv /\ Restart => LedInv'
<1> SUFFICES ASSUME LedInv, Restart  PROVE LedInv'
  OBVIOUS
<1>1. DriverInv'
  BY EndedCall DEF LedInv, Restart
<1>2. PlaceInv'
  BY DEF PlaceInv, Restart
<1>3. QED  BY <1>1, <1>2 DEF LedInv

LEMMA LedStutters == LedInv /\ UNCHANGED vars => LedInv'
<1> SUFFICES ASSUME LedInv, UNCHANGED vars  PROVE LedInv'
  OBVIOUS
<1>1. DriverInv'
  BY DriverStutters DEF LedInv, vars
<1>2. PlaceInv'
  BY DEF LedInv, PlaceInv, vars, ledVars, appVars
<1>3. QED  BY <1>1, <1>2 DEF LedInv

LEMMA LedInitially == Init => LedInv
<1> SUFFICES ASSUME Init  PROVE LedInv
  OBVIOUS
<1>1. ShapeInv
  <2>1. /\ chip = [d \in Devices |-> [staged |-> Dark, shown |-> Dark,
                                       current |-> 0, enabled |-> FALSE]]
        /\ allowed = [d \in Devices |-> [l \in 0..2 |->
                          {IF NumLeds = 1 THEN Dark ELSE <<0>>}]]
    BY DEF Init, DriverInit
  <2>2. dev \in Devices /\ ready \subseteq Devices
    <3>1. dev = CHOOSE d \in Devices : TRUE
      BY DEF Init, DriverInit
    <3>2. (CHOOSE d \in Devices : TRUE) \in Devices
      BY LedAssumption
    <3>3. QED  BY <3>1, <3>2 DEF Init, DriverInit
  <2>3. DOMAIN Dark = Channel
    BY DEF Dark
  <2>4. QED  BY <2>1, <2>2, <2>3 DEF ShapeInv
<1>2. ConfigInv
  BY DEF Init, DriverInit, ConfigInv
<1>3. WholeInv
  <2>1. Channel = 1..3 /\ Dark = [k \in Channel |-> 0]
    BY DEF Channel, Dark
  <2>2. CASE CheckConfig /\ NumLeds = 1
    <3>1. ASSUME NEW d \in Devices  PROVE Color(chip[d].shown) = Dark
      <4>1. chip[d].shown = Dark
        BY DEF Init, DriverInit
      <4>2. \A k \in Channel :
                (CHOOSE i \in Channel : config.leds[1][i] = Rgb[k]) \in Channel
        <5> TAKE k \in Channel
        <5>1. Dark \in [Channel -> Int]
          BY <2>1
        <5>2. QED  BY <2>2, <5>1, PermutationLemma
      <4>3. QED  BY <2>1, <4>1, <4>2 DEF Color
    <3>2. \A d \in Devices : allowed[d][0] = {Dark}
      <4>1. allowed = [d \in Devices |-> [l \in 0..2 |->
                           {IF NumLeds = 1 THEN Dark ELSE <<0>>}]]
        BY DEF Init, DriverInit
      <4>2. 0 \in 0..2
        OBVIOUS
      <4>3. \A d \in Devices : allowed[d][0] = {IF NumLeds = 1 THEN Dark ELSE <<0>>}
        BY <4>1, <4>2, Zenon
      <4>4. QED  BY <2>2, <4>3, Zenon
    <3>3. QED  BY <2>2, <3>1, <3>2 DEF WholeInv, Allowed
  <2>3. CASE CheckConfig /\ NumLeds # 1
    <3>1. \A d \in Devices, l \in 0..2 :
              /\ allowed[d][l] = {<<0>>}
              /\ chip[d].shown[l + 1] = 0 /\ chip[d].staged[l + 1] = 0
      BY <2>1, <2>3 DEF Init, DriverInit
    <3>2. QED  BY <2>3, <3>1 DEF WholeInv, Allowed
  <2>4. QED  BY <2>2, <2>3 DEF WholeInv
<1>4. PendingInv
  BY DEF Init, DriverInit, PendingInv
<1>5. PlaceInv
  BY DEF Init, PlaceInv
<1>6. QED  BY <1>1, <1>2, <1>3, <1>4, <1>5 DEF LedInv, DriverInv

LEMMA LedStep == LedInv /\ [Next]_vars => LedInv'
<1> SUFFICES ASSUME LedInv, [Next]_vars  PROVE LedInv'
  OBVIOUS
<1>1. CASE Main
  BY <1>1, DeviceInitStep, ChecksStep, PatternsStep, SetUpStep, TakeSemStep,
     LedColorsStep, TransfersStep DEF Main
<1>2. CASE Api
  BY <1>2, ApiStep
<1>3. CASE TransferFails /\ UNCHANGED <<appVars, gap9>>
  BY <1>3, TransfersStep
<1>4. CASE Button1 \/ Button2
  BY <1>4, ButtonStep
<1>5. CASE TurnOn \/ Rainbow
  BY <1>5, Gap9Step
<1>6. CASE Restart
  BY <1>6, RestartStep
<1>7. CASE UNCHANGED vars
  BY <1>7, LedStutters
<1>8. QED  BY <1>1, <1>2, <1>3, <1>4, <1>5, <1>6, <1>7 DEF Next

LEMMA LedInvariant == Spec => []LedInv
<1>1. QED  BY LedInitially, LedStep, PTL DEF Spec

\* However many transfers fail, and wherever restarts fall, a LED of a device
\* that is ready shows whole a colour that it was asked for in its last
\* successful call or in one that failed since.
THEOREM ColorsAreWhole == Spec => []WholeColors
<1>1. LedInv => WholeColors
  <2> SUFFICES ASSUME LedInv, NEW d \in ready, NEW l \in 0..(NumLeds - 1),
                      allowed[d][l] # {}
               PROVE  Shows(d, l) \in allowed[d][l]
    BY DEF WholeColors
  <2>1. d \in Devices /\ CheckConfig /\ WholeInv
    BY DEF LedInv, DriverInv, ShapeInv, ConfigInv
  <2>2. CASE NumLeds = 1
    <3>1. l = 0
      BY <2>2
    <3>2. Shows(d, l) = Color(chip[d].shown)
      BY <2>2 DEF Shows, Color
    <3>3. Allowed(d, 0, Color(chip[d].shown))
      BY <2>1, <2>2 DEF WholeInv
    <3>4. QED  BY <3>1, <3>2, <3>3 DEF Allowed
  <2>3. CASE NumLeds = 3
    <3>1. l \in 0..2
      BY <2>3
    <3>2. Shows(d, l) = <<chip[d].shown[l + 1]>>
      BY <2>3 DEF Shows
    <3>3. Allowed(d, l, <<chip[d].shown[l + 1]>>)
      <4>1. NumLeds # 1
        BY <2>3
      <4>2. QED  BY <2>1, <3>1, <4>1 DEF WholeInv
    <3>4. QED  BY <3>2, <3>3 DEF Allowed
  <2>4. QED  BY <2>1, <2>2, <2>3, CheckedLemma
<1>2. QED  BY <1>1, LedInvariant, PTL

-----------------------------------------------------------------------------
(* The current limits.                                                     *)

\* A configuration that a devicetree can give.
ConfigTyped ==
    /\ config.leds \in Seq(Seq(ColorIds))
    /\ config.limits \in [1..NumLeds -> CurrentLimits]

\* A device is ready with the limits of its configuration in the chip, written
\* before the transfer that ends its init.
LimitsInv ==
    /\ ConfigTyped
    /\ \A d \in ready : chip[d].current = CurrentReg
    /\ todo = <<Enable>> => chip[dev].current = CurrentReg

LEMMA LimitsKept ==
    ASSUME LimitsInv, config' = config, ready' \subseteq ready,
           \A d \in ready' \cup {dev} : chip'[d].current = chip[d].current,
           todo' = <<Enable>> => todo' = todo /\ dev' = dev
    PROVE  LimitsInv'
<1>1. CurrentReg' = CurrentReg /\ Enable' = Enable
  BY DEF CurrentReg, Enable
<1>2. \A d \in ready' : chip'[d].current = CurrentReg
  BY DEF LimitsInv
<1>3. todo' = <<Enable>> => chip'[dev'].current = CurrentReg
  BY DEF LimitsInv
<1>4. ConfigTyped'
  BY DEF LimitsInv, ConfigTyped, NumLeds
<1>5. QED  BY <1>1, <1>2, <1>3, <1>4 DEF LimitsInv

\* The calls write nothing themselves, and none of them is left with Enable.
LEMMA LimitsOfCalls ==
    ASSUME LimitsInv, NEW d, NEW l, NEW num, NEW color, NEW value,
           \/ SetColor(d, l, num, color) \/ SetBrightness(d, l, value)
           \/ InitDevice(d)
    PROVE  LimitsInv'
<1>1. UNCHANGED <<config, chip, ready>>
  BY DEF SetColor, SetBrightness, InitDevice, Refuse, Issue
<1>2. todo' # <<Enable>>
  <2>1. CASE \E err : Refuse(d, err)
    BY <2>1 DEF Refuse
  <2>2. CASE Issue(d, 0, color, [i \in Channel |-> Out(i, Component(color, i))]
                                    \o <<Update>>)
    <3> DEFINE w == [i \in Channel |-> Out(i, Component(color, i))]
               S == {w[i] : i \in Channel} \cup {Update}
    <3>1. w \in [Channel -> S] /\ Update \in S
      OBVIOUS
    <3>2. todo' = w \o <<Update>>
      BY <2>2 DEF Issue
    <3> HIDE DEF w, S
    <3>3. todo' = <<w[1], w[2], w[3], Update>>
      BY <3>1, <3>2, ConcatLemma
    <3>4. QED  BY <3>3
  <2>3. CASE \E level, a, b : Issue(d, l, level, <<a, b>>)
    BY <2>3 DEF Issue
  <2>4. CASE \E a, b, c : todo' = <<a, b, c>>
    BY <2>4
  <2>5. QED  BY <2>1, <2>2, <2>3, <2>4 DEF SetColor, SetBrightness, InitDevice
<1>3. QED  BY <1>1, <1>2, LimitsKept

LEMMA LimitsOfTransfer == LedInv /\ LimitsInv /\ Transfer => LimitsInv'
<1> SUFFICES ASSUME LedInv, LimitsInv, Transfer  PROVE LimitsInv'
  OBVIOUS
<1>1. /\ DriverInv /\ todo # <<>> /\ dev \in Devices /\ ready \subseteq Devices
      /\ DOMAIN chip[dev] = {"staged", "shown", "current", "enabled"}
  BY DEF LedInv, DriverInv, ShapeInv, Transfer
<1>2. /\ config' = config /\ dev' = dev /\ todo' = Tail(todo)
      /\ chip'[dev] = Written(chip[dev], Head(todo))
      /\ \A d \in Devices : d # dev => chip'[d] = chip[d]
  BY <1>1, TransferShape
<1>3. CASE \/ \E n \in 1..4 : Coloring(n)
           \/ \E n \in 1..2 : Dimming(n)
  <2>1. /\ Head(todo) = Update \/ \E i, v : Head(todo) = Out(i, v)
        /\ Tail(todo) # <<Enable>>
    <3>1. \/ \E a, b, c : todo = <<ColorOut(a), b, c, Update>>
          \/ \E a, b : todo = <<ColorOut(a), b, Update>>
          \/ \E i, v : todo = <<Out(i, v), Update>>
          \/ todo = <<Update>>
      BY <1>3 DEF Coloring, Dimming, ColorOut
    <3>2. Update # Enable
      BY DEF Update, Enable
    <3>3. CASE \E a, b, c : todo = <<ColorOut(a), b, c, Update>>
      BY <3>3 DEF ColorOut
    <3>4. CASE \E a, b : todo = <<ColorOut(a), b, Update>>
      BY <3>4 DEF ColorOut
    <3>5. CASE \E i, v : todo = <<Out(i, v), Update>>
      <4>1. PICK i, v : todo = <<Out(i, v), Update>>
        BY <3>5
      <4>2. Head(todo) = Out(i, v) /\ Tail(todo) = <<Update>>
        BY <4>1
      <4>3. <<Update>> # <<Enable>>
        BY <3>2
      <4>4. QED  BY <4>2, <4>3
    <3>6. CASE todo = <<Update>>
      BY <3>6
    <3>7. QED  BY <3>1, <3>3, <3>4, <3>5, <3>6
  <2>2. chip'[dev].current = chip[dev].current /\ Head(todo).reg # "conf"
    BY <1>1, <1>2, <2>1 DEF Written, Update, Out
  <2>3. ready' = ready
    BY <2>2 DEF Transfer
  <2>4. QED  BY <1>1, <1>2, <2>1, <2>2, <2>3, LimitsKept
<1>4. CASE \E n \in 1..3 : Initialising(n)
  <2>1. \/ Head(todo) = ReadId /\ Tail(todo) = <<SetLimits, Enable>>
        \/ Head(todo) = SetLimits /\ Tail(todo) = <<Enable>>
        \/ todo = <<Enable>> /\ Head(todo) = Enable /\ Tail(todo) = <<>>
    <3>1. \/ todo = <<ReadId, SetLimits, Enable>> \/ todo = <<SetLimits, Enable>>
          \/ todo = <<Enable>>
      BY <1>4 DEF Initialising
    <3>2. CASE todo = <<ReadId, SetLimits, Enable>>
      BY <3>2
    <3>3. CASE todo = <<SetLimits, Enable>>
      BY <3>3
    <3>4. CASE todo = <<Enable>>
      BY <3>4
    <3>5. QED  BY <3>1, <3>2, <3>3, <3>4
  <2>2. CurrentReg' = CurrentReg /\ Enable' = Enable
    BY <1>2 DEF CurrentReg, Enable
  <2>3. CASE Head(todo) = ReadId /\ Tail(todo) = <<SetLimits, Enable>>
    <3>1. chip'[dev] = chip[dev] /\ ready' = ready
      BY <1>2, <2>3 DEF ReadId, Written, Transfer
    <3>2. todo' # <<Enable>>
      BY <1>2, <2>3
    <3>3. QED  BY <1>1, <1>2, <3>1, <3>2, LimitsKept
  <2>4. CASE Head(todo) = SetLimits
    <3>1. chip'[dev].current = CurrentReg /\ ready' = ready
      BY <1>1, <1>2, <2>4 DEF SetLimits, Written, Transfer
    <3>2. \A d \in ready' : chip'[d].current = CurrentReg
      BY <1>1, <1>2, <3>1 DEF LimitsInv
    <3>3. QED  BY <1>2, <2>2, <3>1, <3>2 DEF LimitsInv, ConfigTyped, NumLeds
  <2>5. CASE todo = <<Enable>> /\ Head(todo) = Enable /\ Tail(todo) = <<>>
    <3>1. /\ chip'[dev].current = chip[dev].current /\ ready' \subseteq ready \cup {dev}
      BY <1>1, <1>2, <2>5 DEF Enable, Written, Transfer
    <3>2. chip'[dev].current = CurrentReg
      BY <2>5, <3>1 DEF LimitsInv
    <3>3. \A d \in ready' : chip'[d].current = CurrentReg
      BY <1>1, <1>2, <3>1, <3>2 DEF LimitsInv
    <3>4. todo' # <<Enable>>
      BY <1>2, <2>5
    <3>5. QED  BY <1>2, <2>2, <3>3, <3>4 DEF LimitsInv, ConfigTyped, NumLeds
  <2>6. QED  BY <2>1, <2>3, <2>4, <2>5
<1>5. QED  BY <1>1, <1>3, <1>4 DEF DriverInv, PendingInv

LEMMA LimitsStep == LedInv /\ LimitsInv /\ [Next]_vars => LimitsInv'
<1> SUFFICES ASSUME LedInv, LimitsInv, [Next]_vars  PROVE LimitsInv'
  OBVIOUS
<1>1. CASE UNCHANGED ledVars
  BY <1>1, LimitsKept DEF ledVars
<1>2. CASE \/ \E d, l, num, color : SetColor(d, l, num, color)
           \/ \E d, l, value : SetBrightness(d, l, value)
           \/ \E d : InitDevice(d)
  BY <1>2, LimitsOfCalls
<1>3. CASE Transfer
  BY <1>3, LimitsOfTransfer
<1>4. CASE TransferFails \/ RestartDriver
  <2>1. /\ todo' = <<>> /\ ready' \subseteq ready /\ UNCHANGED <<config, chip>>
    BY <1>4 DEF TransferFails, RestartDriver
  <2>2. QED  BY <2>1, LimitsKept
<1>5. CASE \E level, lost : GapWrites(level, lost)
  <2>1. UNCHANGED <<config, ready, dev, todo>>
    BY <1>5 DEF GapWrites
  <2>2. \A d \in Devices : chip'[d].current = chip[d].current
    BY <1>5 DEF GapWrites, LedInv, DriverInv, ShapeInv
  <2>3. ready \subseteq Devices /\ dev \in Devices
    BY DEF LedInv, DriverInv, ShapeInv
  <2>4. QED  BY <2>1, <2>2, <2>3, LimitsKept
<1>6. CASE DeviceInit \/ Patterns \/ LedColors \/ Api
  BY <1>1, <1>2, <1>6 DEF DeviceInit, Patterns, Pattern, LedColors, Api, Show
<1>7. CASE TurnOn \/ Rainbow
  <2>1. CASE TurnOn
    BY <1>5, <2>1 DEF TurnOn
  <2>2. CASE Rainbow
    BY <1>5, <2>2 DEF Rainbow
  <2>3. QED  BY <1>7, <2>1, <2>2
<1>8. CASE Restart
  BY <1>4, <1>8 DEF Restart
<1>9. CASE Checks \/ SetUp \/ TakeSem \/ Button1 \/ Button2 \/ UNCHANGED vars
  BY <1>1, <1>9 DEF Checks, SetUp, TakeSem, Button1, Button2, vars
<1>10. QED
  BY <1>3, <1>4, <1>6, <1>7, <1>8, <1>9 DEF Next, Main

\* Three channels that are counted once have the three colours.
LEMMA ColorsLemma ==
    ASSUME NEW c, DOMAIN c = Channel, \A i \in Channel : CountsOne(c, i)
    PROVE  {c[i] : i \in DOMAIN c} = {"red", "green", "blue"}
<1>1. \A i \in Channel : c[i] \in {"red", "green", "blue"}
  BY RgbLemma DEF CountsOne, Channel
<1>2. c[1] # c[2] /\ c[1] # c[3] /\ c[2] # c[3]
  BY DEF CountsOne, Channel
<1>3. {c[i] : i \in DOMAIN c} = {c[1], c[2], c[3]}
  BY DEF Channel
<1>4. QED  BY <1>1, <1>2, <1>3 DEF Channel

\* Two bits of the register for each channel.
LEMMA BandsLemma ==
    ASSUME NEW a \in 0..3, NEW b \in 0..3, NEW c \in 0..3,
           NEW i \in Channel
    PROVE  ((a + 4 * b + 16 * c) \div (4 ^ (i - 1))) % 4
               = IF i = 1 THEN a ELSE IF i = 2 THEN b ELSE c
<1>1. 4 ^ 0 = 1 /\ 4 ^ 1 = 4 /\ 4 ^ 2 = 16
  OBVIOUS
<1> DEFINE r == a + 4 * b + 16 * c
<1>2. (r \div 1) % 4 = a /\ (r \div 4) % 4 = b /\ (r \div 16) % 4 = c
  OBVIOUS
<1> HIDE DEF r
<1>3. (r \div (4 ^ (i - 1))) % 4 = IF i = 1 THEN a ELSE IF i = 2 THEN b ELSE c
  <2>1. CASE i = 1
    <3>1. i - 1 = 0
      BY <2>1
    <3>2. QED  BY <1>1, <1>2, <2>1, <3>1
  <2>2. CASE i = 2
    <3>1. i - 1 = 1
      BY <2>2
    <3>2. QED  BY <1>1, <1>2, <2>2, <3>1
  <2>3. CASE i = 3
    <3>1. i - 1 = 2
      BY <2>3
    <3>2. QED  BY <1>1, <1>2, <2>3, <3>1
  <2>4. QED  BY <2>1, <2>2, <2>3 DEF Channel
<1>4. QED  BY <1>3 DEF r

LEMMA BandLemma ==
    ASSUME NEW limit \in CurrentLimits
    PROVE  Band(limit) \in 0..3 /\ 10 * (1 + Band(limit)) = limit
<1>1. Band(10) = 0 /\ Band(20) = 1 /\ Band(30) = 2 /\ Band(40) = 3
  BY DEF Band
<1>2. limit = 10 \/ limit = 20 \/ limit = 30 \/ limit = 40
  BY DEF CurrentLimits
<1>3. QED  BY <1>1, <1>2

LEMMA RegisterLemma ==
    ASSUME CheckConfig, ConfigTyped, NEW i \in Channel
    PROVE  10 * (1 + ((CurrentReg \div (4 ^ (i - 1))) % 4))
               = config.limits[IF NumLeds = 1 THEN 1 ELSE i]
<1>1. \/ NumLeds = 1 /\ Len(config.leds[1]) = 3
      \/ NumLeds = 3 /\ Len(config.leds[1]) = 1
  BY CheckedLemma DEF Channel
<1>2. CASE NumLeds = 1 /\ Len(config.leds[1]) = 3
  <2>1. config.limits[1] \in CurrentLimits
    BY <1>2 DEF ConfigTyped
  <2> DEFINE a == Band(config.limits[1])
  <2>2. a \in 0..3 /\ 10 * (1 + a) = config.limits[1]
    BY <2>1, BandLemma
  <2>3. CurrentReg = a + 4 * a + 16 * a
    BY <1>2 DEF CurrentReg
  <2> HIDE DEF a
  <2>4. QED  BY <1>2, <2>2, <2>3, BandsLemma
<1>3. CASE NumLeds = 3 /\ Len(config.leds[1]) = 1
  <2>1. \A j \in Channel : config.limits[j] \in CurrentLimits
    BY <1>3 DEF ConfigTyped, Channel
  <2> DEFINE b(j) == Band(config.limits[j])
  <2>2. \A j \in Channel : b(j) \in 0..3 /\ 10 * (1 + b(j)) = config.limits[j]
    BY <2>1, BandLemma
  <2>3. CurrentReg = b(1) + 4 * b(2) + 16 * b(3)
    BY <1>3 DEF CurrentReg
  <2> HIDE DEF b
  <2>4. b(1) \in 0..3 /\ b(2) \in 0..3 /\ b(3) \in 0..3
    BY <2>2 DEF Channel
  <2>5. (CurrentReg \div (4 ^ (i - 1))) % 4
            = IF i = 1 THEN b(1) ELSE IF i = 2 THEN b(2) ELSE b(3)
    BY <2>3, <2>4, BandsLemma
  <2>6. i = 1 \/ i = 2 \/ i = 3
    BY DEF Channel
  <2>7. (CurrentReg \div (4 ^ (i - 1))) % 4 = b(i)
    BY <2>5, <2>6
  <2>8. QED  BY <1>3, <2>2, <2>7
<1>4. QED  BY <1>1, <1>2, <1>3

\* However many transfers fail, and wherever restarts fall, a device that is
\* ready has passed the check of its configuration, and the chip has the limit
\* of each LED on the channel that LED is on.
THEOREM ReadyIsConfigured == Spec => []ReadyMeansConfigured
<1>1. Init => LimitsInv
  <2> SUFFICES ASSUME Init  PROVE LimitsInv
    OBVIOUS
  <2>1. ready = {} /\ todo = <<>>
    BY DEF Init, DriverInit
  <2>2. CASE config = BoardConfig
    <3>1. Rgb \in Seq(ColorIds)
      BY DEF Rgb, ColorIds
    <3>2. <<Rgb>> \in Seq(Seq(ColorIds)) /\ Len(<<Rgb>>) = 1
      BY <3>1
    <3>3. <<10>> \in [1..1 -> CurrentLimits]
      BY DEF CurrentLimits
    <3>4. QED  BY <2>1, <2>2, <3>2, <3>3 DEF LimitsInv, ConfigTyped, BoardConfig, NumLeds
  <2>3. CASE config \in Devicetrees
    BY <2>1, <2>3, DevicetreeAssumption DEF LimitsInv, ConfigTyped, NumLeds
  <2>4. QED  BY <2>2, <2>3 DEF Init
<1>2. LedInv /\ LimitsInv /\ [Next]_vars => LimitsInv'
  BY LimitsStep
<1>3. LedInv /\ LimitsInv => ReadyMeansConfigured
  <2> SUFFICES ASSUME LedInv, LimitsInv, ready # {}  PROVE ReadyMeansConfigured
    BY DEF ReadyMeansConfigured
  <2>1. CheckConfig /\ ConfigTyped
    BY DEF LedInv, DriverInv, ConfigInv, LimitsInv
  <2> DEFINE one == config.leds[1]
             each == [i \in 1..NumLeds |-> config.leds[i][1]]
             shades == IF NumLeds = 1 THEN one ELSE each
  <2>2. {shades[i] : i \in DOMAIN shades} = {"red", "green", "blue"} /\ Len(shades) = 3
    <3>1. CASE NumLeds = 1 /\ Len(one) = 3
      <4>1. \A i \in Channel : CountsOne(one, i)
        BY <2>1, <3>1 DEF CheckConfig
      <4>2. one \in Seq(ColorIds)
        BY <2>1, <3>1 DEF ConfigTyped, NumLeds
      <4> HIDE DEF one
      <4>3. DOMAIN one = Channel
        BY <3>1, <4>2 DEF Channel
      <4>4. {one[i] : i \in DOMAIN one} = {"red", "green", "blue"}
        BY <4>1, <4>3, ColorsLemma
      <4>5. QED  BY <3>1, <4>4
    <3>2. CASE NumLeds = 3
      <4>1. each = [j \in Channel |-> config.leds[j][1]]
        BY <3>2 DEF Channel
      <4>2. \A i \in Channel : CountsOne(each, i)
        <5>1. \A i \in Channel : CountsOne([j \in Channel |-> config.leds[j][1]], i)
          BY <2>1, <3>2 DEF CheckConfig
        <5>2. QED  BY <4>1, <5>1
      <4>3. DOMAIN each = Channel /\ Len(each) = 3
        BY <3>2 DEF Channel
      <4> HIDE DEF each
      <4>4. {each[i] : i \in DOMAIN each} = {"red", "green", "blue"}
        BY <4>2, <4>3, ColorsLemma
      <4>5. QED  BY <3>2, <4>3, <4>4
    <3>3. QED  BY <2>1, <3>1, <3>2, CheckedLemma
  <2>3. \A d \in ready : \A i \in Channel :
            10 * (1 + ((chip[d].current \div (4 ^ (i - 1))) % 4))
                = config.limits[IF NumLeds = 1 THEN 1 ELSE i]
    BY <2>1, RegisterLemma DEF LimitsInv
  <2>4. QED  BY <2>2, <2>3 DEF ReadyMeansConfigured
<1>4. QED  BY LedInvariant, <1>1, <1>2, <1>3, PTL DEF Spec

-----------------------------------------------------------------------------
(* The pattern of the debug board.                                         *)

Black == <<0, 0, 0>>
Loops == {"pattern", "pattern2", "again"}
Quiet == {"buttons", "button2", "outputs", "toggle", "wait"}
Shown(loop) == IF loop = "pattern" THEN led ELSE ledDebug

\* A pattern with `idx' of its colours behind it or begun.
PatternInv ==
    /\ idx = 0 => todo = <<>>
    /\ idx > 0 =>
          /\ dev = Shown(pc)
          /\ result \in {"busy", "ok", "error"} /\ (result = "busy" <=> todo # <<>>)
          /\ todo # <<>> => todo[Len(todo)] = Update
          /\ result = "error" => faults > 0
          /\ idx = 9 => target = [led |-> 0, level |-> Black]
          /\ idx = 9 /\ result = "ok" => allowed[dev][0] = {Black}

DarkInv ==
    /\ app = "debug" => config = BoardConfig
    /\ faults \in Nat
    /\ pc \in {"init", "init2", "power"} => idx = 0
    /\ pc \in Loops \cup Quiet => app = "debug"
    /\ pc \in Loops => PatternInv
    /\ pc \in Quiet =>
          /\ todo = <<>> /\ idx = 0
          /\ result = "ok" => allowed[ledDebug][0] = {Black}
    /\ pc \in Quiet \cup {"pattern2", "again"} /\ faults = 0 =>
          allowed[led][0] = {Black}

\* The board's configuration has one LED of three channels, so that a colour
\* is never refused.
LEMMA BoardConfigLemma ==
    ASSUME config = BoardConfig
    PROVE  NumLeds = 1 /\ Len(config.leds[1]) = 3
BY DEF BoardConfig, NumLeds, Rgb

LEMMA ShowsColor ==
    ASSUME config = BoardConfig, NEW d, NEW i \in 1..9, Show(d, i)
    PROVE  /\ dev' = d /\ result' = "busy" /\ todo' # <<>>
           /\ todo'[Len(todo')] = Update
           /\ i = 9 => target' = [led |-> 0, level |-> Black]
           /\ \A e \in DOMAIN allowed : e # d => allowed'[e] = allowed[e]
           /\ UNCHANGED <<config, faults>>
<1> DEFINE color == IF i <= 8 THEN ColorSequence[i] ELSE <<0, 0, 0>>
           w == [j \in Channel |-> Out(j, Component(color, j))]
           S == {w[j] : j \in Channel} \cup {Update}
<1>1. i = 9 => color = Black
  BY DEF Black
<1> HIDE DEF color
<1>2. Issue(d, 0, color, w \o <<Update>>)
  BY BoardConfigLemma DEF Show, SetColor, color
<1>3. w \in [Channel -> S] /\ Update \in S
  OBVIOUS
<1> HIDE DEF w, S
<1>4. w \o <<Update>> = <<w[1], w[2], w[3], Update>>
  BY <1>3, ConcatLemma
<1>5. todo' = <<w[1], w[2], w[3], Update>>
  BY <1>2, <1>4 DEF Issue
<1>6. todo' # <<>> /\ todo'[Len(todo')] = Update
  BY <1>5
<1>7. /\ dev' = d /\ result' = "busy" /\ target' = [led |-> 0, level |-> color]
      /\ \A e \in DOMAIN allowed : e # d => allowed'[e] = allowed[e]
      /\ UNCHANGED <<config, faults>>
  BY <1>2 DEF Issue
<1>8. QED  BY <1>1, <1>6, <1>7

\* A step of a pattern: its next colour, or its end.
LEMMA DarkPattern ==
    ASSUME LedInv, DarkInv, NEW loop \in Loops, NEW next,
           Pattern(Shown(loop), loop, next),
           loop = "pattern" => next = "pattern2",
           loop # "pattern" => next \in Quiet,
           UNCHANGED app
    PROVE  DarkInv'
<1>1. /\ pc = loop /\ app = "debug" /\ config = BoardConfig /\ PatternInv
      /\ todo = <<>> /\ idx \in 0..9 /\ faults \in Nat
  BY DEF DarkInv, Pattern, Idle, LedInv, PlaceInv
<1>2. led # ledDebug /\ led \in DOMAIN allowed
  BY LedAssumption DEF LedInv, DriverInv, ShapeInv
<1>3. BoardConfig' = BoardConfig
  BY DEF BoardConfig
<1>4. CASE Show(Shown(loop), idx + 1) /\ idx' = idx + 1 /\ pc' = loop
           /\ (idx = 0 \/ (result = "ok" /\ idx < 9))
  <2>1. idx + 1 \in 1..9
    BY <1>1, <1>4
  <2>2. /\ dev' = Shown(loop) /\ result' = "busy" /\ todo' # <<>>
        /\ todo'[Len(todo')] = Update
        /\ idx + 1 = 9 => target' = [led |-> 0, level |-> Black]
        /\ \A e \in DOMAIN allowed : e # Shown(loop) => allowed'[e] = allowed[e]
        /\ UNCHANGED <<config, faults>>
    BY <1>1, <1>4, <2>1, ShowsColor
  <2>3. Shown(pc)' = Shown(loop)
    BY <1>4 DEF Shown
  <2>4. PatternInv'
    BY <1>4, <2>1, <2>2, <2>3 DEF PatternInv, Update, Black
  <2>5. pc' \in {"pattern2", "again"} => (faults' = 0 => allowed'[led][0] = {Black})
    BY <1>1, <1>2, <1>4, <2>2 DEF DarkInv, Shown
  <2>6. pc' \in Loops /\ pc' \notin Quiet /\ pc' \notin {"init", "init2", "power"}
    BY <1>4 DEF Loops, Quiet
  <2>7. QED
    BY <1>1, <1>3, <2>2, <2>4, <2>5, <2>6 DEF DarkInv, Loops, Quiet, Black
<1>5. CASE ~(idx = 0 \/ (result = "ok" /\ idx < 9))
           /\ idx' = 0 /\ pc' = next /\ UNCHANGED ledVars
  <2>1. result \in {"ok", "error"} /\ dev = Shown(loop) /\ idx > 0
    BY <1>1, <1>5 DEF PatternInv
  <2>2. result = "ok" => allowed[Shown(loop)][0] = {Black}
    BY <1>1, <1>5, <2>1 DEF PatternInv
  <2>3. faults = 0 => result = "ok"
    BY <1>1, <2>1 DEF PatternInv
  <2>4. faults = 0 => allowed[led][0] = {Black}
    <3>1. CASE loop = "pattern"
      BY <2>2, <2>3, <3>1 DEF Shown
    <3>2. CASE loop # "pattern"
      BY <1>1, <3>2 DEF DarkInv, Loops
    <3>3. QED  BY <3>1, <3>2
  <2>5. /\ config' = config /\ todo' = <<>> /\ faults' = faults
        /\ result' = result /\ allowed' = allowed
    BY <1>1, <1>5 DEF ledVars
  <2>6. CASE loop = "pattern"
    <3>1. pc' = "pattern2"
      BY <1>5, <2>6
    <3>2. PatternInv'
      BY <1>5, <2>5 DEF PatternInv
    <3>3. pc' \in Loops /\ pc' \notin Quiet
      BY <3>1 DEF Loops, Quiet
    <3>4. QED
      BY <1>1, <1>3, <1>5, <2>4, <2>5, <3>1, <3>2, <3>3
      DEF DarkInv, Loops, Quiet, Black
  <2>7. CASE loop # "pattern"
    <3>1. pc' \in Quiet /\ pc' \notin Loops /\ pc' \notin {"init", "init2", "power"}
      BY <1>5, <2>7 DEF Loops, Quiet
    <3>2. result' = "ok" => allowed'[ledDebug][0] = {Black}
      BY <2>2, <2>5, <2>7 DEF Shown
    <3>3. QED
      BY <1>1, <1>3, <1>5, <2>4, <2>5, <3>1, <3>2 DEF DarkInv, Loops, Quiet, Black
  <2>8. QED  BY <2>6, <2>7
<1>6. QED  BY <1>4, <1>5 DEF Pattern

\* A transfer of a pattern, or one that fails.
LEMMA DarkTransfer ==
    ASSUME LedInv, DarkInv, Transfer \/ TransferFails,
           UNCHANGED <<appVars, gap9>>
    PROVE  DarkInv'
<1>1. /\ UNCHANGED <<app, pc, idx, config, dev, target>> /\ todo # <<>>
      /\ faults \in Nat
  BY DEF Transfer, TransferFails, appVars, DarkInv
<1>2. pc \notin Quiet
  BY <1>1 DEF DarkInv
<1>3. faults' \in Nat /\ (faults' = 0 => Transfer /\ faults = 0)
  BY <1>1 DEF Transfer, TransferFails
<1>4. led # ledDebug /\ dev \in Devices /\ led \in Devices
      /\ DOMAIN allowed = Devices /\ DOMAIN allowed[dev] = 0..2
  BY LedAssumption DEF LedInv, DriverInv, ShapeInv
<1>5. BoardConfig' = BoardConfig
  BY DEF BoardConfig
<1>6. CASE pc \notin Loops
  BY <1>1, <1>2, <1>3, <1>5, <1>6 DEF DarkInv, Loops, Quiet
<1>7. CASE pc \in Loops
  <2>1. /\ PatternInv /\ idx > 0 /\ dev = Shown(pc) /\ result = "busy"
        /\ todo[Len(todo)] = Update
        /\ idx = 9 => target = [led |-> 0, level |-> Black]
    <3>1. PatternInv /\ idx \in 0..9
      BY <1>7 DEF DarkInv, LedInv, PlaceInv
    <3>2. idx > 0
      BY <1>1, <3>1 DEF PatternInv
    <3>3. QED  BY <1>1, <3>1, <3>2 DEF PatternInv
  <2>2. Shown(pc)' = Shown(pc)
    BY <1>1 DEF Shown
  <2>3. CASE TransferFails
    <3>1. todo' = <<>> /\ result' = "error" /\ faults' > 0 /\ allowed' = allowed
      BY <1>1, <2>3 DEF TransferFails
    <3>2. PatternInv'
      BY <1>1, <2>1, <2>2, <3>1 DEF PatternInv, Update, Black
    <3>3. QED
      BY <1>1, <1>2, <1>3, <1>5, <1>7, <3>1, <3>2 DEF DarkInv, Loops, Quiet, Black
  <2>4. CASE Transfer
    <3>1. \/ /\ \E a, b, c : todo = <<a, b, c, Update>> /\ Tail(todo) = <<b, c, Update>>
             /\ ~Last
          \/ /\ \E a, b : todo = <<a, b, Update>> /\ Tail(todo) = <<b, Update>>
             /\ ~Last
          \/ /\ \E a : todo = <<a, Update>> /\ Tail(todo) = <<Update>>
             /\ ~Last
          \/ /\ todo = <<Update>> /\ Head(todo) = Update /\ Tail(todo) = <<>>
             /\ Last
      <4>1. PendingInv
        BY DEF LedInv, DriverInv
      <4>2. CASE \E n \in 1..4 : Coloring(n)
        <5>1. \/ \E a, b, c : todo = <<a, b, c, Update>>
              \/ \E a, b : todo = <<a, b, Update>>
              \/ \E a : todo = <<a, Update>>
              \/ todo = <<Update>>
          BY <4>2 DEF Coloring
        <5>2. CASE \E a, b, c : todo = <<a, b, c, Update>>
          BY <5>2 DEF Last
        <5>3. CASE \E a, b : todo = <<a, b, Update>>
          BY <5>3 DEF Last
        <5>4. CASE \E a : todo = <<a, Update>>
          BY <5>4 DEF Last
        <5>5. CASE todo = <<Update>>
          BY <5>5 DEF Last
        <5>6. QED  BY <5>1, <5>2, <5>3, <5>4, <5>5
      <4>3. CASE \E n \in 1..2 : Dimming(n)
        <5>1. \/ \E a : todo = <<a, Update>>
              \/ todo = <<Update>>
          BY <4>3 DEF Dimming
        <5>2. CASE \E a : todo = <<a, Update>>
          BY <5>2 DEF Last
        <5>3. CASE todo = <<Update>>
          BY <5>3 DEF Last
        <5>4. QED  BY <5>1, <5>2, <5>3
      <4>4. CASE \E n \in 1..3 : Initialising(n)
        <5>1. \/ todo = <<ReadId, SetLimits, Enable>>
              \/ todo = <<SetLimits, Enable>>
              \/ todo = <<Enable>>
          BY <4>4 DEF Initialising
        <5>2. todo[Len(todo)] = Enable
          <6>1. CASE todo = <<ReadId, SetLimits, Enable>>
            BY <6>1
          <6>2. CASE todo = <<SetLimits, Enable>>
            BY <6>2
          <6>3. CASE todo = <<Enable>>
            BY <6>3
          <6>4. QED  BY <5>1, <6>1, <6>2, <6>3
        <5>3. QED  BY <2>1, <5>2 DEF Update, Enable
      <4>5. QED  BY <1>1, <4>1, <4>2, <4>3, <4>4 DEF PendingInv
    <3>2. todo' = Tail(todo) /\ faults' = faults
      BY <2>4 DEF Transfer
    <3>3. \A d \in Devices : d # dev => allowed'[d] = allowed[d]
      BY <1>4, <2>4 DEF Transfer
    <3>4. CASE ~Last
      <4>1. result' = "busy" /\ allowed' = allowed
        BY <2>1, <2>4, <3>4 DEF Transfer
      <4>2. todo' # <<>> /\ todo'[Len(todo')] = Update
        BY <3>1, <3>2, <3>4
      <4>3. PatternInv'
        BY <1>1, <2>1, <2>2, <4>1, <4>2 DEF PatternInv, Update, Black
      <4>4. QED
        BY <1>1, <1>2, <1>3, <1>5, <1>7, <4>1, <4>3 DEF DarkInv, Loops, Quiet, Black
    <3>5. CASE Last
      <4>1. Head(todo) = Update /\ Tail(todo) = <<>>
        BY <3>1, <3>5
      <4>2. result' = "ok" /\ todo' = <<>>
        BY <2>4, <3>2, <3>5, <4>1 DEF Transfer
      <4>3. idx = 9 => allowed'[dev][0] = {Black}
        <5> SUFFICES ASSUME idx = 9  PROVE allowed'[dev][0] = {Black}
          OBVIOUS
        <5>1. target.led = 0 /\ target.level = Black
          BY <2>1
        <5>2. allowed' = [allowed EXCEPT ![dev][target.led] = {target.level}]
          BY <2>4, <3>5, <4>1 DEF Transfer, Update
        <5>3. QED  BY <1>4, <5>1, <5>2
      <4>4. PatternInv'
        BY <1>1, <2>1, <2>2, <4>2, <4>3 DEF PatternInv, Update, Black
      <4>5. pc \in {"pattern2", "again"} => dev # led
        BY <1>4, <2>1 DEF Shown
      <4>6. pc' \in {"pattern2", "again"} => (faults' = 0 => allowed'[led][0] = {Black})
        BY <1>1, <1>4, <3>2, <3>3, <4>5 DEF DarkInv
      <4>7. QED
        BY <1>1, <1>2, <1>3, <1>5, <1>7, <4>4, <4>6 DEF DarkInv, Loops, Quiet, Black
    <3>6. QED  BY <3>4, <3>5
  <2>5. QED  BY <2>3, <2>4
<1>8. QED  BY <1>6, <1>7

LEMMA DarkStep == LedInv /\ DarkInv /\ [Next]_vars => DarkInv'
<1> SUFFICES ASSUME LedInv, DarkInv, [Next]_vars  PROVE DarkInv'
  OBVIOUS
<1>1. BoardConfig' = BoardConfig
  BY DEF BoardConfig
<1>2. CASE DeviceInit
  <2>1. /\ pc' \in {"init2", "power"} /\ pc \in {"init", "init2"}
        /\ UNCHANGED <<app, idx, config, faults>>
    BY <1>2 DEF DeviceInit, Goto, InitDevice, Refuse, ledVars
  <2>2. QED  BY <1>1, <2>1 DEF DarkInv, Loops, Quiet
<1>3. CASE Checks
  <2>1. /\ pc = "power" /\ pc' \in {"pattern", "colors", "api", "returned"}
        /\ pc' = "pattern" => app = "debug"
        /\ todo = <<>> /\ UNCHANGED <<app, idx>> /\ UNCHANGED ledVars
    BY <1>3 DEF Checks, Goto, Idle
  <2>2. idx = 0
    BY <2>1 DEF DarkInv
  <2>3. PatternInv'
    BY <2>1, <2>2 DEF PatternInv, ledVars
  <2>4. QED  BY <1>1, <2>1, <2>3 DEF DarkInv, Loops, Quiet, ledVars
<1>4. CASE Patterns
  <2>1. \/ Pattern(Shown("pattern"), "pattern", "pattern2")
        \/ Pattern(Shown("pattern2"), "pattern2", "buttons")
        \/ Pattern(Shown("again"), "again", "toggle")
    BY <1>4 DEF Patterns, Shown
  <2>2. QED  BY <1>4, <2>1, DarkPattern DEF Patterns, Loops, Quiet
<1>5. CASE SetUp
  <2>1. pc \in Quiet /\ pc' \in Quiet \cup {"returned"}
    BY <1>5 DEF SetUp, Goto, Quiet
  <2>2. pc' \notin Loops /\ pc' \notin {"init", "init2", "power", "pattern2", "again"}
    BY <2>1 DEF Loops, Quiet
  <2>3. UNCHANGED <<app, idx>> /\ UNCHANGED ledVars
    BY <1>5 DEF SetUp
  <2>4. QED  BY <1>1, <2>1, <2>2, <2>3 DEF DarkInv, ledVars, Black
<1>6. CASE TakeSem
  <2>1. pc = "wait" /\ pc' \in {"again", "toggle"} /\ UNCHANGED <<app, idx>>
        /\ UNCHANGED ledVars
    BY <1>6 DEF TakeSem, Goto
  <2>2. /\ app = "debug" /\ todo = <<>> /\ idx = 0
        /\ result = "ok" => allowed[ledDebug][0] = {Black}
        /\ faults = 0 => allowed[led][0] = {Black}
    BY <2>1 DEF DarkInv, Quiet
  <2>3. PatternInv'
    BY <2>1, <2>2 DEF PatternInv, ledVars
  <2>4. QED  BY <1>1, <2>1, <2>2, <2>3 DEF DarkInv, Loops, Quiet, ledVars, Black
<1>7. CASE LedColors \/ Api
  <2>1. /\ pc \in {"colors", "api"} /\ pc' \in {"colors", "sleep", "returned", "api"}
        /\ UNCHANGED <<app, config, faults>>
    BY <1>7 DEF LedColors, Api, Goto, Show, SetColor, SetBrightness, Refuse, Issue,
       ledVars, appVars
  <2>2. QED  BY <1>1, <2>1 DEF DarkInv, Loops, Quiet
<1>8. CASE (Transfer \/ TransferFails) /\ UNCHANGED <<appVars, gap9>>
  BY <1>8, DarkTransfer
<1>9. CASE Button1 \/ Button2 \/ UNCHANGED vars
  <2>1. UNCHANGED <<app, pc, idx>> /\ UNCHANGED ledVars
    BY <1>9 DEF Button1, Button2, vars, appVars
  <2>2. Shown(pc)' = Shown(pc)
    BY <2>1 DEF Shown
  <2>3. PatternInv => PatternInv'
    BY <2>1, <2>2 DEF PatternInv, ledVars, Update, Black
  <2>4. QED  BY <1>1, <2>1, <2>3 DEF DarkInv, ledVars, Loops, Quiet, Black
<1>10. CASE TurnOn \/ Rainbow
  <2>1. gap9 # "off" /\ UNCHANGED appVars
    BY <1>10 DEF TurnOn, Rainbow
  <2>2. pc = "sleep" /\ pc' = "sleep" /\ app' = app
    BY <2>1 DEF LedInv, PlaceInv, appVars
  <2>3. config' = config /\ faults' \in Nat
    <3>1. CASE TurnOn
      BY <3>1 DEF TurnOn, GapWrites, DarkInv
    <3>2. CASE Rainbow
      BY <3>2 DEF Rainbow, GapWrites, DarkInv
    <3>3. QED  BY <1>10, <3>1, <3>2
  <2>4. QED  BY <1>1, <2>2, <2>3 DEF DarkInv, Loops, Quiet
<1>11. CASE Restart
  BY <1>1, <1>11 DEF Restart, RestartDriver, DarkInv, Loops, Quiet
<1>12. QED
  BY <1>2, <1>3, <1>4, <1>5, <1>6, <1>7, <1>8, <1>9, <1>10, <1>11 DEF Next, Main

\* Whatever transfers fail: when the debug board waits for its button, the LED
\* of a pattern whose last transfer succeeded is dark, and while none has
\* failed both LEDs are.
THEOREM PatternEndsDark == Spec => []EndsDark
<1>1. Init => DarkInv
  BY DEF Init, DriverInit, DarkInv, Loops, Quiet
<1>2. LedInv /\ DarkInv /\ [Next]_vars => DarkInv'
  BY DarkStep
<1>3. LedInv /\ DarkInv => EndsDark
  <2> SUFFICES ASSUME LedInv, DarkInv, pc = "wait"
               PROVE  /\ result = "ok" => Shows(ledDebug, 0) = Dark
                      /\ faults = 0 => Shows(led, 0) = Dark
    BY DEF EndsDark
  <2>1. /\ led \in ready /\ ledDebug \in ready /\ ready \subseteq Devices
        /\ CheckConfig /\ WholeInv /\ config = BoardConfig
    BY DEF LedInv, DriverInv, ShapeInv, PlaceInv, ConfigInv, DarkInv, Loops, Quiet
  <2>2. NumLeds = 1
    BY <2>1, BoardConfigLemma
  <2>3. Black = Dark
    <3>1. Black = [k \in Channel |-> Black[k]] /\ \A k \in Channel : Black[k] = 0
      BY DEF Black, Channel
    <3>2. QED  BY <3>1 DEF Dark
  <2>4. ASSUME NEW d \in ready, allowed[d][0] = {Black}
        PROVE  Shows(d, 0) = Dark
    <3>1. Allowed(d, 0, Color(chip[d].shown))
      BY <2>1, <2>2 DEF WholeInv
    <3>2. Shows(d, 0) = Color(chip[d].shown)
      BY <2>2 DEF Shows, Color
    <3>3. QED  BY <2>3, <2>4, <3>1, <3>2 DEF Allowed
  <2>5. QED  BY <2>1, <2>4 DEF DarkInv, Quiet
<1>4. QED  BY LedInvariant, <1>1, <1>2, <1>3, PTL DEF Spec
=============================================================================
