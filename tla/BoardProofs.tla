------------------------------ MODULE BoardProofs ------------------------------
(***************************************************************************)
(* Theorems about powering up a board, for any boards and any number of    *)
(* failed calls and crashes: no sensor is connected to the bus without its *)
(* supply, and a board that runs has its supplies and switches on, but for *)
(* what the code passes over.  And about its radio: no disconnection is    *)
(* forgotten.                                                              *)
(***************************************************************************)
EXTENDS SensorNode, SequenceTheorems, TLAPS

Buses == {"i2c_sgp41", "i2c_scd41"}
Booting == {"boot", "init", "battery", "measuring", "measured"}
Ignored == {"rails", "gap9", "debug_led"}

\* Of the buses, none is connected, nor will the next call connect one.
Clean == \A b \in Buses : b \notin high /\ pin[b] # "high"
Supplied == pin["sgp41"] = "high" /\ pin["scd41"] = "high"

\* The pins that pwr_init does not go on without: GAP9's bus switch may fail
\* to be configured, and nothing configures the supply of the debug LED.
Checked == Pins \ {"gap9_i2c", "debug_led"}

\* A pin is an output; one of the expander is so in the copy, too.
Ready(q) == q \notin in /\ pin[q] # "float"

\* A pin is on, and stays on with the next call to the expander; GAP9's bus
\* switch is on or was never configured.
On(q) == \/ pin[q] = "high" /\ (q \in Expander => q \in high)
         \/ q = "gap9_i2c" /\ pin[q] = "float"

TypesInv ==
    /\ at \in Nat \ {0}
    /\ pin \in [Pins -> {"low", "high", "float"}]
    /\ high \subseteq Expander /\ in \subseteq Expander
    /\ pc \in Booting => ~initialised /\ ~running
    /\ pc = "start" => ~running
    /\ pc \in Booting \ {"init"} => at = 1

\* A restart of the processor leaves buses connected, but not in the copy;
\* the fifth pin that pwr_init configures disconnects them.
BusInv ==
    /\ board \notin Shields => Clean
    /\ pc \in Booting => \A b \in Buses : b \notin high
    /\ pc = "init" /\ at > 5 => Clean
    /\ pc \in {"battery", "measuring", "measured"} => Clean
    /\ initialised => Clean \/ Supplied
    /\ initialised /\ pc = "start" /\ board \in Shields =>
          IF at <= 4 THEN Clean /\ (at = 4 => pin["scd41"] = "high") ELSE Supplied

\* When pwr_init succeeds, the pins that pwr_start will set are outputs: those
\* that pwr_init checks.
ReadyInv ==
    /\ pc = "init" => \A j \in 1..Len(InitPins) :
          j < at /\ InitPins[j] \in Checked => Ready(InitPins[j])
    /\ pc \in {"battery", "measuring", "measured"} \/ initialised =>
          \A j \in 1..Len(StartPins) :
              StartPins[j] \in Checked => Ready(StartPins[j])

OnInv ==
    /\ pc = "start" /\ initialised => \A j \in 1..Len(StartPins) :
          j < at /\ StartPins[j] \notin Ignored => On(StartPins[j])
    /\ RunningMeansPowered

BoardPowerInv == TypesInv /\ BusInv /\ ReadyInv /\ OnInv

-----------------------------------------------------------------------------
(* The lists of pins.                                                      *)

Names == {"gap9", "led", "scd41", "sgp41", "i2c_sgp41", "i2c_as7331", "i2c_scd41",
          "hm0360_clk", "gap9_i2c", "rails", "debug_led"}

LEMMA PinsLemma ==
    /\ Pins = Expander \cup Soc /\ Expander \cap Soc = {}
    /\ Buses \subseteq Expander
    /\ "hm0360_clk" \in Expander \ Buses /\ "i2c_as7331" \in Expander \ Buses
    /\ "gap9" \in Soc /\ "led" \in Soc /\ "scd41" \in Soc /\ "sgp41" \in Soc
    /\ "gap9_i2c" \in Soc /\ "debug_led" \in Soc
    /\ "rails" \notin Pins
    /\ Expander \subseteq Checked /\ "led" \in Checked
    /\ "scd41" \in Checked /\ "sgp41" \in Checked
BY DEF Pins, Expander, Port0, Soc, Buses, Checked

LEMMA ConcatLemma ==
    ASSUME NEW S, NEW s \in Seq(S), NEW t \in Seq(S)
    PROVE  /\ s \o t \in Seq(S) /\ Len(s \o t) = Len(s) + Len(t)
           /\ \A i \in 1..Len(s) : (s \o t)[i] = s[i]
           /\ \A i \in 1..Len(t) : (s \o t)[Len(s) + i] = t[i]
<1>1. Len(s) \in Nat /\ Len(t) \in Nat
  BY LenProperties
<1>2. /\ s \o t \in Seq(S) /\ Len(s \o t) = Len(s) + Len(t)
      /\ \A i \in 1..(Len(s) + Len(t)) :
            (s \o t)[i] = IF i <= Len(s) THEN s[i] ELSE t[i - Len(s)]
  BY ConcatProperties
<1>3. \A i \in 1..Len(s) : (s \o t)[i] = s[i]
  BY <1>1, <1>2
<1>4. \A i \in 1..Len(t) : (s \o t)[Len(s) + i] = t[i]
  <2> TAKE i \in 1..Len(t)
  <2>1. /\ Len(s) + i \in 1..(Len(s) + Len(t)) /\ ~(Len(s) + i <= Len(s))
        /\ (Len(s) + i) - Len(s) = i
    BY <1>1
  <2>2. QED  BY <1>2, <2>1
<1>5. QED  BY <1>2, <1>3, <1>4

LEMMA ListLemma ==
    ASSUME NEW S
    PROVE  /\ <<>> \in Seq(S) /\ Len(<<>>) = 0
           /\ \A a, b \in S : <<a>> \in Seq(S) /\ <<a, b>> \in Seq(S)
           /\ \A a, b, c, d \in S : <<a, b, c, d>> \in Seq(S)
           /\ \A a, b, c, d, e, f, g \in S : <<a, b, c, d, e, f, g>> \in Seq(S)
           /\ \A a, b, c, d, e, f, g, h, i \in S :
                  <<a, b, c, d, e, f, g, h, i>> \in Seq(S)
OBVIOUS

LEMMA InitPinsShields ==
    ASSUME board \in Shields
    PROVE  /\ Len(InitPins) = 9
           /\ InitPins[1] = "gap9" /\ InitPins[2] = "led"
           /\ InitPins[3] = "scd41" /\ InitPins[4] = "sgp41"
           /\ InitPins[5] = "i2c_sgp41" /\ InitPins[6] = "i2c_as7331"
           /\ InitPins[7] = "i2c_scd41" /\ InitPins[8] = "hm0360_clk"
           /\ InitPins[9] = "gap9_i2c"
<1> DEFINE s == <<"gap9", "led">>
           t == <<"scd41", "sgp41", "i2c_sgp41", "i2c_as7331", "i2c_scd41",
                  "hm0360_clk", "gap9_i2c">>
<1>1. InitPins = s \o t
  BY DEF InitPins, Shields
<1>2. s \in Seq(Names) /\ t \in Seq(Names)
  BY ListLemma DEF Names
<1>3. /\ Len(s) = 2 /\ Len(t) = 7 /\ s[1] = "gap9" /\ s[2] = "led"
      /\ t[1] = "scd41" /\ t[2] = "sgp41" /\ t[3] = "i2c_sgp41"
      /\ t[4] = "i2c_as7331" /\ t[5] = "i2c_scd41" /\ t[6] = "hm0360_clk"
      /\ t[7] = "gap9_i2c"
  OBVIOUS
<1> HIDE DEF s, t
<1>4. /\ Len(s \o t) = 9
      /\ \A i \in 1..2 : (s \o t)[i] = s[i]
      /\ \A i \in 1..7 : (s \o t)[2 + i] = t[i]
  <2>1. /\ Len(s \o t) = Len(s) + Len(t)
        /\ \A i \in 1..Len(s) : (s \o t)[i] = s[i]
        /\ \A i \in 1..Len(t) : (s \o t)[Len(s) + i] = t[i]
    <3>1. Len(s \o t) = Len(s) + Len(t)
      BY <1>2, ConcatLemma
    <3>2. \A i \in 1..Len(s) : (s \o t)[i] = s[i]
      BY <1>2, ConcatLemma
    <3>3. \A i \in 1..Len(t) : (s \o t)[Len(s) + i] = t[i]
      BY <1>2, ConcatLemma
    <3>4. QED  BY <3>1, <3>2, <3>3
  <2>2. Len(s) = 2 /\ Len(t) = 7
    BY <1>3
  <2>3. QED  BY <2>1, <2>2
<1>5. /\ (s \o t)[1] = s[1] /\ (s \o t)[2] = s[2] /\ (s \o t)[3] = t[1]
      /\ (s \o t)[4] = t[2] /\ (s \o t)[5] = t[3] /\ (s \o t)[6] = t[4]
      /\ (s \o t)[7] = t[5] /\ (s \o t)[8] = t[6] /\ (s \o t)[9] = t[7]
  BY <1>4, SMTT(30)
<1>6. QED  BY <1>1, <1>3, <1>4, <1>5

LEMMA InitPinsCamera ==
    ASSUME board = "camera"
    PROVE  /\ Len(InitPins) = 4
           /\ InitPins[1] = "gap9" /\ InitPins[2] = "led"
           /\ InitPins[3] = "hm0360_clk" /\ InitPins[4] = "gap9_i2c"
<1> DEFINE s == <<"gap9", "led">>
           t == <<"hm0360_clk", "gap9_i2c">>
<1>1. InitPins = s \o t
  BY DEF InitPins, Shields
<1>2. s \in Seq(Names) /\ t \in Seq(Names)
  BY ListLemma DEF Names
<1>3. /\ Len(s) = 2 /\ Len(t) = 2 /\ s[1] = "gap9" /\ s[2] = "led"
      /\ t[1] = "hm0360_clk" /\ t[2] = "gap9_i2c"
  OBVIOUS
<1> HIDE DEF s, t
<1>4. /\ Len(s \o t) = 4
      /\ \A i \in 1..2 : (s \o t)[i] = s[i]
      /\ \A i \in 1..2 : (s \o t)[2 + i] = t[i]
  <2>1. /\ Len(s \o t) = Len(s) + Len(t)
        /\ \A i \in 1..Len(s) : (s \o t)[i] = s[i]
        /\ \A i \in 1..Len(t) : (s \o t)[Len(s) + i] = t[i]
    <3>1. Len(s \o t) = Len(s) + Len(t)
      BY <1>2, ConcatLemma
    <3>2. \A i \in 1..Len(s) : (s \o t)[i] = s[i]
      BY <1>2, ConcatLemma
    <3>3. \A i \in 1..Len(t) : (s \o t)[Len(s) + i] = t[i]
      BY <1>2, ConcatLemma
    <3>4. QED  BY <3>1, <3>2, <3>3
  <2>2. Len(s) = 2 /\ Len(t) = 2
    BY <1>3
  <2>3. QED  BY <2>1, <2>2
<1>5. /\ (s \o t)[1] = s[1] /\ (s \o t)[2] = s[2] /\ (s \o t)[3] = t[1]
      /\ (s \o t)[4] = t[2]
  BY <1>4
<1>6. QED  BY <1>1, <1>3, <1>4, <1>5

LEMMA InitPinsOthers ==
    ASSUME board \notin Shields, board # "camera"
    PROVE  /\ Len(InitPins) \in Nat
           /\ \A j \in 1..Len(InitPins) : InitPins[j] \in Soc
           /\ Len(InitPins) >= 2 /\ InitPins[2] = "led"
<1> DEFINE s == <<"gap9", "led">>
           t == IF board = "led_test" THEN <<"gap9_i2c">> ELSE <<>>
<1>1. InitPins = s \o t
  BY DEF InitPins
<1>2. s \in Seq(Soc) /\ t \in Seq(Soc)
  BY ListLemma, PinsLemma
<1>3. Len(s) = 2 /\ s[2] = "led"
  OBVIOUS
<1> HIDE DEF s, t
<1>4. s \o t \in Seq(Soc) /\ Len(s \o t) = Len(s) + Len(t)
  BY <1>2, ConcatLemma
<1>5. \A i \in 1..Len(s) : (s \o t)[i] = s[i]
  BY <1>2, ConcatLemma
<1>6. Len(t) \in Nat
  BY <1>2, LenProperties
<1>7. Len(s \o t) >= 2 /\ (s \o t)[2] = "led"
  BY <1>3, <1>4, <1>5, <1>6
<1>8. QED  BY <1>1, <1>4, <1>7, LenProperties, ElementOfSeq

LEMMA StartPinsShields ==
    ASSUME board \in Shields
    PROVE  /\ Len(StartPins) = 10
           /\ StartPins[1] = "led" /\ StartPins[2] = "rails"
           /\ StartPins[3] = "scd41" /\ StartPins[4] = "sgp41"
           /\ StartPins[5] = "i2c_sgp41" /\ StartPins[6] = "i2c_as7331"
           /\ StartPins[7] = "i2c_scd41" /\ StartPins[8] = "hm0360_clk"
           /\ StartPins[9] = "gap9" /\ StartPins[10] = "gap9_i2c"
<1> DEFINE s == <<"led">>
           t == <<"rails", "scd41", "sgp41", "i2c_sgp41", "i2c_as7331",
                  "i2c_scd41", "hm0360_clk", "gap9", "gap9_i2c">>
<1>1. StartPins = s \o t
  BY DEF StartPins, Shields
<1>2. s \in Seq(Names) /\ t \in Seq(Names)
  BY ListLemma DEF Names
<1>3. /\ Len(s) = 1 /\ Len(t) = 9 /\ s[1] = "led"
      /\ t[1] = "rails" /\ t[2] = "scd41" /\ t[3] = "sgp41" /\ t[4] = "i2c_sgp41"
      /\ t[5] = "i2c_as7331" /\ t[6] = "i2c_scd41" /\ t[7] = "hm0360_clk"
      /\ t[8] = "gap9" /\ t[9] = "gap9_i2c"
  OBVIOUS
<1> HIDE DEF s, t
<1>4. /\ Len(s \o t) = 10
      /\ \A i \in 1..1 : (s \o t)[i] = s[i]
      /\ \A i \in 1..9 : (s \o t)[1 + i] = t[i]
  <2>1. /\ Len(s \o t) = Len(s) + Len(t)
        /\ \A i \in 1..Len(s) : (s \o t)[i] = s[i]
        /\ \A i \in 1..Len(t) : (s \o t)[Len(s) + i] = t[i]
    <3>1. Len(s \o t) = Len(s) + Len(t)
      BY <1>2, ConcatLemma
    <3>2. \A i \in 1..Len(s) : (s \o t)[i] = s[i]
      BY <1>2, ConcatLemma
    <3>3. \A i \in 1..Len(t) : (s \o t)[Len(s) + i] = t[i]
      BY <1>2, ConcatLemma
    <3>4. QED  BY <3>1, <3>2, <3>3
  <2>2. Len(s) = 1 /\ Len(t) = 9
    BY <1>3
  <2>3. Len(s) + Len(t) = 10
    BY <2>2
  <2>4. \A i \in 1..9 : (s \o t)[1 + i] = t[i]
    BY <2>1, <2>2
  <2>5. \A i \in 1..1 : (s \o t)[i] = s[i]
    BY <2>1, <2>2
  <2>6. QED  BY <2>1, <2>3, <2>4, <2>5
<1>5. /\ (s \o t)[1] = s[1] /\ (s \o t)[2] = t[1] /\ (s \o t)[3] = t[2]
      /\ (s \o t)[4] = t[3] /\ (s \o t)[5] = t[4]
  BY <1>4, SMTT(30)
<1>6. /\ (s \o t)[6] = t[5] /\ (s \o t)[7] = t[6] /\ (s \o t)[8] = t[7]
      /\ (s \o t)[9] = t[8] /\ (s \o t)[10] = t[9]
  BY <1>4, SMTT(30)
<1>7. QED  BY <1>1, <1>3, <1>4, <1>5, <1>6

LEMMA StartPinsCamera ==
    ASSUME board = "camera"
    PROVE  /\ Len(StartPins) = 5
           /\ StartPins[1] = "led" /\ StartPins[2] = "rails"
           /\ StartPins[3] = "hm0360_clk"
           /\ StartPins[4] = "gap9" /\ StartPins[5] = "gap9_i2c"
<1> DEFINE s == <<"led">>
           t == <<"rails", "hm0360_clk", "gap9", "gap9_i2c">>
<1>1. StartPins = s \o t
  BY DEF StartPins, Shields
<1>2. s \in Seq(Names) /\ t \in Seq(Names)
  BY ListLemma DEF Names
<1>3. /\ Len(s) = 1 /\ Len(t) = 4 /\ s[1] = "led"
      /\ t[1] = "rails" /\ t[2] = "hm0360_clk" /\ t[3] = "gap9" /\ t[4] = "gap9_i2c"
  OBVIOUS
<1> HIDE DEF s, t
<1>4. /\ Len(s \o t) = 5
      /\ \A i \in 1..1 : (s \o t)[i] = s[i]
      /\ \A i \in 1..4 : (s \o t)[1 + i] = t[i]
  <2>1. /\ Len(s \o t) = Len(s) + Len(t)
        /\ \A i \in 1..Len(s) : (s \o t)[i] = s[i]
        /\ \A i \in 1..Len(t) : (s \o t)[Len(s) + i] = t[i]
    <3>1. Len(s \o t) = Len(s) + Len(t)
      BY <1>2, ConcatLemma
    <3>2. \A i \in 1..Len(s) : (s \o t)[i] = s[i]
      BY <1>2, ConcatLemma
    <3>3. \A i \in 1..Len(t) : (s \o t)[Len(s) + i] = t[i]
      BY <1>2, ConcatLemma
    <3>4. QED  BY <3>1, <3>2, <3>3
  <2>2. Len(s) = 1 /\ Len(t) = 4
    BY <1>3
  <2>3. QED  BY <2>1, <2>2
<1>5. /\ (s \o t)[1] = s[1] /\ (s \o t)[2] = t[1] /\ (s \o t)[3] = t[2]
      /\ (s \o t)[4] = t[3] /\ (s \o t)[5] = t[4]
  BY <1>4
<1>6. QED  BY <1>1, <1>3, <1>4, <1>5

LEMMA StartPinsOthers ==
    ASSUME board \notin Shields, board # "camera"
    PROVE  /\ Len(StartPins) \in Nat
           /\ \A j \in 1..Len(StartPins) : StartPins[j] \in {"led", "debug_led"}
<1> DEFINE s == <<"led">>
           t == CASE board = "led_test" -> <<"led">>
                  [] board = "debug_test" -> <<"led", "debug_led">>
                  [] OTHER -> <<>>
<1>1. StartPins = s \o t
  BY DEF StartPins
<1>2. s \in Seq({"led", "debug_led"}) /\ t \in Seq({"led", "debug_led"})
  BY ListLemma
<1> HIDE DEF s, t
<1>3. s \o t \in Seq({"led", "debug_led"})
  BY <1>2, ConcatLemma
<1>4. QED  BY <1>1, <1>3, LenProperties, ElementOfSeq

-----------------------------------------------------------------------------
(* Calls to the expander and to the pins of the nRF.                       *)

Levels == {"low", "high", "float"}

LEMMA DrivenLemma ==
    ASSUME TypesInv, NEW h, NEW i, NEW levels, NEW dirs
    PROVE  /\ Driven(h, i, levels, dirs) \in [Pins -> Levels]
           /\ \A q \in Pins :
                 LET new == Driven(h, i, levels, dirs)[q]
                 IN  /\ q \notin levels \cup dirs => new = pin[q]
                     /\ q \notin h /\ pin[q] # "high" => new # "high"
                     /\ q \notin dirs /\ pin[q] # "float" => new # "float"
                     /\ q \notin dirs /\ q \in h /\ pin[q] = "high" => new = "high"
                     /\ q \in dirs => new = IF q \in i THEN "float"
                                            ELSE IF q \in h THEN "high" ELSE "low"
                     /\ q \in levels \ dirs /\ q \in h /\ pin[q] # "float"
                           => new = "high"
BY DEF Driven, TypesInv, Levels

\* A call to the expander that sets a pin.
LEMMA SetCall ==
    ASSUME TypesInv, NEW h \in SUBSET Expander, NEW ok, ExpanderCall(h, in, FALSE, ok)
    PROVE  /\ pin' \in [Pins -> Levels]
           /\ \A q \in Soc : pin'[q] = pin[q]
           /\ \A q \in Expander :
                 /\ q \notin h /\ pin[q] # "high" => pin'[q] # "high"
                 /\ pin[q] # "float" => pin'[q] # "float"
                 /\ q \in h /\ pin[q] = "high" => pin'[q] = "high"
           /\ in' = in
           /\ \/ high' = h /\ \A q \in h : pin[q] # "float" => pin'[q] = "high"
              \/ high' = high /\ ~ok
<1>1. /\ \A q \in Soc : q \in Pins /\ q \notin Expander
      /\ \A q \in Expander : q \in Pins
  BY PinsLemma
<1>2. ASSUME NEW w \in SUBSET Expander, pin' = Driven(h, in, w, {})
      PROVE  /\ pin' \in [Pins -> Levels]
             /\ \A q \in Soc : pin'[q] = pin[q]
             /\ \A q \in Expander :
                   /\ q \notin h /\ pin[q] # "high" => pin'[q] # "high"
                   /\ pin[q] # "float" => pin'[q] # "float"
                   /\ q \in h /\ pin[q] = "high" => pin'[q] = "high"
             /\ \A q \in w : q \in h /\ pin[q] # "float" => pin'[q] = "high"
  <2>1. \A q \in Soc : q \notin w \cup {}
    BY <1>1
  <2>2. \A q \in w : q \in Pins /\ q \in w \ {}
    BY <1>1
  <2>3. QED  BY <1>1, <1>2, <2>1, <2>2, DrivenLemma
<1>3. CASE ok /\ pin' = Driven(h, in, Expander, {}) /\ high' = h /\ in' = in
  BY <1>2, <1>3
<1>4. CASE ~ok /\ (\E w \in Prefixes(FALSE) : pin' = Driven(h, in, w[1], w[2]))
           /\ UNCHANGED copyVars
  <2>1. PICK w \in Prefixes(FALSE) : pin' = Driven(h, in, w[1], w[2])
    BY <1>4
  <2>2. w[1] \in SUBSET Expander /\ w[2] = {}
    BY <2>1 DEF Prefixes, Expander
  <2>3. QED  BY <1>2, <1>4, <2>1, <2>2 DEF copyVars
<1>5. QED  BY <1>3, <1>4 DEF ExpanderCall

\* A call to the expander that configures a pin.
LEMMA ConfigureCall ==
    ASSUME TypesInv, NEW h \in SUBSET Expander, NEW i \in SUBSET Expander, NEW ok,
           ExpanderCall(h, i, TRUE, ok)
    PROVE  /\ pin' \in [Pins -> Levels]
           /\ \A q \in Soc : pin'[q] = pin[q]
           /\ \A q \in Expander : q \notin h /\ pin[q] # "high" => pin'[q] # "high"
           /\ \/ /\ high' = h /\ in' = i
                 /\ \A q \in Expander : pin'[q] = IF q \in i THEN "float"
                                       ELSE IF q \in h THEN "high" ELSE "low"
              \/ ~ok /\ UNCHANGED copyVars
<1>1. /\ \A q \in Expander : q \in Pins
      /\ \A q \in Soc : q \in Pins /\ q \notin Expander
  BY PinsLemma
<1>2. ASSUME NEW w \in SUBSET Expander, NEW v \in SUBSET Expander,
             pin' = Driven(h, i, w, v)
      PROVE  /\ pin' \in [Pins -> Levels]
             /\ \A q \in Soc : pin'[q] = pin[q]
             /\ \A q \in Expander : q \notin h /\ pin[q] # "high" => pin'[q] # "high"
             /\ v = Expander => \A q \in Expander :
                   pin'[q] = IF q \in i THEN "float"
                             ELSE IF q \in h THEN "high" ELSE "low"
  <2>1. \A q \in Soc : q \notin w \cup v
    BY <1>1
  <2>2. QED  BY <1>1, <1>2, <2>1, DrivenLemma
<1>3. CASE ok /\ pin' = Driven(h, i, Expander, Expander) /\ high' = h /\ in' = i
  BY <1>2, <1>3
<1>4. CASE ~ok /\ (\E w \in Prefixes(TRUE) : pin' = Driven(h, i, w[1], w[2]))
           /\ UNCHANGED copyVars
  <2>1. PICK w \in Prefixes(TRUE) : pin' = Driven(h, i, w[1], w[2])
    BY <1>4
  <2>2. w[1] \in SUBSET Expander /\ w[2] \in SUBSET Expander
    BY <2>1 DEF Prefixes, Expander
  <2>3. QED  BY <1>2, <1>4, <2>1, <2>2
<1>5. QED  BY <1>3, <1>4 DEF ExpanderCall

\* A pin is set: it is on when the call succeeds, and those that were on stay.
LEMMA SetLemma ==
    ASSUME TypesInv, NEW p \in Pins, NEW ok, Set(p, ok)
    PROVE  /\ pin' \in [Pins -> Levels]
           /\ high' \subseteq Expander /\ in' = in
           /\ \A q \in Soc : q # p => pin'[q] = pin[q]
           /\ \A q \in Pins : pin[q] # "float" => pin'[q] # "float"
           /\ \A q \in Pins : On(q) => On(q)'
           /\ \A q \in Soc : pin[q] = "high" => pin'[q] = "high"
           /\ \A q \in Expander \ {p} : q \notin high /\ pin[q] # "high" =>
                                           q \notin high' /\ pin'[q] # "high"
           /\ ok /\ Ready(p) => pin'[p] = "high"
           /\ ok /\ (Ready(p) \/ p = "gap9_i2c") => On(p)'
<1>1. CASE p \in Expander
  <2>1. ExpanderCall(high \cup {p}, in, FALSE, ok)
    BY <1>1 DEF Set, WithPin
  <2>2. high \cup {p} \in SUBSET Expander /\ in \in SUBSET Expander
    BY <1>1 DEF TypesInv
  <2> DEFINE h == high \cup {p}
  <2>3. /\ pin' \in [Pins -> Levels]
        /\ \A q \in Soc : pin'[q] = pin[q]
        /\ \A q \in Expander :
              /\ q \notin h /\ pin[q] # "high" => pin'[q] # "high"
              /\ pin[q] # "float" => pin'[q] # "float"
              /\ q \in h /\ pin[q] = "high" => pin'[q] = "high"
        /\ in' = in
        /\ \/ high' = h /\ \A q \in h : pin[q] # "float" => pin'[q] = "high"
           \/ high' = high /\ ~ok
    <3> HIDE DEF h
    <3>1. ExpanderCall(h, in, FALSE, ok) /\ h \in SUBSET Expander
      BY <2>1, <2>2 DEF h
    <3>2. QED  BY <3>1, SetCall
  <2>4. high' \subseteq Expander
    BY <2>2, <2>3
  <2>5. \A q \in Pins : q \in Expander \/ q \in Soc
    BY PinsLemma
  <2>6. QED  BY <1>1, <2>3, <2>4, <2>5, PinsLemma DEF On, Ready
<1>2. CASE p \notin Expander
  <2>1. p \in Soc
    BY <1>2, PinsLemma
  <2>2. /\ pin' = IF ok /\ pin[p] # "float" THEN [pin EXCEPT ![p] = "high"] ELSE pin
        /\ UNCHANGED copyVars
    BY <1>2 DEF Set, Drive
  <2>3. DOMAIN pin = Pins /\ pin \in [Pins -> Levels]
    BY DEF TypesInv, Levels
  <2>4. \A q \in Pins : pin'[q] = IF ok /\ q = p /\ pin[p] # "float" THEN "high"
                                 ELSE pin[q]
    BY <2>2, <2>3
  <2>5. pin' \in [Pins -> Levels]
    BY <2>2, <2>3 DEF Levels
  <2>6. high' = high /\ in' = in /\ high \subseteq Expander
    BY <2>2 DEF copyVars, TypesInv
  <2>7. \A q \in Expander \cup Soc : q \in Pins
    BY PinsLemma
  <2>8. QED  BY <1>2, <2>1, <2>4, <2>5, <2>6, <2>7 DEF On, Ready
<1>3. QED  BY <1>1, <1>2

\* A pin is configured, inactive.
LEMMA ConfigureLemma ==
    ASSUME TypesInv, NEW p \in Pins, NEW ok, Configure(p, ok)
    PROVE  /\ pin' \in [Pins -> Levels]
           /\ high' \subseteq Expander /\ in' \subseteq Expander
           /\ \A b \in Buses : b \notin high => b \notin high'
           /\ \A b \in Buses : b \notin high /\ pin[b] # "high" => pin'[b] # "high"
           /\ \A q \in Pins : ok /\ Ready(q) => Ready(q)'
           /\ ok => Ready(p)'
           /\ p \in Expander /\ ok => \A b \in Buses : b \notin high => pin'[b] # "high"
           /\ p \notin Expander /\ ~ok => UNCHANGED <<pin, copyVars>>
<1>1. CASE p \in Expander
  <2> DEFINE h == WithPin(p, Inactive(p))
             i == in \ {p}
  <2>1. ExpanderCall(h, i, TRUE, ok)
    BY <1>1 DEF Configure
  <2>2. h \in SUBSET Expander /\ i \in SUBSET Expander
    BY <1>1 DEF TypesInv, WithPin
  <2>3. \A b \in Buses : b \notin high => b \notin h
    BY DEF WithPin, Inactive, Buses
  <2>4. \A q \in Expander : q \notin in => q \notin i
    OBVIOUS
  <2>5. p \notin i
    OBVIOUS
  <2> HIDE DEF h, i
  <2>6. /\ pin' \in [Pins -> Levels]
        /\ \A q \in Soc : pin'[q] = pin[q]
        /\ \A q \in Expander : q \notin h /\ pin[q] # "high" => pin'[q] # "high"
        /\ \/ /\ high' = h /\ in' = i
              /\ \A q \in Expander : pin'[q] = IF q \in i THEN "float"
                                    ELSE IF q \in h THEN "high" ELSE "low"
           \/ ~ok /\ UNCHANGED copyVars
    BY <2>1, <2>2, ConfigureCall
  <2>7. \A b \in Buses : b \in Expander
    BY PinsLemma
  <2>8. \A b \in Buses : b \notin high => b \notin high'
    BY <2>3, <2>6 DEF copyVars
  <2>9. high' \subseteq Expander /\ in' \subseteq Expander
    BY <2>2, <2>6 DEF copyVars, TypesInv
  <2>10. \A q \in Pins : ok /\ Ready(q) => Ready(q)'
    <3>1. \A q \in Expander : ok /\ Ready(q) => Ready(q)'
      BY <2>4, <2>6 DEF Ready
    <3>2. \A q \in Soc : q \notin Expander
      BY PinsLemma
    <3>3. \A q \in Soc : ok /\ Ready(q) => Ready(q)'
      BY <2>6, <2>9, <3>2 DEF Ready
    <3>4. QED  BY <3>1, <3>3, PinsLemma
  <2>11. ok => Ready(p)'
    BY <1>1, <2>5, <2>6 DEF Ready
  <2>12. QED  BY <1>1, <2>3, <2>6, <2>7, <2>8, <2>9, <2>10, <2>11
<1>2. CASE p \notin Expander
  <2>1. /\ pin' = IF ok THEN [pin EXCEPT ![p] = "low"] ELSE pin
        /\ UNCHANGED copyVars
    BY <1>2 DEF Configure
  <2>2. DOMAIN pin = Pins /\ pin \in [Pins -> Levels]
    BY DEF TypesInv, Levels
  <2>3. \A q \in Expander : q \in Pins /\ q # p
    BY <1>2, PinsLemma
  <2>4. \A q \in Expander : pin'[q] = pin[q]
    BY <2>1, <2>2, <2>3
  <2>5. pin' \in [Pins -> Levels]
    BY <2>1, <2>2 DEF Levels
  <2>6. high' = high /\ in' = in /\ high \subseteq Expander /\ in \subseteq Expander
    BY <2>1 DEF copyVars, TypesInv
  <2>7. \A b \in Buses : b \in Expander
    BY PinsLemma
  <2>8. \A q \in Pins : ok /\ Ready(q) => Ready(q)'
    BY <2>1, <2>2, <2>6 DEF Ready
  <2>9. ok => Ready(p)'
    BY <1>2, <2>1, <2>2, <2>6 DEF Ready
  <2>10. QED  BY <1>2, <2>1, <2>4, <2>5, <2>6, <2>7, <2>8, <2>9
<1>3. QED  BY <1>1, <1>2

-----------------------------------------------------------------------------
(* What the lists say.                                                     *)

LEMMA InitPinsLemma ==
    /\ Len(InitPins) \in Nat
    /\ \A j \in 1..Len(InitPins) : InitPins[j] \in Pins
    /\ board \in Shields => Len(InitPins) = 9 /\ InitPins[5] = "i2c_sgp41"
<1>1. CASE board \in Shields
  <2>1. \A j \in 1..9 : j \in {1, 2, 3, 4, 5, 6, 7, 8, 9}
    OBVIOUS
  <2>2. \A j \in 1..9 : InitPins[j] \in Names \ {"rails"}
    BY <1>1, <2>1, InitPinsShields DEF Names
  <2>3. Names \ {"rails"} \subseteq Pins
    BY DEF Names, Pins, Expander, Port0, Soc
  <2>4. Len(InitPins) = 9 /\ InitPins[5] = "i2c_sgp41"
    BY <1>1, InitPinsShields
  <2>5. QED  BY <2>2, <2>3, <2>4
<1>2. CASE board = "camera"
  <2>1. \A j \in 1..4 : j \in {1, 2, 3, 4}
    OBVIOUS
  <2>2. board \notin Shields
    BY <1>2 DEF Shields
  <2>3. Len(InitPins) = 4
    BY <1>2, InitPinsCamera
  <2>4. \A j \in 1..4 : InitPins[j] \in Pins
    BY <1>2, <2>1, InitPinsCamera, PinsLemma
  <2>5. QED  BY <2>2, <2>3, <2>4
<1>3. CASE board \notin Shields /\ board # "camera"
  BY <1>3, InitPinsOthers, PinsLemma
<1>4. QED  BY <1>1, <1>2, <1>3

LEMMA StartPinsLemma ==
    /\ Len(StartPins) \in Nat
    /\ \A j \in 1..Len(StartPins) : StartPins[j] \in Pins \cup {"rails"}
    /\ board \notin Shields => \A j \in 1..Len(StartPins) : StartPins[j] \notin Buses
    /\ board \in Shields => /\ \A j \in 1..4 : StartPins[j] \notin Buses
                            /\ StartPins[3] = "scd41" /\ StartPins[4] = "sgp41"
<1>1. CASE board \in Shields
  <2>1. /\ \A j \in 1..10 : j \in {1, 2, 3, 4, 5, 6, 7, 8, 9, 10}
        /\ \A j \in 1..4 : j \in {1, 2, 3, 4}
    OBVIOUS
  <2>2. \A j \in 1..10 : StartPins[j] \in Names
    BY <1>1, <2>1, StartPinsShields DEF Names
  <2>3. Names \subseteq Pins \cup {"rails"}
    BY DEF Names, Pins, Expander, Port0, Soc
  <2>4. \A j \in 1..4 : StartPins[j] \notin Buses
    BY <1>1, <2>1, StartPinsShields DEF Buses
  <2>5. Len(StartPins) = 10 /\ StartPins[3] = "scd41" /\ StartPins[4] = "sgp41"
    BY <1>1, StartPinsShields
  <2>6. QED  BY <1>1, <2>2, <2>3, <2>4, <2>5
<1>2. CASE board = "camera"
  <2>1. \A j \in 1..5 : j \in {1, 2, 3, 4, 5}
    OBVIOUS
  <2>2. board \notin Shields
    BY <1>2 DEF Shields
  <2>3. \A j \in 1..5 : StartPins[j] \in Pins \cup {"rails"} /\ StartPins[j] \notin Buses
    BY <1>2, <2>1, StartPinsCamera, PinsLemma DEF Buses
  <2>4. Len(StartPins) = 5
    BY <1>2, StartPinsCamera
  <2>5. QED  BY <2>2, <2>3, <2>4
<1>3. CASE board \notin Shields /\ board # "camera"
  <2>1. "led" \notin Buses /\ "debug_led" \notin Buses
    BY DEF Buses
  <2>2. QED  BY <1>3, <2>1, StartPinsOthers, PinsLemma
<1>4. QED  BY <1>1, <1>2, <1>3

\* What pwr_start sets was configured, but for the two pins nobody checks.
LEMMA ConfiguredLemma ==
    ASSUME \A j \in 1..Len(InitPins) : InitPins[j] \in Checked => Ready(InitPins[j])
    PROVE  \A j \in 1..Len(StartPins) : StartPins[j] \in Checked => Ready(StartPins[j])
<1>1. CASE board \in Shields
  <2>1. \A j \in 1..10 : j \in {1, 2, 3, 4, 5, 6, 7, 8, 9, 10}
    OBVIOUS
  <2>2. \A q \in {"gap9", "led", "scd41", "sgp41", "i2c_sgp41", "i2c_as7331",
                  "i2c_scd41", "hm0360_clk"} : q \in Checked => Ready(q)
    <3>1. \A j \in 1..8 : j \in 1..9
      OBVIOUS
    <3>2. 1 \in 1..8 /\ 2 \in 1..8 /\ 3 \in 1..8 /\ 4 \in 1..8 /\ 5 \in 1..8
          /\ 6 \in 1..8 /\ 7 \in 1..8 /\ 8 \in 1..8
      OBVIOUS
    <3>3. QED  BY <1>1, <3>1, <3>2, InitPinsShields
  <2>3. "rails" \notin Checked /\ "gap9_i2c" \notin Checked
    BY PinsLemma DEF Checked
  <2>4. \A j \in 1..10 :
            StartPins[j] \in {"gap9", "led", "scd41", "sgp41", "i2c_sgp41",
                              "i2c_as7331", "i2c_scd41", "hm0360_clk", "rails",
                              "gap9_i2c"}
    BY <1>1, <2>1, StartPinsShields
  <2>5. \A j \in 1..10 : StartPins[j] \in Checked => Ready(StartPins[j])
    BY <2>2, <2>3, <2>4
  <2>6. Len(StartPins) = 10
    BY <1>1, StartPinsShields
  <2>7. QED  BY <2>5, <2>6
<1>2. CASE board = "camera"
  <2>1. \A j \in 1..5 : j \in {1, 2, 3, 4, 5}
    OBVIOUS
  <2>2. \A q \in {"gap9", "led", "hm0360_clk"} : q \in Checked => Ready(q)
    <3>1. 1 \in 1..4 /\ 2 \in 1..4 /\ 3 \in 1..4
      OBVIOUS
    <3>2. QED  BY <1>2, <3>1, InitPinsCamera
  <2>3. "rails" \notin Checked /\ "gap9_i2c" \notin Checked
    BY PinsLemma DEF Checked
  <2>4. QED  BY <1>2, <2>1, <2>2, <2>3, StartPinsCamera
<1>3. CASE board \notin Shields /\ board # "camera"
  <2>1. Len(InitPins) \in Nat /\ Len(InitPins) >= 2 /\ InitPins[2] = "led"
    BY <1>3, InitPinsOthers
  <2>2. 2 \in 1..Len(InitPins)
    BY <2>1
  <2>3. Ready("led")
    BY <2>1, <2>2, PinsLemma
  <2>4. \A j \in 1..Len(StartPins) : StartPins[j] \in {"led", "debug_led"}
    BY <1>3, StartPinsOthers
  <2>5. "debug_led" \notin Checked
    BY DEF Checked
  <2>6. QED  BY <2>3, <2>4, <2>5
<1>4. QED  BY <1>1, <1>2, <1>3

LEMMA MainPinsLemma == \A j \in 1..Len(MainPins) : MainPins[j] \in Soc
<1>1. CASE board = "led_test"
  <2>1. MainPins = <<"gap9_i2c", "gap9">>
    BY <1>1 DEF MainPins
  <2>2. QED  BY <2>1, PinsLemma
<1>2. CASE board = "debug_test"
  <2>1. MainPins = <<"gap9">>
    BY <1>2 DEF MainPins
  <2>2. QED  BY <2>1, PinsLemma
<1>3. CASE board # "led_test" /\ board # "debug_test"
  <2>1. MainPins = <<>>
    BY <1>3 DEF MainPins
  <2>2. QED  BY <2>1
<1>4. QED  BY <1>1, <1>2, <1>3

-----------------------------------------------------------------------------
(* The steps.                                                              *)

LEMMA BoardStutters == BoardPowerInv /\ UNCHANGED boardVars => BoardPowerInv'
<1> SUFFICES ASSUME BoardPowerInv, UNCHANGED boardVars  PROVE BoardPowerInv'
  OBVIOUS
<1> USE DEF boardVars, copyVars, lifeVars
<1>1. InitPins' = InitPins /\ StartPins' = StartPins
  BY DEF InitPins, StartPins
<1>2. TypesInv'
  BY DEF BoardPowerInv, TypesInv
<1>3. BusInv'
  BY DEF BoardPowerInv, BusInv, Clean, Supplied
<1>4. ReadyInv'
  BY <1>1 DEF BoardPowerInv, ReadyInv, Ready
<1>5. OnInv'
  BY <1>1 DEF BoardPowerInv, OnInv, On, RunningMeansPowered
<1>6. QED  BY <1>2, <1>3, <1>4, <1>5 DEF BoardPowerInv

LEMMA ListsLemma == board' = board => InitPins' = InitPins /\ StartPins' = StartPins
BY DEF InitPins, StartPins

LEMMA MainBeginsStep == BoardPowerInv /\ MainBegins => BoardPowerInv'
<1> SUFFICES ASSUME BoardPowerInv, MainBegins  PROVE BoardPowerInv'
  OBVIOUS
<1> USE DEF MainBegins, copyVars, lifeVars
<1>1. at = 1 /\ ~initialised /\ ~running /\ pc = "boot" /\ pc' \in {"init", "returned"}
  BY DEF BoardPowerInv, TypesInv, Booting
<1>2. TypesInv'
  BY <1>1 DEF BoardPowerInv, TypesInv, Booting
<1>3. BusInv'
  BY <1>1 DEF BoardPowerInv, BusInv, Clean, Booting
<1>4. ReadyInv'
  BY <1>1 DEF BoardPowerInv, ReadyInv
<1>5. OnInv'
  BY <1>1 DEF OnInv, RunningMeansPowered
<1>6. QED  BY <1>2, <1>3, <1>4, <1>5 DEF BoardPowerInv

LEMMA ConfigurePinStep == BoardPowerInv /\ ConfigurePin => BoardPowerInv'
<1> SUFFICES ASSUME BoardPowerInv, ConfigurePin  PROVE BoardPowerInv'
  OBVIOUS
<1>1. PICK ok \in BOOLEAN, p \in {InitPins[at]} :
        /\ pc = "init" /\ at <= Len(InitPins)
        /\ Configure(p, ok)
        /\ IF ok \/ p = "gap9_i2c" THEN at' = at + 1 /\ pc' = pc
           ELSE at' = 1 /\ pc' = "start"
        /\ UNCHANGED <<board, rails, lifeVars>>
  BY DEF ConfigurePin
<1>2. /\ at \in 1..Len(InitPins) /\ p \in Pins /\ ~initialised /\ ~running
      /\ ~initialised' /\ ~running' /\ board' = board
  BY <1>1, InitPinsLemma DEF BoardPowerInv, TypesInv, Booting, lifeVars
<1>3. InitPins' = InitPins /\ StartPins' = StartPins
  BY <1>2, ListsLemma
<1>4. TypesInv
  BY DEF BoardPowerInv
<1>5. /\ pin' \in [Pins -> Levels]
      /\ high' \subseteq Expander /\ in' \subseteq Expander
      /\ \A b \in Buses : b \notin high => b \notin high'
      /\ \A b \in Buses : b \notin high /\ pin[b] # "high" => pin'[b] # "high"
      /\ \A q \in Pins : ok /\ Ready(q) => Ready(q)'
      /\ ok => Ready(p)'
      /\ p \in Expander /\ ok => \A b \in Buses : b \notin high => pin'[b] # "high"
      /\ p \notin Expander /\ ~ok => UNCHANGED <<pin, copyVars>>
  BY <1>1, <1>2, <1>4, ConfigureLemma
<1>6. \/ (ok \/ p = "gap9_i2c") /\ at' = at + 1 /\ pc' = "init"
      \/ pc' = "start"
  BY <1>1
<1>7. TypesInv'
  BY <1>1, <1>2, <1>5, <1>6 DEF TypesInv, Levels, Booting
<1>8. \A b \in Buses : b \notin high /\ b \notin high'
  BY <1>1, <1>5 DEF BoardPowerInv, BusInv, Booting
<1>9. Clean => Clean'
  BY <1>5, <1>8 DEF Clean
<1>10. board \in Shields /\ at = 5 /\ pc' = "init" => Clean'
  <2>1. ASSUME board \in Shields, at = 5, pc' = "init"  PROVE Clean'
    <3>1. p = "i2c_sgp41"
      BY <2>1, InitPinsLemma, <1>1
    <3>2. ok /\ p \in Expander
      BY <1>6, <2>1, <3>1, PinsLemma DEF Buses
    <3>3. QED  BY <1>5, <1>8, <3>2 DEF Clean
  <2>2. QED  BY <2>1
<1>11. BusInv'
  <2>1. board \notin Shields => Clean'
    BY <1>9 DEF BoardPowerInv, BusInv
  <2>2. pc' = "init" /\ at' > 5 => Clean'
    <3>1. ASSUME pc' = "init", at' > 5, board \in Shields  PROVE Clean'
      <4>1. at = 5 \/ at > 5
        BY <1>2, <1>6, <3>1
      <4>2. QED  BY <1>1, <1>9, <1>10, <3>1, <4>1 DEF BoardPowerInv, BusInv
    <3>2. QED  BY <2>1, <3>1
  <2>3. QED  BY <1>2, <1>6, <1>8, <2>1, <2>2 DEF BusInv
<1>12. ReadyInv'
  <2>1. ASSUME pc' = "init", NEW j \in 1..Len(InitPins), j < at',
               InitPins[j] \in Checked
        PROVE  Ready(InitPins[j])'
    <3>1. j < at \/ j = at
      BY <1>2, <1>6, <2>1
    <3>2. PICK q \in {InitPins[j]} : q \in Pins /\ q \in Checked /\ InitPins'[j] = q
      BY <1>3, <2>1, InitPinsLemma
    <3>3. Ready(q)'
      <4>1. CASE j < at /\ ok
        <5>1. Ready(q)
          BY <1>1, <2>1, <3>2, <4>1 DEF BoardPowerInv, ReadyInv
        <5>2. QED  BY <1>5, <3>2, <4>1, <5>1
      <4>2. CASE j < at /\ ~ok
        <5>1. Ready(q)
          BY <1>1, <2>1, <3>2, <4>2 DEF BoardPowerInv, ReadyInv
        <5>2. p = "gap9_i2c" /\ p \notin Expander
          BY <1>6, <2>1, <4>2, PinsLemma
        <5>3. QED  BY <1>5, <4>2, <5>1, <5>2 DEF Ready, copyVars
      <4>3. CASE j = at
        <5>1. p = q
          BY <1>1, <3>2, <4>3
        <5>2. p # "gap9_i2c"
          BY <3>2, <5>1 DEF Checked
        <5>3. ok
          BY <1>6, <2>1, <5>2
        <5>4. QED  BY <1>5, <5>1, <5>3
      <4>4. QED  BY <3>1, <4>1, <4>2, <4>3
    <3>4. QED  BY <3>2, <3>3 DEF Ready
  <2>2. QED  BY <1>2, <1>3, <1>6, <2>1 DEF ReadyInv
<1>13. OnInv'
  BY <1>2 DEF OnInv, RunningMeansPowered
<1>14. QED  BY <1>7, <1>11, <1>12, <1>13 DEF BoardPowerInv

LEMMA InitPmicStep == BoardPowerInv /\ InitPmic => BoardPowerInv'
<1> SUFFICES ASSUME BoardPowerInv, InitPmic  PROVE BoardPowerInv'
  OBVIOUS
<1> USE DEF copyVars, lifeVars
<1>1. /\ pc = "init" /\ at > Len(InitPins) /\ ~initialised /\ ~running
      /\ at' = 1 /\ pc' \in {"battery", "start"}
      /\ UNCHANGED <<board, pin, copyVars, initialised, running>>
  BY DEF BoardPowerInv, TypesInv, Booting, InitPmic
<1>2. InitPins' = InitPins /\ StartPins' = StartPins
  BY <1>1, ListsLemma
<1>3. TypesInv'
  BY <1>1 DEF BoardPowerInv, TypesInv, Booting
<1>4. Clean
  <2>1. at \in Nat
    BY DEF BoardPowerInv, TypesInv
  <2>2. board \in Shields => at > 5
    BY <1>1, <2>1, InitPinsLemma, SMTT(30)
  <2>3. QED  BY <1>1, <2>2 DEF BoardPowerInv, BusInv
<1>5. BusInv'
  BY <1>1, <1>4 DEF BusInv, Clean
<1>6. ReadyInv'
  <2>1. \A j \in 1..Len(InitPins) : j < at
    BY <1>1, InitPinsLemma DEF BoardPowerInv, TypesInv
  <2>2. \A j \in 1..Len(InitPins) : InitPins[j] \in Checked => Ready(InitPins[j])
    BY <1>1, <2>1 DEF BoardPowerInv, ReadyInv
  <2>3. \A j \in 1..Len(StartPins) : StartPins[j] \in Checked => Ready(StartPins[j])
    BY <2>2, ConfiguredLemma
  <2>4. QED  BY <1>1, <1>2, <2>3 DEF ReadyInv, Ready
<1>7. OnInv'
  BY <1>1 DEF OnInv, RunningMeansPowered
<1>8. QED  BY <1>3, <1>5, <1>6, <1>7 DEF BoardPowerInv

\* thread_pwr_init measures the battery; pwr_is_initialised is set after it.
LEMMA InitEndsStep ==
    ASSUME BoardPowerInv, UNCHANGED <<board, at, pin, copyVars, running>>,
           \/ pc = "battery" /\ pc' = "measuring" /\ UNCHANGED initialised
           \/ pc = "measuring" /\ pc' = "measured" /\ UNCHANGED initialised
           \/ pc = "measured" /\ pc' = "start"
    PROVE  BoardPowerInv'
<1> USE DEF copyVars
<1>1. /\ pc \in {"battery", "measuring", "measured"} /\ at = 1
      /\ ~initialised /\ ~running /\ ~running'
      /\ pc' \in {"measuring", "measured", "start"}
      /\ pc' # "start" => ~initialised'
  BY DEF BoardPowerInv, TypesInv, Booting
<1>2. InitPins' = InitPins /\ StartPins' = StartPins
  BY ListsLemma
<1>3. TypesInv'
  BY <1>1 DEF BoardPowerInv, TypesInv, Booting
<1>4. Clean'
  BY <1>1 DEF BoardPowerInv, BusInv, Clean
<1>5. BusInv'
  BY <1>1, <1>4 DEF BusInv, Clean
<1>6. ReadyInv'
  BY <1>1, <1>2 DEF BoardPowerInv, ReadyInv, Ready
<1>7. OnInv'
  BY <1>1, <1>2, StartPinsLemma DEF OnInv, RunningMeansPowered
<1>8. QED  BY <1>3, <1>5, <1>6, <1>7 DEF BoardPowerInv

LEMMA HaltStep == BoardPowerInv /\ Halt => BoardPowerInv'
<1> SUFFICES ASSUME BoardPowerInv, Halt  PROVE BoardPowerInv'
  OBVIOUS
<1> USE DEF copyVars, lifeVars, Halt
<1>1. ~initialised /\ ~running /\ pc' = "halted"
  BY DEF BoardPowerInv, TypesInv
<1>2. TypesInv'
  BY <1>1 DEF BoardPowerInv, TypesInv, Booting
<1>3. BusInv'
  BY <1>1 DEF BoardPowerInv, BusInv, Clean, Booting
<1>4. ReadyInv'
  BY <1>1 DEF ReadyInv
<1>5. OnInv'
  BY <1>1 DEF OnInv, RunningMeansPowered
<1>6. QED  BY <1>2, <1>3, <1>4, <1>5 DEF BoardPowerInv

LEMMA StartPinStep == BoardPowerInv /\ StartPin => BoardPowerInv'
<1> SUFFICES ASSUME BoardPowerInv, StartPin  PROVE BoardPowerInv'
  OBVIOUS
<1>1. PICK ok \in BOOLEAN, p \in {StartPins[at]} :
        /\ pc = "start" /\ at <= Len(StartPins)
        /\ IF p = "rails" THEN UNCHANGED <<pin, copyVars>> ELSE Set(p, ok)
        /\ IF ok \/ p \in Ignored THEN at' = at + 1 /\ pc' = pc
           ELSE at' = 1 /\ pc' = "main"
        /\ UNCHANGED <<board, lifeVars>>
  BY DEF StartPin, Ignored
<1>2. /\ at \in 1..Len(StartPins) /\ p \in Pins \cup {"rails"} /\ p = StartPins[at]
      /\ ~running /\ ~running' /\ initialised' = initialised /\ board' = board
  BY <1>1, StartPinsLemma DEF BoardPowerInv, TypesInv, lifeVars
<1>3. InitPins' = InitPins /\ StartPins' = StartPins
  BY <1>2, ListsLemma
<1>4. TypesInv
  BY DEF BoardPowerInv
<1>5. \/ (ok \/ p \in Ignored) /\ at' = at + 1 /\ pc' = "start"
      \/ pc' = "main" /\ at' = 1
  BY <1>1
<1>6. /\ pin' \in [Pins -> Levels]
      /\ high' \subseteq Expander /\ in' = in
      /\ \A q \in Pins : pin[q] # "float" => pin'[q] # "float"
      /\ \A q \in Pins : On(q) => On(q)'
      /\ \A q \in Soc : pin[q] = "high" => pin'[q] = "high"
      /\ \A q \in Expander \ {p} : q \notin high /\ pin[q] # "high" =>
                                      q \notin high' /\ pin'[q] # "high"
      /\ p \in Pins /\ ok /\ Ready(p) => pin'[p] = "high"
      /\ p \in Pins /\ ok /\ (Ready(p) \/ p = "gap9_i2c") => On(p)'
  <2>1. CASE p = "rails"
    <3>1. p \notin Pins
      BY <2>1, PinsLemma
    <3>2. UNCHANGED <<pin, high, in>>
      BY <1>1, <2>1 DEF copyVars
    <3>3. QED  BY <1>4, <3>1, <3>2 DEF TypesInv, Levels, On
  <2>2. CASE p # "rails"
    <3>1. p \in Pins /\ Set(p, ok)
      BY <1>1, <1>2, <2>2
    <3>2. QED  BY <1>4, <3>1, SetLemma
  <2>3. QED  BY <2>1, <2>2
<1>7. TypesInv'
  BY <1>2, <1>4, <1>5, <1>6 DEF TypesInv, Levels, Booting
<1>8. p \notin Buses /\ Clean => Clean'
  BY <1>6, PinsLemma DEF Clean
<1>9. Supplied => Supplied'
  BY <1>6, PinsLemma DEF Supplied
<1>10. ok /\ initialised /\ p \in {"scd41", "sgp41"} => pin'[p] = "high"
  <2>1. p \in {"scd41", "sgp41"} => p \in Checked /\ p \in Pins
    BY PinsLemma
  <2>2. initialised /\ p \in Checked => Ready(p)
    BY <1>2 DEF BoardPowerInv, ReadyInv
  <2>3. QED  BY <1>6, <2>1, <2>2
<1>11. BusInv'
  <2>1. board \notin Shields => Clean'
    BY <1>2, <1>8, StartPinsLemma DEF BoardPowerInv, BusInv
  <2>2. ASSUME initialised, board \in Shields
        PROVE  /\ at <= 3 => Clean' /\ (at = 3 /\ pc' = "start" => pin'["scd41"] = "high")
               /\ at = 4 => Clean' /\ (pc' = "start" => Supplied')
               /\ at > 4 => Supplied'
    <3>1. IF at <= 4 THEN Clean /\ (at = 4 => pin["scd41"] = "high") ELSE Supplied
      BY <1>1, <2>2 DEF BoardPowerInv, BusInv
    <3>2. at <= 4 => Clean'
      <4>1. at <= 4 => at \in 1..4
        BY <1>2
      <4>2. QED  BY <1>2, <1>8, <2>2, <3>1, <4>1, StartPinsLemma
    <3>3. at > 4 => Supplied'
      BY <1>2, <1>9, <3>1
    <3>4. at = 3 /\ pc' = "start" => pin'["scd41"] = "high"
      <4>1. at = 3 => p = "scd41"
        BY <1>2, <2>2, StartPinsLemma
      <4>2. at = 3 /\ pc' = "start" => ok
        BY <1>5, <4>1 DEF Ignored
      <4>3. QED  BY <1>10, <2>2, <4>1, <4>2
    <3>5. at = 4 /\ pc' = "start" => Supplied'
      <4>1. at = 4 => p = "sgp41" /\ pin["scd41"] = "high"
        BY <1>2, <2>2, <3>1, StartPinsLemma
      <4>2. at = 4 /\ pc' = "start" => ok
        BY <1>5, <4>1 DEF Ignored
      <4>3. at = 4 => pin'["scd41"] = "high"
        BY <1>6, <4>1, PinsLemma
      <4>4. QED  BY <1>10, <2>2, <4>1, <4>2, <4>3 DEF Supplied
    <3>6. QED  BY <1>2, <3>2, <3>3, <3>4, <3>5
  <2>3. initialised => Clean' \/ Supplied'
    BY <1>2, <2>1, <2>2
  <2>4. ASSUME initialised, board \in Shields, pc' = "start"
        PROVE  IF at' <= 4 THEN Clean' /\ (at' = 4 => pin'["scd41"] = "high") ELSE Supplied'
    <3>1. at' = at + 1
      BY <1>5, <2>4
    <3>2. CASE at <= 3
      BY <1>2, <2>2, <2>4, <3>1, <3>2
    <3>3. CASE at = 4
      BY <1>2, <2>2, <2>4, <3>1, <3>3
    <3>4. CASE at > 4
      BY <1>2, <2>2, <2>4, <3>1, <3>4
    <3>5. QED  BY <1>2, <3>2, <3>3, <3>4
  <2>5. QED  BY <1>2, <1>5, <2>1, <2>3, <2>4 DEF BusInv, Booting
<1>12. ReadyInv'
  <2>1. \A q \in Pins : Ready(q) => Ready(q)'
    BY <1>6 DEF Ready
  <2>2. initialised => \A j \in 1..Len(StartPins) :
            StartPins[j] \in Checked => Ready(StartPins[j])
    BY DEF BoardPowerInv, ReadyInv
  <2>3. initialised => \A j \in 1..Len(StartPins) :
            StartPins[j] \in Checked => Ready(StartPins[j])'
    BY <1>3, <1>6, <2>2, PinsLemma DEF Ready, Checked
  <2>4. QED  BY <1>2, <1>3, <1>5, <2>3 DEF ReadyInv
<1>13. OnInv'
  <2>1. ASSUME initialised, pc' = "start", NEW j \in 1..Len(StartPins), j < at',
               StartPins[j] \notin Ignored
        PROVE  On(StartPins[j])'
    <3>1. j < at \/ j = at
      BY <1>2, <1>5, <2>1
    <3>2. PICK q \in {StartPins[j]} : q \in Pins /\ StartPins'[j] = q
      BY <1>3, <2>1, StartPinsLemma DEF Ignored
    <3>3. On(q)'
      <4>1. CASE j < at
        <5>1. On(q)
          BY <1>1, <2>1, <3>2, <4>1 DEF BoardPowerInv, OnInv
        <5>2. QED  BY <1>6, <3>2, <5>1
      <4>2. CASE j = at
        <5>1. q = p
          BY <1>2, <3>2, <4>2
        <5>2. ok
          BY <1>5, <2>1, <3>2, <5>1
        <5>3. q \in Checked => Ready(q)
          BY <2>1, <3>2 DEF BoardPowerInv, ReadyInv
        <5>4. q \in Checked \/ q = "gap9_i2c"
          BY <2>1, <3>2 DEF Checked, Ignored
        <5>5. QED  BY <1>6, <3>2, <5>1, <5>2, <5>3, <5>4
      <4>3. QED  BY <3>1, <4>1, <4>2
    <3>4. QED  BY <3>2, <3>3 DEF On
  <2>2. QED  BY <1>2, <1>3, <2>1 DEF OnInv, RunningMeansPowered
<1>14. QED  BY <1>7, <1>11, <1>12, <1>13 DEF BoardPowerInv

LEMMA StartThreadStep == BoardPowerInv /\ StartThread => BoardPowerInv'
<1> SUFFICES ASSUME BoardPowerInv, StartThread  PROVE BoardPowerInv'
  OBVIOUS
<1>1. /\ pc = "start" /\ at > Len(StartPins) /\ at' = 1 /\ pc' = "main"
      /\ UNCHANGED <<board, pin, high, in, initialised>>
  BY DEF StartThread, copyVars
<1>2. InitPins' = InitPins /\ StartPins' = StartPins
  BY <1>1, ListsLemma
<1>3. TypesInv'
  BY <1>1 DEF BoardPowerInv, TypesInv, Booting
<1>4. BusInv'
  BY <1>1 DEF BoardPowerInv, BusInv, Clean, Supplied, Booting
<1>5. ReadyInv'
  BY <1>1, <1>2 DEF BoardPowerInv, ReadyInv, Ready
<1>6. OnInv'
  <2>1. \A j \in 1..Len(StartPins) : j < at
    BY <1>1, StartPinsLemma DEF BoardPowerInv, TypesInv
  <2>2. initialised => \A j \in 1..Len(StartPins) :
            StartPins[j] \notin Ignored => On(StartPins[j])
    BY <1>1, <2>1 DEF BoardPowerInv, OnInv
  <2>3. QED  BY <1>1, <1>2, <2>2 DEF OnInv, RunningMeansPowered, Ignored, On
<1>7. QED  BY <1>3, <1>4, <1>5, <1>6 DEF BoardPowerInv

\* main() switches pins of the nRF, and only on.
LEMMA MainPinStep == BoardPowerInv /\ MainPin => BoardPowerInv'
<1> SUFFICES ASSUME BoardPowerInv, MainPin  PROVE BoardPowerInv'
  OBVIOUS
<1>1. /\ pc = "main" /\ pc' \in {"main", "returned"} /\ at \in 1..Len(MainPins)
      /\ at' \in {at, at + 1} /\ UNCHANGED <<board, initialised, running, killing>>
      /\ \/ \E ok \in BOOLEAN : Set(MainPins[at], ok)
         \/ UNCHANGED <<pin, copyVars>>
  <2>1. at \in Nat \ {0} /\ Len(MainPins) \in Nat
    BY DEF BoardPowerInv, TypesInv, MainPins
  <2>2. QED  BY <2>1 DEF MainPin, lifeVars
<1>2. InitPins' = InitPins /\ StartPins' = StartPins /\ TypesInv
  BY <1>1, ListsLemma DEF BoardPowerInv
<1>3. /\ pin' \in [Pins -> Levels]
      /\ high' \subseteq Expander /\ in' = in
      /\ \A q \in Pins : pin[q] # "float" => pin'[q] # "float"
      /\ \A q \in Pins : pin[q] = "high" => pin'[q] = "high"
      /\ \A q \in Soc : pin[q] = "float" => pin'[q] = "float"
      /\ \A q \in Expander : q \notin high /\ pin[q] # "high" =>
                                q \notin high' /\ pin'[q] # "high"
  <2>1. CASE UNCHANGED <<pin, copyVars>>
    BY <1>2, <2>1 DEF TypesInv, Levels, copyVars
  <2>2. CASE \E ok \in BOOLEAN : Set(MainPins[at], ok)
    <3>1. PICK ok \in BOOLEAN, p \in {MainPins[at]} : Set(p, ok)
      BY <2>2
    <3>2. p \in Soc /\ p \in Pins /\ p \notin Expander
      BY <1>1, <3>1, MainPinsLemma, PinsLemma
    <3>3. pin \in [Pins -> Levels]
      BY <1>2 DEF TypesInv, Levels
    <3>4. /\ pin' = IF ok /\ pin[p] # "float" THEN [pin EXCEPT ![p] = "high"] ELSE pin
          /\ high' = high /\ in' = in
      BY <3>1, <3>2 DEF Set, Drive, copyVars
    <3>5. \A q \in Pins : pin'[q] = IF ok /\ q = p /\ pin[p] # "float" THEN "high"
                                   ELSE pin[q]
      BY <3>3, <3>4
    <3>6. pin' \in [Pins -> Levels]
      BY <3>3, <3>4 DEF Levels
    <3>7. /\ \A q \in Expander : q \in Pins /\ q # p
          /\ \A q \in Soc : q \in Pins
      BY <3>2, PinsLemma
    <3>8. QED  BY <1>2, <3>4, <3>5, <3>6, <3>7 DEF TypesInv
  <2>3. QED  BY <1>1, <2>1, <2>2
<1>4. TypesInv'
  BY <1>1, <1>2, <1>3 DEF TypesInv, Levels, Booting
<1>5. BusInv'
  <2>1. Clean => Clean'
    BY <1>3, PinsLemma DEF Clean
  <2>2. Supplied => Supplied'
    BY <1>3, PinsLemma DEF Supplied
  <2>3. QED  BY <1>1, <2>1, <2>2 DEF BoardPowerInv, BusInv, Booting
<1>6. ReadyInv'
  BY <1>1, <1>2, <1>3, PinsLemma DEF BoardPowerInv, ReadyInv, Ready, Checked
<1>7. OnInv'
  <2>1. ASSUME running, initialised, ~killing, NEW i \in 1..Len(StartPins)
        PROVE  \/ StartPins[i] \in {"rails", "gap9", "debug_led"}
               \/ pin'[StartPins[i]] = "high"
               \/ StartPins[i] = "gap9_i2c" /\ pin'["gap9_i2c"] = "float"
    <3>1. \/ StartPins[i] \in {"rails", "gap9", "debug_led"}
          \/ pin[StartPins[i]] = "high"
          \/ StartPins[i] = "gap9_i2c" /\ pin["gap9_i2c"] = "float"
      BY <2>1 DEF BoardPowerInv, OnInv, RunningMeansPowered
    <3>2. StartPins[i] \in Pins \cup {"rails"}
      BY StartPinsLemma
    <3>3. "gap9_i2c" \in Soc
      BY DEF Soc
    <3>4. QED  BY <1>3, <3>1, <3>2, <3>3
  <2>2. RunningMeansPowered'
    BY <1>1, <1>2, <2>1 DEF RunningMeansPowered
  <2>3. QED  BY <1>1, <2>2 DEF OnInv
<1>8. QED  BY <1>4, <1>5, <1>6, <1>7 DEF BoardPowerInv

LEMMA KillStep == BoardPowerInv /\ Kill => BoardPowerInv'
<1> SUFFICES ASSUME BoardPowerInv, Kill  PROVE BoardPowerInv'
  OBVIOUS
<1>1. /\ running /\ killing'
      /\ pin' = IF pin["led"] = "float" THEN pin ELSE [pin EXCEPT !["led"] = "low"]
      /\ UNCHANGED <<board, pc, at, high, in, initialised, running>>
  BY DEF Kill, Drive, copyVars
<1>2. pc \notin Booting \cup {"start"}
  BY <1>1 DEF BoardPowerInv, TypesInv
<1>3. InitPins' = InitPins /\ StartPins' = StartPins
  BY <1>1, ListsLemma
<1>4. /\ pin' \in [Pins -> Levels]
      /\ \A q \in Pins : q # "led" => pin'[q] = pin[q]
      /\ \A q \in Pins : pin[q] # "float" => pin'[q] # "float"
  BY <1>1 DEF BoardPowerInv, TypesInv, Levels
<1>5. \A q \in Expander : q \in Pins /\ q # "led"
  BY PinsLemma
<1>6. "sgp41" \in Pins /\ "scd41" \in Pins /\ "sgp41" # "led" /\ "scd41" # "led"
  BY PinsLemma
<1>7. TypesInv'
  BY <1>1, <1>2, <1>4 DEF BoardPowerInv, TypesInv, Levels
<1>8. BusInv'
  <2>1. Clean => Clean'
    BY <1>1, <1>4, <1>5, PinsLemma DEF Clean
  <2>2. Supplied => Supplied'
    BY <1>4, <1>6 DEF Supplied
  <2>3. QED  BY <1>1, <1>2, <2>1, <2>2 DEF BoardPowerInv, BusInv, Booting
<1>9. ReadyInv'
  BY <1>1, <1>2, <1>3, <1>4 DEF BoardPowerInv, ReadyInv, Ready, Checked, Booting
<1>10. OnInv'
  BY <1>1, <1>2 DEF OnInv, RunningMeansPowered
<1>11. QED  BY <1>7, <1>8, <1>9, <1>10 DEF BoardPowerInv

LEMMA RestartStep ==
    ASSUME BoardPowerInv, NEW off, Restart(off)
    PROVE  BoardPowerInv'
<1>1. /\ pc' = "boot" /\ at' = 1 /\ ~initialised' /\ ~running' /\ high' = {}
      /\ board' = board
      /\ \/ /\ in' = Expander
            /\ pin' = [q \in Pins |-> "float"]
         \/ /\ in' = {}
            /\ \E w \in Prefixes(TRUE) :
                  LET left == Driven({}, Expander, w[1], w[2])
                  IN  pin' = [q \in Pins |-> IF q \in Soc THEN "float" ELSE left[q]]
  BY DEF Restart
<1>2. /\ pin' \in [Pins -> Levels]
      /\ \A q \in Expander : pin[q] # "high" => pin'[q] # "high"
  <2>1. CASE pin' = [q \in Pins |-> "float"]
    BY <2>1, PinsLemma DEF Levels
  <2>2. ASSUME NEW left \in [Pins -> Levels],
               \A q \in Pins : pin[q] # "high" => left[q] # "high",
               pin' = [q \in Pins |-> IF q \in Soc THEN "float" ELSE left[q]]
        PROVE  /\ pin' \in [Pins -> Levels]
               /\ \A q \in Expander : pin[q] # "high" => pin'[q] # "high"
    BY <2>2, PinsLemma DEF Levels
  <2>3. ASSUME NEW w \in Prefixes(TRUE)
        PROVE  LET left == Driven({}, Expander, w[1], w[2])
               IN  /\ left \in [Pins -> Levels]
                   /\ \A q \in Pins : pin[q] # "high" => left[q] # "high"
    BY DrivenLemma DEF BoardPowerInv
  <2>4. QED  BY <1>1, <2>1, <2>2, <2>3
<1>3. TypesInv'
  <2>1. in' \subseteq Expander
    BY <1>1
  <2>2. pin' \in [Pins -> {"low", "high", "float"}]
    BY <1>2 DEF Levels
  <2>3. at' = 1 /\ high' = {} /\ ~initialised' /\ ~running'
    BY <1>1
  <2>4. at' \in Nat \ {0} /\ high' \subseteq Expander
    BY <2>3
  <2>5. QED  BY <2>1, <2>2, <2>3, <2>4 DEF TypesInv
<1>4. Clean => Clean'
  BY <1>1, <1>2, PinsLemma DEF Clean
<1>5. BusInv'
  BY <1>1, <1>4 DEF BoardPowerInv, BusInv
<1>6. ReadyInv'
  BY <1>1 DEF ReadyInv
<1>7. OnInv'
  BY <1>1 DEF OnInv, RunningMeansPowered
<1>8. QED  BY <1>3, <1>5, <1>6, <1>7 DEF BoardPowerInv

LEMMA BoardInitially == Init => BoardPowerInv
<1> SUFFICES ASSUME Init  PROVE BoardPowerInv
  OBVIOUS
<1>1. /\ pc = "boot" /\ at = 1 /\ high = {} /\ in = Expander
      /\ ~initialised /\ ~running
      /\ pin = [q \in Pins |-> "float"]
  BY DEF Init, BoardInit
<1>2. TypesInv
  BY <1>1 DEF TypesInv
<1>3. Clean
  BY <1>1, PinsLemma DEF Clean
<1>4. BusInv /\ ReadyInv /\ OnInv
  BY <1>1, <1>3 DEF BusInv, Clean, ReadyInv, OnInv, RunningMeansPowered
<1>5. QED  BY <1>2, <1>4 DEF BoardPowerInv

LEMMA BoardStep == BoardPowerInv /\ [Next]_vars => BoardPowerInv'
<1> SUFFICES ASSUME BoardPowerInv, [Next]_vars  PROVE BoardPowerInv'
  OBVIOUS
<1>1. CASE PowerUp
  <2>1. CASE InitDone
    <3>1. /\ pc = "measured" /\ pc' = "start"
          /\ UNCHANGED <<board, at, pin, copyVars, running>>
      BY <2>1 DEF InitDone
    <3>2. QED  BY <3>1, InitEndsStep
  <2>2. QED
    BY <1>1, <2>1, MainBeginsStep, ConfigurePinStep, InitPmicStep, HaltStep,
       StartPinStep, StartThreadStep, MainPinStep DEF PowerUp
<1>2. CASE FirstCheck
  <2>1. /\ UNCHANGED <<board, at, pin, copyVars, running, initialised>>
        /\ \/ pc = "battery" /\ pc' = "measuring"
           \/ pc = "measuring" /\ pc' = "measured"
    BY <1>2 DEF FirstCheck, lifeVars
  <2>2. QED  BY <2>1, InitEndsStep
<1>3. CASE ThreadKills
  BY <1>3, KillStep DEF ThreadKills
<1>4. CASE AllDown
  BY <1>4, RestartStep DEF AllDown, Reboot, Crash
<1>5. CASE UNCHANGED boardVars
  BY <1>5, BoardStutters
<1>6. QED
  BY <1>1, <1>2, <1>3, <1>4, <1>5
  DEF Next, vars, MainStartsBluetooth, ThreadChecks, CheckGoesOn

\* The inductive invariant of powering up.
THEOREM BoardInvariance == Spec => []BoardPowerInv
BY BoardInitially, BoardStep, PTL DEF Spec

\* Once the power subsystem is initialised a sensor is connected to the bus only
\* while it is supplied, however many calls fail and wherever the processor
\* restarts: pwr_init takes back what a restart left connected.
THEOREM BoardBusPowered == Spec => []SensorBusPowered
<1>1. BoardPowerInv => SensorBusPowered
  BY DEF BoardPowerInv, BusInv, Clean, Supplied, Buses, SensorBusPowered
<1>2. QED  BY <1>1, BoardInvariance, PTL

\* When pwr_start succeeded after pwr_init did, the supplies and switches of the
\* board are on, for any board and any failures before, but for those whose
\* failure the code passes over; GAP9's bus switch is on or was never configured.
THEOREM BoardRunningPowered == Spec => []RunningMeansPowered
<1>1. BoardPowerInv => RunningMeansPowered
  BY DEF BoardPowerInv, OnInv
<1>2. QED  BY <1>1, BoardInvariance, PTL

-----------------------------------------------------------------------------
(* The radio: the safety half of Reachable and Retried, which suppose that *)
(* the work queue runs.                                                    *)

\* Advertising is on, or waits for a connection object, or something is queued
\* or running that will start it, or the last start failed.
Findable == adv # "off" \/ work # "idle" \/ advFailed

RadioInv ==
    /\ conns \in Nat /\ closing \in Nat /\ conns + closing <= MaxConn
    /\ work \in {"idle", "queued", "running", "requeued"}
    /\ bt # "ready" => work = "idle" /\ adv = "off" /\ conns = 0 /\ closing = 0 /\ ~owed
    /\ bt = "ready" => Findable
    /\ owed => work \in {"queued", "requeued"}

\* bt_ready and disconnected submit the work item: it will run.
LEMMA SubmitLemma == Submit => work' \in {"queued", "requeued"}
BY DEF Submit

LEMMA RadioStep == RadioInv /\ [Next]_vars => RadioInv'
<1> SUFFICES ASSUME RadioInv, [Next]_vars  PROVE RadioInv'
  OBVIOUS
<1> USE MaxConnAssumption DEF RadioInv, Findable
<1>1. CASE UNCHANGED bleVars
  BY <1>1 DEF bleVars
<1>2. CASE StartBluetooth
  BY <1>2 DEF StartBluetooth
<1>3. CASE BtReady
  BY <1>3, SubmitLemma DEF BtReady
<1>4. CASE AdvStop
  BY <1>4 DEF AdvStop
<1>5. CASE AdvStart
  BY <1>5 DEF AdvStart
<1>6. CASE Connected
  BY <1>6 DEF Connected, Full
<1>7. CASE Disconnected
  BY <1>7, SubmitLemma DEF Disconnected
<1>8. CASE Release \/ Resume
  BY <1>8 DEF Release, Resume
<1>9. CASE BleRestart
  BY <1>9 DEF BleRestart
<1>10. QED
  BY <1>1, <1>2, <1>3, <1>4, <1>5, <1>6, <1>7, <1>8, <1>9
  DEF Next, vars, MainStartsBluetooth, FirstCheck, ThreadChecks, CheckGoesOn,
      ThreadKills, Stack, AllDown

\* No disconnection is forgotten and no node that is ready falls silent without
\* a failed start: whatever disconnects while the work item runs, the work item
\* is queued (again) until it has begun an attempt that follows, and it never
\* ends with the advertiser off.  Connection objects in use and being closed are
\* never more than there are (bluetooth.c, for any CONFIG_BT_MAX_CONN).
THEOREM NothingForgotten == Spec => []RadioInv
<1>1. Init => RadioInv
  BY MaxConnAssumption DEF Init, BleOff, RadioInv
<1>2. QED  BY <1>1, RadioStep, PTL DEF Spec
=============================================================================
