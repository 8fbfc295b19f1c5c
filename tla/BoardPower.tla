------------------------------- MODULE BoardPower -------------------------------
(***************************************************************************)
(* How a board is powered up: pwr_init and pwr_start with the board's own  *)
(* pwr_bsp_init and pwr_bsp_start, pin by pin, for the seven boards of the *)
(* examples, and what main() adds.  A restart makes the pins of the nRF    *)
(* inputs: a level is driven only from a successful gpio_pin_configure on. *)
(* The pins of the I2C expander outlive it: they are driven through the    *)
(* driver of module Pca64xxa, here by what it promises (PinBank), except   *)
(* that a call that fails may have reached the chip.                       *)
(*                                                                         *)
(* Locks, the PMIC's registers and GAP9's resets are the subject of Pwr.   *)
(***************************************************************************)
EXTENDS Integers, Sequences

CONSTANTS
    Boards,     \* those considered
    MaxFaults   \* bound: calls that fail and crashes, in a behaviour

\* The switches behind the expander, and the clock gate.
Port0 == {"i2c_sgp41", "hm0360_clk"}
Expander == Port0 \cup {"i2c_as7331", "i2c_scd41"}
\* "led" and "gap9" are supplies of every board, "gap9_i2c" connects GAP9.
Soc == {"gap9", "led", "gap9_i2c", "scd41", "sgp41", "debug_led"}
Pins == Expander \cup Soc
Shields == {"bme688", "scan"}
\* Built with CONFIG_ASSERT.
Asserting == {"bme688", "ble_bootloader"}

VARIABLES
    board,
    pc, at,           \* where main() is, and at which pin of a list
    pin,              \* what a pin drives: "low", "high", or, as an input,
                      \* "float"
    high, in,         \* the copy of the expander's driver
    rails,            \* the board's configuration is applied to the PMIC
    initialised, running,
    killing,          \* pwr_kill has begun
    faults

copyVars == <<high, in>>
lifeVars == <<initialised, running, killing>>
boardVars == <<board, pc, at, pin, copyVars, rails, lifeVars, faults>>

-----------------------------------------------------------------------------
(* The boards.                                                             *)

\* The pins pwr_init configures, then those of pwr_bsp_init.
InitPins ==
    <<"gap9", "led">> \o
    CASE board \in Shields ->
            <<"scd41", "sgp41", "i2c_sgp41", "i2c_as7331", "i2c_scd41",
              "hm0360_clk", "gap9_i2c">>
      [] board = "camera"   -> <<"hm0360_clk", "gap9_i2c">>
      [] board = "led_test" -> <<"gap9_i2c">>
      [] OTHER -> <<>>

\* Mutant: the buses are connected before the sensors are powered.
StartPinsBusFirst ==
    <<"led">> \o
    CASE board \in Shields ->
            <<"rails", "i2c_sgp41", "i2c_as7331", "i2c_scd41", "scd41",
              "sgp41", "hm0360_clk", "gap9", "gap9_i2c">>
      [] board = "camera"     -> <<"rails", "hm0360_clk", "gap9", "gap9_i2c">>
      [] board = "led_test"   -> <<"led">>
      [] board = "debug_test" -> <<"led", "debug_led">>
      [] OTHER -> <<>>

\* What pwr_start switches, then pwr_bsp_start ("rails" is max77654_config).
StartPins ==
    <<"led">> \o
    CASE board \in Shields ->
            <<"rails", "scd41", "sgp41", "i2c_sgp41", "i2c_as7331",
              "i2c_scd41", "hm0360_clk", "gap9", "gap9_i2c">>
      [] board = "camera"     -> <<"rails", "hm0360_clk", "gap9", "gap9_i2c">>
      [] board = "led_test"   -> <<"led">>
      [] board = "debug_test" -> <<"led", "debug_led">>
      [] OTHER -> <<>>

\* What main() switches later.
MainPins ==
    CASE board = "led_test"   -> <<"gap9_i2c", "gap9">>
      [] board = "debug_test" -> <<"gap9">>
      [] OTHER -> <<>>

\* GPIO_OUTPUT_INACTIVE; hm0360_clk is GPIO_ACTIVE_LOW and is set to 0, which
\* is inactive, too.
Inactive(p) == IF p = "hm0360_clk" THEN "high" ELSE "low"

-----------------------------------------------------------------------------
(* GPIO calls.                                                             *)

\* A call succeeds, or fails and may still have had its effect.
Try(ok) ==
    /\ ok \/ faults < MaxFaults
    /\ faults' = IF ok THEN faults ELSE faults + 1

\* What the chip drives once the output registers of the pins `levels', and
\* then the direction registers of the pins `dirs', are those of h and i.
Driven(h, i, levels, dirs) ==
    LET level(q) == IF q \in h THEN "high" ELSE "low"
    IN  [q \in Pins |->
            IF q \in dirs THEN IF q \in i THEN "float" ELSE level(q)
            ELSE IF q \in levels /\ pin[q] # "float" THEN level(q)
            ELSE pin[q]]

\* How far a call gets: the outputs of port 0, of port 1, and when it also
\* redirects, the directions of port 0, of port 1.
Prefixes(redirects) ==
    {<<{}, {}>>, <<Port0, {}>>, <<Expander, {}>>}
    \cup IF redirects THEN {<<Expander, Port0>>, <<Expander, Expander>>} ELSE {}

\* Every call writes all the registers, from the copy and what it changes.
ExpanderCall(h, i, redirects, ok) ==
    \/ /\ ok
       /\ pin' = Driven(h, i, Expander, IF redirects THEN Expander ELSE {})
       /\ high' = h /\ in' = i
    \/ /\ ~ok
       /\ \E w \in Prefixes(redirects) : pin' = Driven(h, i, w[1], w[2])
       /\ UNCHANGED copyVars

WithPin(p, level) == IF level = "high" THEN high \cup {p} ELSE high \ {p}

Configure(p, ok) ==
    IF p \in Expander
    THEN ExpanderCall(WithPin(p, Inactive(p)), in \ {p}, TRUE, ok)
    ELSE /\ pin' = IF ok THEN [pin EXCEPT ![p] = "low"] ELSE pin
         /\ UNCHANGED copyVars

\* A level for a pin of the nRF: on an input only OUT is written, which the
\* next gpio_pin_configure overwrites.
Drive(p, level) ==
    IF pin[p] = "float" THEN pin ELSE [pin EXCEPT ![p] = level]

\* Every pin is set to "high", the clock gate because it is active low.
Set(p, ok) ==
    IF p \in Expander
    THEN ExpanderCall(WithPin(p, "high"), in, FALSE, ok)
    ELSE /\ pin' = IF ok THEN Drive(p, "high") ELSE pin
         /\ UNCHANGED copyVars

-----------------------------------------------------------------------------
(* pwr_init.                                                               *)

\* The checks main() makes before: USB, on the bme688 board the sensor.
MainBegins ==
    /\ pc = "boot"
    /\ \/ pc' = "init"
       \/ board \in {"bme688", "ble_bootloader"} /\ pc' = "returned"
    /\ UNCHANGED <<board, at, pin, copyVars, rails, lifeVars, faults>>

\* A pin that cannot be configured ends pwr_init, but for GAP9's bus switch,
\* on which pwr_bsp_init returns 0.  (The bus being unready is a failure of
\* the first pin, or of InitPmic.)
ConfigurePin == \E ok \in BOOLEAN :
    /\ pc = "init" /\ at <= Len(InitPins)
    /\ Try(ok)
    /\ Configure(InitPins[at], ok)
    /\ IF ok \/ InitPins[at] = "gap9_i2c"
       THEN at' = at + 1 /\ pc' = pc
       ELSE at' = 1 /\ pc' = "start"
    /\ UNCHANGED <<board, rails, lifeVars>>

\* Reset of the PMIC, max77654_init, and thread_pwr_init up to check_battery.
InitPmic == \E ok \in BOOLEAN :
    /\ pc = "init" /\ at > Len(InitPins)
    /\ Try(ok)
    /\ rails' \in IF ok THEN {FALSE} ELSE {rails, FALSE}
    /\ at' = 1
    /\ pc' = IF ok THEN "battery" ELSE "start"
    /\ UNCHANGED <<board, pin, copyVars, lifeVars>>

InitDone ==
    /\ pc = "measured"
    /\ initialised' = TRUE
    /\ pc' = "start"
    /\ UNCHANGED <<board, at, pin, copyVars, rails, running, killing, faults>>

-----------------------------------------------------------------------------
(* pwr_start; no main() looks at what pwr_init and pwr_start return.       *)

\* __ASSERT_NO_MSG(pwr_is_initialised), where assertions are compiled in.
Halt ==
    /\ pc = "start" /\ ~initialised /\ board \in Asserting
    /\ pc' = "halted"
    /\ UNCHANGED <<board, at, pin, copyVars, rails, lifeVars, faults>>

\* Mutant: pwr_start goes on when a pin cannot be set.
StartPinGoesOn == \E ok \in BOOLEAN :
    /\ pc = "start" /\ at <= Len(StartPins)
    /\ initialised \/ board \notin Asserting
    /\ Try(ok)
    /\ IF StartPins[at] = "rails"
       THEN rails' = ok /\ UNCHANGED <<pin, copyVars>>
       ELSE Set(StartPins[at], ok) /\ UNCHANGED rails
    /\ at' = at + 1 /\ pc' = pc
    /\ UNCHANGED <<board, lifeVars>>

\* A failure ends pwr_start, unless it is of the PMIC's configuration (the
\* result is dropped), of gap9_pwr (it returns none) or of the debug board's
\* last pin (pwr_bsp_start returns 0).
StartPin == \E ok \in BOOLEAN :
    /\ pc = "start" /\ at <= Len(StartPins)
    /\ initialised \/ board \notin Asserting
    /\ Try(ok)
    /\ IF StartPins[at] = "rails"
       THEN rails' = ok /\ UNCHANGED <<pin, copyVars>>
       ELSE Set(StartPins[at], ok) /\ UNCHANGED rails
    /\ IF ok \/ StartPins[at] \in {"rails", "gap9", "debug_led"}
       THEN at' = at + 1 /\ pc' = pc
       ELSE at' = 1 /\ pc' = "main"
    /\ UNCHANGED <<board, lifeVars>>

\* thread_pwr_start.
StartThread ==
    /\ pc = "start" /\ at > Len(StartPins)
    /\ running' = TRUE
    /\ at' = 1 /\ pc' = "main"
    /\ UNCHANGED <<board, pin, copyVars, rails, initialised, killing, faults>>

\* GAP9's bus and supply, on the boards whose main() switches them, or an
\* error on which it returns.
MainPin == \E ok \in BOOLEAN :
    /\ pc = "main" /\ at <= Len(MainPins)
    /\ \/ /\ Try(ok)
          /\ Set(MainPins[at], ok)
          /\ at' = at + 1
          /\ pc' = IF ok \/ MainPins[at] = "gap9" THEN pc ELSE "returned"
       \/ ok /\ pc' = "returned" /\ UNCHANGED <<at, pin, copyVars, faults>>
    /\ UNCHANGED <<board, rails, lifeVars>>

-----------------------------------------------------------------------------
(* pwr_kill and restarts.                                                  *)

\* The power thread shuts down: the LED's supply goes low, ...
Kill ==
    /\ running /\ ~killing
    /\ killing' = TRUE
    /\ pin' = Drive("led", "low")
    /\ UNCHANGED <<board, pc, at, copyVars, rails, initialised, running,
                   faults>>

\* After a restart the nRF's pins are inputs; the kernel initialises the
\* expander's driver, which makes every pin of it one, too, or fails at some
\* register: the copy is zero then.
Restart(off) ==
    /\ pc' = "boot" /\ at' = 1
    /\ initialised' = FALSE /\ running' = FALSE /\ killing' = FALSE
    /\ rails' = (rails /\ ~off)
    /\ high' = {}
    /\ \/ /\ in' = Expander
          /\ pin' = [q \in Pins |-> "float"]
       \/ /\ in' = {}
          /\ \E w \in Prefixes(TRUE) :
                LET left == Driven({}, Expander, w[1], w[2])
                IN  pin' = [q \in Pins |-> IF q \in Soc THEN "float" ELSE left[q]]
    /\ UNCHANGED board

\* ... the rails go off, and sys_reboot is called; main() runs meanwhile.
Reboot == killing /\ Restart(TRUE) /\ UNCHANGED faults

\* A fatal error or a reset from outside restarts the processor at any time.
Crash == faults < MaxFaults /\ Restart(FALSE) /\ faults' = faults + 1

BoardInit ==
    /\ board \in Boards
    /\ pc = "boot" /\ at = 1
    /\ pin = [q \in Pins |-> "float"]
    /\ high = {} /\ in = Expander
    /\ rails = FALSE
    /\ initialised = FALSE /\ running = FALSE /\ killing = FALSE
    /\ faults = 0

PowerUp == \/ MainBegins
           \/ ConfigurePin
           \/ InitPmic
           \/ InitDone
           \/ Halt
           \/ StartPin
           \/ StartThread
           \/ MainPin

-----------------------------------------------------------------------------
(* Properties.                                                             *)

\* The bus is connected to a sensor only while the sensor is supplied, once
\* the power subsystem is initialised: through failures, crashes and restarts
\* that leave the expander's switches closed while the supplies drop
\* (pwr_bsp_start powers up first and then connects).
SensorBusPowered ==
    initialised => \A s \in {<<"i2c_sgp41", "sgp41">>, <<"i2c_scd41", "scd41">>} :
                      pin[s[1]] = "high" => pin[s[2]] = "high"

\* When pwr_start succeeds after an initialisation that did, the supplies and
\* switches of the board are on, although nobody looks at half of the results:
\* no error path loses one.  Excepted are the calls that drop their failure,
\* and GAP9's bus switch when its configuration failed: pwr_bsp_init returns 0
\* on that (pwr_bsp.c:107-110), and the switch is left an input for good.
RunningMeansPowered ==
    running /\ initialised /\ ~killing =>
        \A i \in 1..Len(StartPins) :
            \/ StartPins[i] \in {"rails", "gap9", "debug_led"}
            \/ pin[StartPins[i]] = "high"
            \/ StartPins[i] = "gap9_i2c" /\ pin["gap9_i2c"] = "float"
=============================================================================
