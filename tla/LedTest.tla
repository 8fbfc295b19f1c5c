-------------------------------- MODULE LedTest --------------------------------
(***************************************************************************)
(* The programs that use the LED driver of module Is31fl3194:              *)
(*   "debug"  the debug board's test, with a LED on the board and one on   *)
(*            the debug board, and two buttons (debug_test/src_NRF);       *)
(*   "led"    the LED test: the nRF shows its colours, then gives bus and  *)
(*            power to GAP9, which shows a rainbow on the same chip        *)
(*            (led_test/src_NRF and src_GAP9);                             *)
(*   "api"    any sequence of calls, for the routines of the driver that   *)
(*            no program of the repository calls, and other devicetrees.   *)
(***************************************************************************)
EXTENDS Is31fl3194

CONSTANTS
    led, ledDebug, \* the two devices
    Devicetrees,   \* the configurations that "api" is run with
    MaxRestarts    \* bound: restarts of the processor in a behaviour

\* current-limit, in milliamperes, is an enumeration in the binding.
CurrentLimits == {10, 20, 30, 40}
ColorIds == {"red", "green", "blue", "white"} \* white: any other one

ASSUME LedAssumption ==
    led \in Devices /\ ledDebug \in Devices /\ led # ledDebug

\* Any number of LEDs, each with any list of colours and a limit.
ASSUME DevicetreeAssumption ==
    \A c \in Devicetrees :
        /\ c.leds \in Seq(Seq(ColorIds)) /\ c.leds # <<>>
        /\ c.limits \in [1..Len(c.leds) -> CurrentLimits]

VARIABLES
    app,      \* the program
    pc, idx,  \* where its main() is, and in which colour of the sequence
    sem,      \* show_led_pattern_sem, limit 1
    owed,     \* history: button 1 was pressed and no pattern has begun since
    lights,   \* the green and the yellow debug LED, those that are on
    gap9,     \* what the program of GAP9 does; "off" without power or bus
    restarts

appVars == <<app, pc, idx, sem, owed, lights, restarts>>
vars == <<ledVars, appVars, gap9>>

\* color_sequence: red, green, blue, white, yellow, purple, cyan, orange.
ColorSequence == << <<255, 0, 0>>, <<0, 255, 0>>, <<0, 0, 255>>,
                    <<255, 255, 255>>, <<255, 255, 0>>, <<255, 0, 255>>,
                    <<0, 255, 255>>, <<244, 121, 32>> >>

BoardConfig == [leds |-> <<Rgb>>, limits |-> <<10>>]

Goto(a, b) == pc = a /\ pc' = b
Idle == todo = <<>>
Toggle(light) == lights' = (lights \ {light}) \cup ({light} \ lights)

-----------------------------------------------------------------------------
(* show_led_pattern.                                                       *)

\* led_set_color of colour idx; after the last colour, of black.
Show(d, i) == SetColor(d, 0, 3, IF i <= 8 THEN ColorSequence[i] ELSE <<0, 0, 0>>)

\* Mutant: the LED is not switched off after the last colour.
PatternLeaves(d, loop, next) ==
    /\ pc = loop
    /\ Idle
    /\ IF result = "ok" /\ idx < 8
       THEN /\ Show(d, idx + 1) /\ idx' = idx + 1 /\ pc' = loop
       ELSE /\ idx' = 0 /\ pc' = next /\ UNCHANGED ledVars

\* The next colour once the last is shown.  A failure ends the pattern, but
\* for the last call, whose result is ignored.
Pattern(d, loop, next) ==
    /\ pc = loop
    /\ Idle
    /\ IF idx = 0 \/ (result = "ok" /\ idx < 9)
       THEN /\ Show(d, idx + 1) /\ idx' = idx + 1 /\ pc' = loop
       ELSE /\ idx' = 0 /\ pc' = next /\ UNCHANGED ledVars

-----------------------------------------------------------------------------
(* debug_test/src_NRF/main.c.                                              *)

\* POST_KERNEL: the devices are initialised before main.
DeviceInit ==
    /\ Idle
    /\ \/ Goto("init", "init2") /\ InitDevice(led)
       \/ app = "debug" /\ Goto("init2", "power") /\ InitDevice(ledDebug)
       \/ app # "debug" /\ Goto("init2", "power") /\ UNCHANGED ledVars
    /\ UNCHANGED <<app, idx, sem, owed, lights, restarts, gap9>>

\* pwr_init and pwr_start, whose results main drops; then the LED devices,
\* the console and USB, or return 0.
Checks ==
    /\ Idle
    /\ \/ /\ led \in ready /\ (app = "debug" => ledDebug \in ready)
          /\ Goto("power", CASE app = "debug" -> "pattern"
                             [] app = "led"   -> "colors"
                             [] OTHER         -> "api")
       \/ Goto("power", "returned")
    /\ UNCHANGED <<ledVars, app, idx, sem, owed, lights, restarts, gap9>>

Patterns ==
    /\ \/ Pattern(led, "pattern", "pattern2")
       \/ Pattern(ledDebug, "pattern2", "buttons")
       \/ Pattern(ledDebug, "again", "toggle")
    /\ UNCHANGED <<app, sem, owed, lights, restarts, gap9>>

\* The buttons' pins, interrupts and callbacks, the boot mode's pin, GAP9's
\* supply and the pins of the two LEDs, or return 0; then the green LED
\* toggles, or return 0.
SetUp ==
    /\ \/ Goto("buttons", "button2") /\ UNCHANGED lights
       \/ Goto("button2", "outputs") /\ UNCHANGED lights
       \/ Goto("outputs", "toggle") /\ UNCHANGED lights
       \/ /\ \E p \in {"buttons", "button2", "outputs"} : Goto(p, "returned")
          /\ UNCHANGED lights
       \/ Goto("toggle", "wait") /\ Toggle("green")
       \/ Goto("toggle", "returned") /\ UNCHANGED lights
    /\ UNCHANGED <<ledVars, app, idx, sem, owed, restarts, gap9>>

\* k_sem_take with its timeout of SLEEP_TIME_MS.
TakeSem ==
    /\ \/ Goto("wait", "again") /\ sem = 1 /\ sem' = 0 /\ owed' = FALSE
       \/ Goto("wait", "toggle") /\ sem = 0 /\ UNCHANGED <<sem, owed>>
    /\ UNCHANGED <<ledVars, app, idx, lights, restarts, gap9>>

Armed(b) == app = "debug" /\
    pc \in ({"outputs", "toggle", "wait", "again"} \cup
               IF b = 1 THEN {"button2"} ELSE {})

\* Mutant: a press while the pattern shows is ignored.
Button1Idle ==
    /\ Armed(1) /\ ~owed
    /\ sem' = (IF pc = "again" THEN sem ELSE 1) /\ owed' = TRUE
    /\ UNCHANGED <<ledVars, app, pc, idx, lights, restarts, gap9>>

\* debug_button1_pressed, an interrupt; a second press changes nothing more.
Button1 ==
    /\ Armed(1) /\ ~owed
    /\ sem' = 1 /\ owed' = TRUE
    /\ UNCHANGED <<ledVars, app, pc, idx, lights, restarts, gap9>>

\* debug_button2_pressed.  A toggle that fails changes nothing: a stutter.
Button2 ==
    /\ Armed(2)
    /\ Toggle("yellow")
    /\ UNCHANGED <<ledVars, app, pc, idx, sem, owed, restarts, gap9>>

-----------------------------------------------------------------------------
(* led_test/src_NRF/main.c.                                                *)

\* The colours of the sequence, then the bus and the supply for GAP9, or
\* return 0 at the first failure.
LedColors ==
    /\ Idle
    /\ \/ /\ pc = "colors" /\ idx < 8 /\ (idx = 0 \/ result = "ok")
          /\ Show(led, idx + 1) /\ idx' = idx + 1 /\ pc' = "colors"
          /\ UNCHANGED gap9
       \/ /\ Goto("colors", "sleep") /\ idx = 8 /\ result = "ok"
          /\ gap9' = "start"
          /\ UNCHANGED <<ledVars, idx>>
       \/ /\ Goto("colors", "returned")
          /\ idx > 0 /\ (idx = 8 \/ result # "ok")
          /\ UNCHANGED <<ledVars, idx, gap9>>
    /\ UNCHANGED <<app, sem, owed, lights, restarts>>

-----------------------------------------------------------------------------
(* led_test/src_GAP9/main.c.                                               *)

\* set_rgb_color and the writes of turn_on_led, whose results are ignored:
\* the transfers in `lost' fail, number 4 being the update.
GapWrites(level, lost) ==
    LET staged == [i \in Channel |->
                      IF i \in lost THEN chip[led].staged[i] ELSE level[i]]
    IN  /\ chip' = [chip EXCEPT ![led].staged = staged,
                                ![led].shown = IF 4 \in lost THEN @ ELSE staged]
        /\ allowed' = [allowed EXCEPT ![led] = [l \in 0..2 |-> {}]]
        /\ faults' = IF lost = {} THEN faults ELSE faults + 1
        /\ UNCHANGED <<config, ready, dev, todo, result, target>>

Losses == {{}} \cup {l \in {{1}, {2}, {3}, {4}} : faults < MaxFaults}

\* turn_on_led: show red, green and blue, after the reset and configuration
\* of the chip, which are one step here and leave it black.
TurnOn ==
    /\ \E lost \in Losses :
          \/ /\ gap9 = "start" /\ gap9' = "red"
             /\ GapWrites(Dark, lost)
          \/ /\ gap9 = "red" /\ gap9' = "green"
             /\ GapWrites(<<255, 0, 0>>, lost)
          \/ /\ gap9 = "green" /\ gap9' = "blue"
             /\ GapWrites(<<0, 255, 0>>, lost)
          \/ /\ gap9 = "blue" /\ gap9' = "rainbow"
             /\ GapWrites(<<0, 0, 255>>, lost)
    /\ UNCHANGED appVars

\* An iteration of fade_color in show_rainbow, which never ends.  The argument
\* points to the component that changes, and what is shown are the three bytes
\* from there: beyond the end of colors[] whatever the stack holds.
Rainbow ==
    /\ gap9 = "rainbow"
    /\ \E level \in [Channel -> {0, 255}], lost \in Losses :
          GapWrites(level, lost)
    /\ UNCHANGED <<appVars, gap9>>

-----------------------------------------------------------------------------
(* The routines of the API, in any order, and restarts.                    *)

Api ==
    /\ pc = "api"
    /\ \/ \E l \in 0..3, num \in {1, 3}, c \in {<<255, 0, 0>>, <<244, 121, 32>>} :
             SetColor(led, l, num, c)
       \/ \E l \in 0..3, v \in {50, 100, 101} : SetBrightness(led, l, v)
    /\ UNCHANGED <<appVars, gap9>>

\* pwr_kill or the watchdog: GAP9's supply is off until main switches it on.
Restart ==
    /\ restarts < MaxRestarts
    /\ restarts' = restarts + 1
    /\ RestartDriver
    /\ pc' = "init" /\ idx' = 0 /\ sem' = 0 /\ owed' = FALSE /\ lights' = {}
    /\ gap9' = "off"
    /\ UNCHANGED app

Init ==
    /\ app \in {"debug", "led", "api"}
    /\ config \in (IF app = "api" THEN Devicetrees ELSE {BoardConfig})
    /\ DriverInit
    /\ pc = "init" /\ idx = 0 /\ sem = 0 /\ owed = FALSE /\ lights = {}
    /\ gap9 = "off" /\ restarts = 0

Main ==
    \/ DeviceInit
    \/ Checks
    \/ Patterns
    \/ SetUp
    \/ TakeSem
    \/ LedColors
    \/ Transfer /\ UNCHANGED <<appVars, gap9>>

Next ==
    \/ Main
    \/ Api
    \/ TransferFails /\ UNCHANGED <<appVars, gap9>>
    \/ Button1
    \/ Button2
    \/ TurnOn
    \/ Rainbow
    \/ Restart
    \/ pc \in {"returned", "sleep"} /\ UNCHANGED vars

\* main() is scheduled; buttons, faults, restarts and GAP9 are not promised.
Spec == Init /\ [][Next]_vars /\ WF_vars(Main)

-----------------------------------------------------------------------------
(* Properties.                                                             *)

\* When the debug board waits for its button its LEDs are dark; a pattern that
\* a failed transfer cut short is made good by the next one.
EndsDark ==
    pc = "wait" => /\ result = "ok" => Shows(ledDebug, 0) = Dark
                   /\ faults = 0 => Shows(led, 0) = Dark

\* Every press of button 1 is followed by a pattern that begins after it, a
\* press in the middle of a pattern included, unless main() returned.
PressShown == owed ~> (~owed \/ pc = "returned")
=============================================================================
