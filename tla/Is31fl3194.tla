------------------------------ MODULE Is31fl3194 ------------------------------
(***************************************************************************)
(* The driver of the RGB LED chip (is31fl3194.c).  A call is a list of bus *)
(* transfers; the first that fails ends the call.  The levels written to   *)
(* the OUT registers are only staged: a write to UPDATE shows all of them, *)
(* those of an earlier call that failed before its own UPDATE included.    *)
(*                                                                         *)
(* A restart of the processor may come between two transfers.  The chip    *)
(* keeps its registers, and the driver's init does not reset them.         *)
(***************************************************************************)
EXTENDS Integers, Sequences

CONSTANTS
    Devices,  \* LED chips, each on a bus of its own
    MaxFaults \* bound: transfers that fail in a behaviour

VARIABLES
    config,  \* led_infos and current_limits, the devicetree's
    chip,    \* the chips' registers
    ready,   \* device_is_ready
    dev,     \* the device of the current or last call
    todo,    \* its transfers that are left
    result,  \* its result, when todo is empty
    allowed, \* history: what each LED was asked to show in its last successful
             \* call or in a call after that one; empty: another master wrote
    target,  \* history: the LED and the level of the current call
    faults

ledVars == <<config, chip, ready, dev, todo, result, allowed, target, faults>>

Channel == 1..3
Dark == [k \in Channel |-> 0]
Rgb == <<"red", "green", "blue">>
NumLeds == Len(config.leds)

\* Mutant: a colour may be on two channels.
CountsAny(colors, i) == \E k \in Channel : colors[i] = Rgb[k]

\* is31fl3194_count_colors: the first channel of its colour.
CountsOne(colors, i) ==
    /\ \E k \in Channel : colors[i] = Rgb[k]
    /\ \A j \in 1..(i - 1) : colors[j] # colors[i]

\* is31fl3194_check_config.
CheckConfig ==
    \/ /\ NumLeds = 1
       /\ Len(config.leds[1]) = 3
       /\ \A i \in Channel : CountsOne(config.leds[1], i)
    \/ /\ NumLeds = 3
       /\ \A i \in Channel :
             /\ Len(config.leds[i]) = 1
             /\ CountsOne([j \in Channel |-> config.leds[j][1]], i)

\* The current limit register: two bits for each channel.
Band(limit) == limit \div 10 - 1
CurrentReg ==
    LET band(i) == Band(config.limits[IF Len(config.leds[1]) = 3 THEN 1 ELSE i])
    IN  band(1) + 4 * band(2) + 16 * band(3)

Out(i, level) == [reg |-> "out", channel |-> i, value |-> level]
Update == [reg |-> "update", channel |-> 0, value |-> 0]

\* The component of a colour (red, green, blue) that channel i shows.
Component(color, i) ==
    LET k == CHOOSE k \in Channel : config.leds[1][i] = Rgb[k] IN color[k]

Rescale(value) == (value * 255) \div 100 \* 0..100 to 0..255

Written(c, w) ==
    CASE w.reg = "out"     -> [c EXCEPT !.staged[w.channel] = w.value]
      [] w.reg = "update"  -> [c EXCEPT !.shown = c.staged]
      [] w.reg = "current" -> [c EXCEPT !.current = w.value]
      [] w.reg = "conf"    -> [c EXCEPT !.enabled = TRUE]
      [] OTHER             -> c \* the product ID is read

-----------------------------------------------------------------------------
(* Calls.                                                                  *)

Refuse(d, err) ==
    /\ dev' = d /\ todo' = <<>> /\ result' = err
    /\ UNCHANGED <<config, chip, ready, allowed, target, faults>>

\* LED `led' is asked for `level' by the transfers `writes'.
Issue(d, led, level, writes) ==
    /\ dev' = d /\ todo' = writes /\ result' = "busy"
    /\ target' = [led |-> led, level |-> level]
    /\ allowed' = [allowed EXCEPT ![d][led] = IF @ = {} THEN {} ELSE @ \cup {level}]
    /\ UNCHANGED <<config, chip, ready, faults>>

\* is31fl3194_set_color.
SetColor(d, led, num, color) ==
    /\ todo = <<>>
    /\ \/ led >= NumLeds /\ Refuse(d, "ENODEV")
       \/ /\ led < NumLeds
          /\ \/ Len(config.leds[led + 1]) # 3 /\ Refuse(d, "ENOTSUP")
             \/ /\ Len(config.leds[led + 1]) = 3
                /\ \/ num # 3 /\ Refuse(d, "EINVAL")
                   \/ /\ num = 3
                      /\ Issue(d, 0, color,
                               [i \in Channel |-> Out(i, Component(color, i))]
                                   \o <<Update>>)

\* is31fl3194_set_brightness; led_on and led_off are its ends.
SetBrightness(d, led, value) ==
    /\ todo = <<>>
    /\ \/ led >= NumLeds /\ Refuse(d, "ENODEV")
       \/ /\ led < NumLeds
          /\ \/ Len(config.leds[led + 1]) # 1 /\ Refuse(d, "ENOTSUP")
             \/ /\ Len(config.leds[led + 1]) = 1
                /\ \/ value > 100 /\ Refuse(d, "EINVAL")
                   \/ /\ value <= 100
                      /\ Issue(d, led, <<Rescale(value)>>,
                               <<Out(led + 1, Rescale(value)), Update>>)

\* is31fl3194_init: check, product ID, current limits, enable.
InitDevice(d) ==
    /\ todo = <<>> /\ d \notin ready
    /\ \/ ~CheckConfig /\ Refuse(d, "EINVAL")
       \/ /\ CheckConfig
          /\ dev' = d /\ result' = "busy"
          /\ todo' = <<[reg |-> "id", channel |-> 0, value |-> 0],
                       [reg |-> "current", channel |-> 0, value |-> CurrentReg],
                       [reg |-> "conf", channel |-> 0, value |-> 1]>>
          /\ UNCHANGED <<config, chip, ready, allowed, target, faults>>

-----------------------------------------------------------------------------
(* Transfers.                                                              *)

Last == Len(todo) = 1

\* Zephyr marks the device ready when its init returns 0.
Transfer ==
    /\ todo # <<>>
    /\ chip' = [chip EXCEPT ![dev] = Written(@, Head(todo))]
    /\ todo' = Tail(todo)
    /\ result' = IF Last THEN "ok" ELSE result
    /\ ready' = IF Last /\ Head(todo).reg = "conf" THEN ready \cup {dev} ELSE ready
    /\ allowed' = IF Last /\ Head(todo).reg = "update"
                  THEN [allowed EXCEPT ![dev][target.led] = {target.level}]
                  ELSE allowed
    /\ UNCHANGED <<config, dev, target, faults>>

\* Mutant: the update is written although a channel was not.
TransferFailsUpdates ==
    /\ todo # <<>> /\ faults < MaxFaults
    /\ todo' = SubSeq(todo, Len(todo), Len(todo))
    /\ result' = "error" /\ faults' = faults + 1
    /\ UNCHANGED <<config, chip, ready, dev, allowed, target>>

\* The first error ends the call.
TransferFails ==
    /\ todo # <<>> /\ faults < MaxFaults
    /\ todo' = <<>> /\ result' = "error" /\ faults' = faults + 1
    /\ UNCHANGED <<config, chip, ready, dev, allowed, target>>

\* The processor restarts: the driver begins again, the chip does not.
RestartDriver ==
    /\ todo' = <<>> /\ result' = "none" /\ ready' = {}
    /\ UNCHANGED <<config, chip, dev, allowed, target, faults>>

DriverInit ==
    /\ chip = [d \in Devices |-> [staged |-> Dark, shown |-> Dark,
                                  current |-> 0, enabled |-> FALSE]]
    /\ ready = {} /\ dev = CHOOSE d \in Devices : TRUE
    /\ todo = <<>> /\ result = "none" /\ faults = 0
    /\ allowed = [d \in Devices |-> [led \in 0..2 |->
                      {IF NumLeds = 1 THEN Dark ELSE <<0>>}]]
    /\ target = [led |-> 0, level |-> Dark]

-----------------------------------------------------------------------------
(* Properties.                                                             *)

Shows(d, led) ==
    IF NumLeds = 1
    THEN [k \in Channel |->
             chip[d].shown[CHOOSE i \in Channel : config.leds[1][i] = Rgb[k]]]
    ELSE <<chip[d].shown[led + 1]>>

\* A LED always shows, whole, a colour that it was asked for in its last
\* successful call or in one that failed since: never a mixture of two
\* colours, whatever transfers fail and wherever restarts fall.
WholeColors ==
    \A d \in ready : \A led \in 0..(NumLeds - 1) :
        allowed[d][led] # {} => Shows(d, led) \in allowed[d][led]

\* A device that is ready has three channels of three different colours, and
\* each channel of the chip has the limit of the LED on it.
ReadyMeansConfigured ==
    ready # {} =>
        LET colors == IF NumLeds = 1 THEN config.leds[1]
                      ELSE [i \in 1..NumLeds |-> config.leds[i][1]]
            limit(i) == config.limits[IF NumLeds = 1 THEN 1 ELSE i]
        IN  /\ {colors[i] : i \in DOMAIN colors} = {"red", "green", "blue"}
            /\ Len(colors) = 3
            /\ \A d \in ready : \A i \in Channel :
                  10 * (1 + ((chip[d].current \div (4 ^ (i - 1))) % 4)) = limit(i)
=============================================================================
