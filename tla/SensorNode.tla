------------------------------- MODULE SensorNode -------------------------------
(***************************************************************************)
(* A node: main() powers the board up (BoardPower) and, on the boards with *)
(* a radio, starts Bluetooth (Ble); the power thread measures the battery  *)
(* (Battery), which pwr_init did once, and shuts the node down.  A restart *)
(* takes all of them down in whatever state they are.                      *)
(***************************************************************************)
EXTENDS BoardPower, Ble, Battery

RadioBoards == {"bme688", "ble_bootloader"}

vars == <<boardVars, bleVars, batteryVars>>

\* start_bluetooth_adverts, whatever became of the power subsystem.
MainStartsBluetooth ==
    /\ pc = "main" /\ at > Len(MainPins)
    /\ board \in RadioBoards
    /\ StartBluetooth
    /\ UNCHANGED <<boardVars, batteryVars>>

\* thread_pwr_init measures the battery and ignores the result.
FirstCheck ==
    \/ pc = "battery" /\ CheckBegins /\ pc' = "measuring"
       /\ UNCHANGED <<board, at, pin, copyVars, rails, lifeVars, faults, bleVars>>
    \/ pc = "measuring" /\ check = "idle" /\ pc' = "measured"
       /\ UNCHANGED <<board, at, pin, copyVars, rails, lifeVars, faults,
                      bleVars, batteryVars>>

\* An iteration of the power thread.
ThreadChecks ==
    /\ running /\ ~killing
    /\ CheckBegins
    /\ UNCHANGED <<boardVars, bleVars>>

CheckGoesOn == CheckBattery /\ UNCHANGED <<boardVars, bleVars>>

\* The thread shuts down between two rounds.
ThreadKills == check = "idle" /\ Kill /\ UNCHANGED <<bleVars, batteryVars>>

AllDown ==
    /\ Reboot \/ Crash
    /\ BleRestart /\ BatteryRestart

Init == BoardInit /\ BleOff /\ BatteryZero

Next ==
    \/ PowerUp /\ UNCHANGED <<bleVars, batteryVars>>
    \/ MainStartsBluetooth
    \/ FirstCheck
    \/ ThreadChecks
    \/ CheckGoesOn
    \/ ThreadKills
    \/ (Stack \/ Connected \/ Disconnected)
          /\ UNCHANGED <<boardVars, batteryVars>>
    \/ AllDown

\* The Bluetooth stack and the system work queue run.
Spec == Init /\ [][Next]_vars
             /\ WF_vars((BtReady \/ AdvStop \/ AdvStart) /\ UNCHANGED <<boardVars, batteryVars>>)
             /\ WF_vars((Release \/ Resume) /\ UNCHANGED <<boardVars, batteryVars>>)

-----------------------------------------------------------------------------
(* Properties.                                                             *)

\* What the LED test says of the bus that it gives to GAP9: the power thread,
\* which would use it, "is not started" (led_test/src_NRF/main.c:85-86), so
\* that nothing measures over the bus once GAP9 is connected to it.
BusGivenAway ==
    board = "led_test" /\ pin["gap9_i2c"] = "high" => check = "idle"
=============================================================================
