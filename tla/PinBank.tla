-------------------------------- MODULE PinBank --------------------------------
(***************************************************************************)
(* What the expander driver promises to its callers (Zephyr's GPIO         *)
(* interface): a bank of pins, each with an output level and a direction,  *)
(* on which every call takes effect completely at one moment between its   *)
(* beginning and its return, or not at all.  Pca64xxa, whose calls take up *)
(* to four transactions and interleave, implements it.                     *)
(***************************************************************************)
CONSTANTS Threads, Pins, Calls, NoCall

VARIABLES
    phase,  \* the device: "boot", "ready", or "failed" to initialise
    call,   \* what each thread asks for, NoCall if nothing
    out,    \* the pins whose output level is high
    in      \* the pins configured as inputs

bankVars == <<phase, call, out, in>>

\* Initialised, all pins are inputs; after a failure, callers may find a
\* configuration of zeros.
Start ==
    /\ phase = "boot"
    /\ phase' \in {"ready", "failed"}
    /\ out' = {}
    /\ in' = Pins \/ (phase' = "failed" /\ in' = {})
    /\ UNCHANGED call

Ask(t) ==
    /\ phase # "boot"
    /\ call[t] = NoCall
    /\ \E c \in Calls : call' = [call EXCEPT ![t] = c]
    /\ UNCHANGED <<phase, out, in>>

\* gpio_port_set_masked and its relatives: a pin of the mask takes its bit of
\* the value, a toggled pin changes, every other pin is left alone.
SetPort(c) ==
    /\ c.kind = "set"
    /\ out' = {p \in Pins : LET level == IF p \in c.mask THEN p \in c.value
                                                         ELSE p \in out
                            IN  level # (p \in c.toggle)}
    /\ in' = in

\* gpio_pin_configure, of one pin.
ConfigurePin(c) ==
    /\ c.kind = "configure"
    /\ in' = IF c.flags = "input" THEN in \cup {c.pin} ELSE in \ {c.pin}
    /\ \/ c.flags = "output_high" /\ out' = out \cup {c.pin}
       \/ c.flags = "output_low" /\ out' = out \ {c.pin}
       \/ c.flags \in {"input", "output"} /\ out' = out

\* The call of t takes effect and returns, ...
Perform(t) ==
    /\ call[t] # NoCall
    /\ SetPort(call[t]) \/ ConfigurePin(call[t])
    /\ call' = [call EXCEPT ![t] = NoCall]
    /\ UNCHANGED phase

\* ... or returns an error and has no effect.
Refuse(t) ==
    /\ call[t] # NoCall
    /\ call' = [call EXCEPT ![t] = NoCall]
    /\ UNCHANGED <<phase, out, in>>

\* The processor restarts.
Restart ==
    /\ phase # "boot"
    /\ phase' = "boot" /\ out' = {} /\ in' = {}
    /\ call' = [t \in Threads |-> NoCall]

BankInit ==
    /\ phase = "boot"
    /\ call = [t \in Threads |-> NoCall]
    /\ out = {} /\ in = {}

BankNext ==
    \/ Start
    \/ \E t \in Threads : Ask(t) \/ Perform(t) \/ Refuse(t)
    \/ Restart

BankSpec == BankInit /\ [][BankNext]_bankVars
=============================================================================
