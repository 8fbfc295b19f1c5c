------------------------------ MODULE Pca64xxa ------------------------------
(***************************************************************************)
(* The driver of the GPIO expander PCA6416A (gpio_pca64xxa.c): the supply  *)
(* switches of the sensors hang on it.  Its registers are written a byte   *)
(* at a time over I2C; a transaction may fail, before or after it had its  *)
(* effect.  The driver keeps a copy of what it wrote, from which it        *)
(* computes the next values, and a semaphore that its calls hold while     *)
(* they use the copy and the chip.                                         *)
(*                                                                         *)
(* A 16-bit register is the set of pins whose bit is 1.  Threads           *)
(* interleave at the semaphore and at every transaction.  Left out: the    *)
(* pulls (kept in the copy and never written to this chip), the levels     *)
(* read from the inputs, the triggers and the callbacks (no board connects *)
(* the interrupt line, so pin_interrupt_configure returns -ENOTSUP and the *)
(* work handler is never submitted).                                       *)
(***************************************************************************)
EXTENDS Integers

CONSTANTS
    Threads,     \* the threads that call the driver
    Low, High,   \* the pins of port 0 and of port 1
    MaxFaults    \* bound: transactions that fail in a behaviour

Pins == Low \cup High

ASSUME PcaAssumption ==
    /\ Low \cap High = {}
    /\ MaxFaults \in Nat

VARIABLES
    phase,        \* "boot", or how pca64xxa_init ended: "ready" or "failed"
    lock,         \* the count of the semaphore
    pc,           \* threads: "idle", "wait" (in k_sem_take), "write", "read"
    op,           \* the call it makes
    step,         \* the register it transfers next
    newOut, newIn,       \* the configuration it has computed
    cacheOut, cacheIn,   \* pins_cfg: outputs_high, configured_as_inputs
    chipOut, chipIn,     \* the chip's output and configuration registers
    suspect,      \* history: registers (1 and 2 for the bytes of chipOut, 3
                  \* and 4 for those of chipIn) left behind by a failed call
    faults        \* failed transactions so far

cacheVars == <<cacheOut, cacheIn>>
chipVars == <<chipOut, chipIn>>
threadVars == <<pc, op, step, newOut, newIn>>
vars == <<phase, lock, threadVars, cacheVars, chipVars, suspect, faults>>

-----------------------------------------------------------------------------
(* The calls, and the configuration each of them asks for.                 *)

\* port_set_masked_raw, port_set_bits_raw, port_clear_bits_raw and
\* port_toggle_bits are all port_set_raw.
SetOps == [kind : {"set"}, mask : SUBSET Pins, value : SUBSET Pins,
           toggle : {{}}]
ToggleOps == [kind : {"set"}, mask : {{}}, value : {{}},
              toggle : SUBSET Pins]
\* pin_configure as an input, as an output at a given level, or as an output
\* at the level its register has.
ConfigureOps == [kind : {"configure"}, pin : Pins,
                 flags : {"input", "output_low", "output_high", "output"}]
NoOp == [kind |-> "get"]
Ops == SetOps \cup ToggleOps \cup ConfigureOps \cup {NoOp}

\* The pins a call is about.
Named(o) == CASE o.kind = "set"       -> o.mask \cup o.toggle
              [] o.kind = "configure" -> {o.pin}
              [] OTHER                -> {}

Flip(a, b) == (a \ b) \cup (b \ a)

\* Mutant: the value is not restricted to the mask.
OutputsUnmasked(o) ==
    CASE o.kind = "set" -> Flip((cacheOut \ o.mask) \cup o.value, o.toggle)
      [] o.kind = "configure" ->
            CASE o.flags = "output_low"  -> cacheOut \ {o.pin}
              [] o.flags = "output_high" -> cacheOut \cup {o.pin}
              [] OTHER                   -> cacheOut
      [] OTHER -> cacheOut

Outputs(o) ==
    CASE o.kind = "set" ->
            Flip((cacheOut \ o.mask) \cup (o.value \cap o.mask), o.toggle)
      [] o.kind = "configure" ->
            CASE o.flags = "output_low"  -> cacheOut \ {o.pin}
              [] o.flags = "output_high" -> cacheOut \cup {o.pin}
              [] OTHER                   -> cacheOut
      [] OTHER -> cacheOut

Inputs(o) ==
    IF o.kind # "configure" THEN cacheIn
    ELSE IF o.flags = "input" THEN cacheIn \cup {o.pin} ELSE cacheIn \ {o.pin}

\* The last register a call transfers.
Last(o) == IF o.kind = "configure" THEN 4 ELSE 2

-----------------------------------------------------------------------------
(* The bus.                                                                *)

Byte(r) == IF r \in {1, 3} THEN Low ELSE High

\* The value of a register pair after its byte r was written.
Written(old, new, r) == (old \ Byte(r)) \cup (new \cap Byte(r))

\* Mutant: a pin is configured before its output is set.
WriteRegConfigFirst(r, out, in) ==
    /\ chipOut' = IF r \in {3, 4} THEN Written(chipOut, out, r) ELSE chipOut
    /\ chipIn' = IF r \in {1, 2} THEN Written(chipIn, in, r) ELSE chipIn

\* Outputs come before the configuration, the low byte before the high one.
WriteReg(r, out, in) ==
    /\ chipOut' = IF r \in {1, 2} THEN Written(chipOut, out, r) ELSE chipOut
    /\ chipIn' = IF r \in {3, 4} THEN Written(chipIn, in, r) ELSE chipIn

\* A transaction fails.
BusFails ==
    /\ faults < MaxFaults
    /\ faults' = faults + 1

\* Mutant: the semaphore has no limit.
GiveUnlimited == lock' = lock + 1

\* k_sem_give, limited to 1.
Give == lock' = 1

-----------------------------------------------------------------------------
(* pca64xxa_init, run by the kernel before the threads.                    *)

\* Every register is written, and the inputs are read.
InitDriver ==
    /\ phase = "boot"
    /\ phase' = "ready"
    /\ chipOut' = {} /\ chipIn' = Pins
    /\ cacheOut' = {} /\ cacheIn' = Pins
    /\ suspect' = {}
    /\ Give
    /\ UNCHANGED <<threadVars, faults>>

\* A transaction fails: of the registers, the first n are written.  The copy
\* is assigned when all are, and has its static value, zero, until then.  The
\* semaphore, statically free, stays so.
InitDriverFails == \E n \in 0..4, copied \in BOOLEAN :
    /\ copied => n = 4
    /\ phase = "boot"
    /\ BusFails
    /\ phase' = "failed"
    /\ chipOut' = CASE n = 0   -> chipOut
                    [] n = 1   -> chipOut \ Low
                    [] OTHER   -> {}
    /\ chipIn' = CASE n < 3    -> chipIn
                   [] n = 3    -> chipIn \cup Low
                   [] OTHER    -> Pins
    /\ cacheOut' = {}
    /\ cacheIn' = IF copied THEN Pins ELSE {}
    /\ suspect' = IF copied THEN {} ELSE 1..4
    /\ UNCHANGED <<lock, threadVars>>

-----------------------------------------------------------------------------
(* The calls of the threads.                                               *)

\* A thread calls the driver; nobody checks that the device is ready.
Call(t) ==
    /\ phase # "boot"
    /\ pc[t] = "idle"
    /\ pc' = [pc EXCEPT ![t] = "wait"]
    /\ UNCHANGED <<phase, lock, op, step, newOut, newIn, cacheVars, chipVars,
                   suspect, faults>>

\* Mutant: the configuration is changed without the semaphore.
TakeUnlocked(t) ==
    /\ pc[t] = "wait"
    /\ \E o \in Ops :
          /\ op' = [op EXCEPT ![t] = o]
          /\ newOut' = [newOut EXCEPT ![t] = Outputs(o)]
          /\ newIn' = [newIn EXCEPT ![t] = Inputs(o)]
          /\ pc' = [pc EXCEPT ![t] = IF o.kind = "get" THEN "read" ELSE "write"]
    /\ step' = [step EXCEPT ![t] = 1]
    /\ UNCHANGED <<phase, lock, cacheVars, chipVars, suspect, faults>>

\* The semaphore is taken, and the new configuration computed from the copy.
Take(t) ==
    /\ pc[t] = "wait"
    /\ lock > 0
    /\ lock' = lock - 1
    /\ \E o \in Ops :
          /\ op' = [op EXCEPT ![t] = o]
          /\ newOut' = [newOut EXCEPT ![t] = Outputs(o)]
          /\ newIn' = [newIn EXCEPT ![t] = Inputs(o)]
          /\ pc' = [pc EXCEPT ![t] = IF o.kind = "get" THEN "read" ELSE "write"]
    /\ step' = [step EXCEPT ![t] = 1]
    /\ UNCHANGED <<phase, cacheVars, chipVars, suspect, faults>>

Return(t) ==
    /\ pc' = [pc EXCEPT ![t] = "idle"]
    /\ op' = [op EXCEPT ![t] = NoOp]
    /\ step' = [step EXCEPT ![t] = 1]
    /\ newOut' = [newOut EXCEPT ![t] = {}]
    /\ newIn' = [newIn EXCEPT ![t] = {}]

\* A byte is written and others are left.
WriteNext(t) ==
    /\ pc[t] = "write"
    /\ step[t] < Last(op[t])
    /\ WriteReg(step[t], newOut[t], newIn[t])
    /\ step' = [step EXCEPT ![t] = @ + 1]
    /\ UNCHANGED <<phase, lock, pc, op, newOut, newIn, cacheVars, suspect,
                   faults>>

\* The last byte is written: the copy is updated, the semaphore given.
WriteLast(t) ==
    /\ pc[t] = "write"
    /\ step[t] = Last(op[t])
    /\ WriteReg(step[t], newOut[t], newIn[t])
    /\ cacheOut' = newOut[t]
    /\ cacheIn' = newIn[t]
    /\ suspect' = suspect \ (1..step[t])
    /\ Give
    /\ Return(t)
    /\ UNCHANGED <<phase, faults>>

\* Mutant: the copy is updated whatever the writes returned.
WriteFailsCopied(t) ==
    /\ pc[t] = "write"
    /\ BusFails
    /\ \/ WriteReg(step[t], newOut[t], newIn[t])
       \/ UNCHANGED chipVars
    /\ cacheOut' = newOut[t]
    /\ cacheIn' = newIn[t]
    /\ suspect' = suspect \cup (1..step[t])
    /\ Give
    /\ Return(t)
    /\ UNCHANGED phase

\* A write fails: the call gives up, and the copy keeps its old value.
WriteFails(t) ==
    /\ pc[t] = "write"
    /\ BusFails
    /\ \/ WriteReg(step[t], newOut[t], newIn[t])
       \/ UNCHANGED chipVars
    /\ suspect' = suspect \cup (1..step[t])
    /\ Give
    /\ Return(t)
    /\ UNCHANGED <<phase, cacheVars>>

\* port_get_raw: both input registers are read.
ReadNext(t) ==
    /\ pc[t] = "read"
    /\ step[t] < Last(op[t])
    /\ step' = [step EXCEPT ![t] = @ + 1]
    /\ UNCHANGED <<phase, lock, pc, op, newOut, newIn, cacheVars, chipVars,
                   suspect, faults>>

ReadLast(t) ==
    /\ pc[t] = "read"
    /\ step[t] = Last(op[t])
    /\ Give
    /\ Return(t)
    /\ UNCHANGED <<phase, cacheVars, chipVars, suspect, faults>>

\* A read fails: process_input returns at once, without k_sem_give.
ReadFails(t) ==
    /\ pc[t] = "read"
    /\ BusFails
    /\ Return(t)
    /\ UNCHANGED <<phase, lock, cacheVars, chipVars, suspect>>

Operate(t) == \/ WriteNext(t)
              \/ WriteLast(t)
              \/ WriteFails(t)
              \/ ReadNext(t)
              \/ ReadLast(t)
              \/ ReadFails(t)

-----------------------------------------------------------------------------
\* The microcontroller restarts (pwr_kill) at any time, its static data get
\* their initial values; the chip, which no reset line reaches, keeps its
\* registers.
Reboot ==
    /\ phase # "boot"
    /\ phase' = "boot"
    /\ lock' = 1
    /\ pc' = [t \in Threads |-> "idle"]
    /\ op' = [t \in Threads |-> NoOp]
    /\ step' = [t \in Threads |-> 1]
    /\ newOut' = [t \in Threads |-> {}]
    /\ newIn' = [t \in Threads |-> {}]
    /\ cacheOut' = {} /\ cacheIn' = {}
    /\ suspect' = 1..4
    /\ UNCHANGED <<chipVars, faults>>

\* The chip's registers after power-on: all inputs, all outputs high.
Init ==
    /\ phase = "boot"
    /\ lock = 1
    /\ pc = [t \in Threads |-> "idle"]
    /\ op = [t \in Threads |-> NoOp]
    /\ step = [t \in Threads |-> 1]
    /\ newOut = [t \in Threads |-> {}]
    /\ newIn = [t \in Threads |-> {}]
    /\ cacheOut = {} /\ cacheIn = {}
    /\ chipOut = Pins /\ chipIn = Pins
    /\ suspect = 1..4
    /\ faults = 0

Next ==
    \/ InitDriver
    \/ InitDriverFails
    \/ \E t \in Threads : Call(t) \/ Take(t) \/ Operate(t)
    \/ Reboot

Spec == Init /\ [][Next]_vars

\* A call that has the semaphore goes on.
FairSpec == Spec /\ \A t \in Threads : WF_vars(Operate(t))

-----------------------------------------------------------------------------
(* Properties.                                                             *)

\* Every variable has its type.
TypeOK ==
    /\ phase \in {"boot", "ready", "failed"}
    /\ lock \in {0, 1}
    /\ pc \in [Threads -> {"idle", "wait", "write", "read"}]
    /\ op \in [Threads -> Ops]
    /\ step \in [Threads -> 1..4]
    /\ newOut \in [Threads -> SUBSET Pins]
    /\ newIn \in [Threads -> SUBSET Pins]
    /\ cacheOut \subseteq Pins /\ cacheIn \subseteq Pins
    /\ chipOut \subseteq Pins /\ chipIn \subseteq Pins
    /\ suspect \subseteq 1..4
    /\ faults \in 0..MaxFaults

\* No update is lost: what the driver has recorded of a pin is changed only
\* by the end of a call that names the pin, never by a call of another thread
\* that overlaps it, nor by one that fails.
NoLostUpdate ==
    [][phase = "boot" \/ phase' = "boot" \/
       \A p \in Flip(cacheOut, cacheOut') \cup Flip(cacheIn, cacheIn') :
          \E t \in Threads : pc[t] = "write" /\ pc'[t] = "idle"
                             /\ p \in Named(op[t])]_vars

\* Register r holds what the configuration (out, in) says.
Holds(r, out, in) ==
    IF r \in {1, 2} THEN chipOut \cap Byte(r) = out \cap Byte(r)
                    ELSE chipIn \cap Byte(r) = in \cap Byte(r)

\* Between calls, the chip holds what the driver recorded, but for the
\* registers that a call wrote and then failed; the next call that succeeds
\* repairs those it writes.
ChipFollowsDriver ==
    (\A t \in Threads : pc[t] # "write")
        => \A r \in 1..4 \ suspect : Holds(r, cacheOut, cacheIn)

\* A call disturbs no pin it does not name: neither its level nor its
\* direction changes on the chip, unless an earlier failure left them wrong.
NoGlitch ==
    [][phase = "boot" \/
       /\ \A p \in Flip(chipOut, chipOut') :
             \/ \E t \in Threads : pc[t] = "write" /\ p \in Named(op[t])
             \/ \E r \in suspect \cap {1, 2} : p \in Byte(r)
       /\ \A p \in Flip(chipIn, chipIn') :
             \/ \E t \in Threads : pc[t] = "write" /\ p \in Named(op[t])
             \/ \E r \in suspect \cap {3, 4} : p \in Byte(r)]_vars

\* A pin that becomes an output has its level already: it never drives the
\* old level for the time of a transaction.
LevelBeforeDrive ==
    [][phase = "boot" \/
       \A p \in chipIn \ chipIn' : \A t \in Threads :
          pc[t] = "write" => (p \in chipOut <=> p \in newOut[t])]_vars

\* The semaphore is always given back ("Give back semaphore before the
\* callback to make the same driver available again", gpio_pca64xxa.c:191).
LockGivenBack == lock = 0 ~> lock = 1

\* Calls are atomic to their callers: the driver implements PinBank, in
\* which a call takes effect at once or not at all, although its transactions
\* interleave with other calls, fail half-way and are cut off by restarts.
Bank == INSTANCE PinBank
            WITH Calls <- SetOps \cup ToggleOps \cup ConfigureOps,
                 NoCall <- NoOp, call <- op, out <- cacheOut, in <- cacheIn
AtomicCalls == Bank!BankSpec
=============================================================================
