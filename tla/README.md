# Verification of the SENSEI SDK

TLA+ models of the firmware of the SENSEI platform: power management on the
nRF5340 with its PMIC, GPIO expander, LED and Bluetooth, and the camera and LED
programs on GAP9. TLC checks them on small instances, most of them with the
numbers of the code; TLAPS proves their safety properties for every number of
threads, rails, pins and failures and every devicetree of the LED. Paths below
are relative to `src/`.

## 1. The system

The SDK is a set of drivers and system services on Zephyr, used by example
applications. A board has an nRF5340 that runs this code, a GAP9 processor that
it powers and resets, a power management chip (PMIC, MAX77654) and sensors.

| component | code | state | operations |
|---|---|---|---|
| power subsystem | `NRF/system/pwr/pwr.c` | `pwr_mutex`, the PMIC's handle `pmic_h` with the shared configuration, `pwr_is_initialised`, `pwr_is_running` | `pwr_init`, `pwr_start`, `pwr_kill`, `gap9_pwr`, `pwr_bat_mV`, `pwr_bat_perc` |
| power thread | `NRF/system/pwr/thread_pwr.c` | `pmic`, the copy of the interrupt flags; `battery_mV`, `battery_perc`; `gap9_pwr_state`; the time stamps `last_keydown_ms`, `last_keyup_ms`; the semaphore `pmic_update_sem` | the loop: read flags, measure the battery, reset GAP9, shut down on a long press, reapply the configuration; two interrupt handlers |
| PMIC driver | `NRF/system/third_party/max77654` | the handle's `conf`; the chip's registers | `max77654_reset`, `_init`, `_config` and its parts, `_measure`, `_get_int_flags`, the watchdog, encodings |
| PMIC bus access | `NRF/system/bsp/pmic_bsp.c` | none | register reads and writes over I2C, ADC |
| board power sequences | `example/*/src_NRF/bsp/pwr_bsp.c` | none of their own | `pwr_bsp_init`, `pwr_bsp_start` |
| GPIO expander driver | `NRF/drivers/gpio/gpio_pca64xxa.c` | semaphore `lock`, `pins_cfg` (the copy of the chip's registers), `triggers`, `input_port_last` | initialisation, `pin_configure`, `port_*`, interrupts |
| LED driver | `NRF/drivers/led/is31fl3194.c` | the chip's registers, staged and shown | initialisation, `set_color`, `set_brightness`, on, off |
| BLE in the examples | `example/*/src_NRF/bluetooth.c` | connections, the work item, the advertiser | advertise, connect, disconnect |
| GAP9 board support | `GAP9/bsp/boards/*.c` | supply and control pins | open and close of flash, RAM, camera |
| GAP9 programs | `example/*/src_GAP9` | the image and its buffers in L1; the LED's colours | capture, image kernels, LED writes |
| applications | `example/*/src_NRF/main.c` | the debug board's button semaphore | boot, sensor polling, console |

**How they interact.** `main` calls `pwr_init` (which configures the pins, locks
the mutex, resets and configures the PMIC, measures the battery) and `pwr_start`
(which configures the PMIC and the expander for the board, switches GAP9 on and
creates the power thread). From then on the applications' threads and the power
thread share the PMIC under the mutex; `gap9_pwr` takes no lock. The PMIC's
interrupt line and the soft-reset line wake the power thread through the
semaphore. `pwr_kill` is called by an application or by the power thread with
its mutex held, gives up on the mutex after three attempts, configures
everything off until that succeeds, and reboots. The PMIC, the expander and the
LED chip keep their registers through a reboot; pins of the nRF do not.
Bluetooth callbacks, a work queue and `main` run beside all this. In the LED
test nRF and GAP9 are masters of one bus, one after the other.

**What is hard.** Every register access sleeps in the I2C driver, so other
threads run between any two of them. Any access may fail, often half-way
through a routine. Locks time out. Registers clear themselves when read.
Interrupts are edges of a line that several sources share. A shutdown may race
with the holder of the mutex it ignores. A processor restarts in front of chips
that do not. A DMA engine overlaps with the cores on two halves of one buffer.

**What makes each component correct.**
The power subsystem: operations on the PMIC exclude each other; a shutdown
reaches the reboot with everything off; the mutex is released on every path;
GAP9's supply follows `gap9_pwr_state`; a press resets GAP9 once.
The power thread: exactly the long presses shut down; no wake-up is lost;
pending flags are cleared in the end; the battery's level is of one round.
The board sequences: a sensor is connected only while it is supplied; when the
start succeeds everything is on.
The expander: the chip holds what the driver recorded; calls are atomic; the
lock is given back.
The PMIC's driver: success means that the chip does what was asked; a value is
what was measured; what was borrowed is returned.
The LED driver: the colour shown is one that was asked for, never a mixture.
BLE: a node can be found again after every disconnection.
The image kernels: no buffer is overwritten while in use, every tile is
processed and stored. The camera: no pin is driven without supply.

## 2. The modules

| module | models | composed of |
|---|---|---|
| `Pwr`, `MCPwr` | `pwr.c`, the loop of `thread_pwr.c`, the routines of `max77654.c` they call, `pwr_bsp_start` | |
| `PwrButton` | interrupt handlers, semaphore and time stamps of `thread_pwr.c` | |
| `Max77654` | `max77654.c` with register values | |
| `Pca64xxa` | `gpio_pca64xxa.c` | implements `PinBank` |
| `PinBank` | abstract: what the expander's driver promises | |
| `BoardPower` | power-up and power-down of the seven boards, pin by pin | |
| `Battery` | `check_battery` and `battery_perc_conversion` of `thread_pwr.c` | |
| `Ble` | `bluetooth.c` of two examples | |
| `SensorNode` | a node from boot to shutdown | `BoardPower`, `Battery`, `Ble` |
| `Is31fl3194` | `is31fl3194.c` | |
| `LedTest`, `MCLed` | the debug board's test, the LED test on nRF and GAP9, any calls with any devicetree; for TLC, the devicetrees | `Is31fl3194` |
| `Isp` | the loops of `ISPKernels.c` and the DMA | |
| `CameraTest` | `test.c` and the camera's supply | `Isp` |
| `PwrProofs`, `ButtonProofs`, `MaxProofs`, `PcaProofs`, `BatteryProofs`, `BoardProofs`, `LedProofs`, `CameraProofs` | theorems | the module of the same name (`Max77654`, `PwrButton`, `LedTest`, `CameraTest`, `SensorNode` for the battery and the boards) |

### Pwr

`pc` says where each thread is. The labels `i_*` are `pwr_init`, `s_*`
`pwr_start`, `c_*` `max77654_config`, `m_*` `max77654_measure`, `t_*` the loop
of the power thread, `r_*` `reapply_config`, `k_*` `pwr_kill`, `a_*` and `g_*`
the applications' calls; `job` is the caller a shared routine returns to, and
`idx` its loop counter. Rails, the main bias, the ADC multiplexer and the
button's flag stand for the PMIC's registers, `confRail` and `confBias` for
`pmic_h.conf`. Transactions no property tells apart are one action that may
fail half-way, and a voltage write and an enable write of a regulator fail
independently, as in `max77654_config_sbb`. A transaction that fails leaves the
chip's register as it was.

A GPIO call may fail, too: `gap9Port` says whether GAP9's pin is an input (before
`pwr_init`, or when its configuration failed), an output, or an output whose last
setting failed; the level changes only on a call that succeeds on an output
(`SetGap9`). The pins and interrupts of `thread_pwr_init` (`InitThread`) end
`pwr_init` when they fail, the LED's supply (`StartLed`) ends `pwr_start`; the
result of the set in `gap9_pwr` is dropped, a failed one in a reset gives the
reset up.

What a time-out decides is a choice: a lock with a time-out may give up whenever
somebody else holds the mutex, the 25 minutes of `reapply_config` may be over at
any iteration, a long press may have happened at any iteration (`PwrButton` says
when it has). The result of `pwr_init` is ignored, as the examples ignore it.
Clients may measure with the mutex held, as `example/pmic_test` does, call
`gap9_pwr` and `pwr_kill`. The history variable `presses` follows a press from
the chip's flag to the iteration that handles it.

### PwrButton

Time advances in ticks while the thread boots or waits; an iteration takes no
time. Only differences of time stamps are compared, so the model keeps ages,
saturated just above the latency, which makes time unbounded and the state space
finite. A falling edge exists only while no flag is pending: the PMIC pulls the
line low until the flags are read. Three constants switch on what shares the line
or delays the thread: charger interrupts, failing reads, lock time-outs; a fourth
allows presses before the thread runs. The history variable `disturbed` says that
something other than the press moved the time stamps it is measured with.

### Max77654

Where `Pwr` has rails that are on or off, this module has what a register
holds: the codes of the five regulators and their enable bits, written in the
code's order with failures in between, the watchdog with its lock and the
sequence of writes that removes it, the multiplexer through every path of
`max77654_measure`, and the arithmetic of the battery's voltage and of the
discharge current with the board's full scales. One caller at a time: `Pwr`
shows that calls exclude each other.

### Pca64xxa and PinBank

A 16-bit register is the set of the pins whose bit is 1. A call waits for the
semaphore, computes the new configuration from the copy, transfers one byte per
step (outputs before directions, port 0 before port 1), updates the copy only
when all succeeded, and gives the semaphore back. A transaction that fails may
have reached the chip or not. A restart may interrupt anything; the chip keeps
its registers, the driver's data get their initial values. The history variable
`suspect` holds the bytes a failed call may have left wrong.

`PinBank` is the interface a caller relies on: a set of pins with level and
direction, on which a call takes effect at one moment, or not at all. `Pca64xxa`
implements it with `out` and `in` mapped to the driver's copy; the moment is the
update of the copy.

### BoardPower, Battery, Ble, SensorNode

`BoardPower` walks through the lists of pins of `pwr_init`, `pwr_bsp_init`,
`pwr_start`, `pwr_bsp_start` and, on two boards, `main`. A pin is driven high,
low or floats. A pin of the nRF floats after a restart and is driven only from its
successful configuration on: `gap9_i2c`, whose failed configuration
`pwr_bsp_init` answers with 0, and `debug_led`, which nobody configures, may be set
and stay inputs. A call on a pin of the expander rewrites all registers from the
copy, as `PinBank` promises, but one that fails may have reached the chip up to
any byte. The errors that the code ignores (the PMIC's configuration, GAP9, the
debug LED, GAP9's bus switch in `pwr_init`) are ignored here. `Battery` has the
three samples of a round and the two stores of its result as steps. `Ble` has
the work item with the states a Zephyr work item has, the advertiser and the
connection objects, which a disconnection does not free at once. `SensorNode`
puts them together: `main` starts Bluetooth after power, the thread measures and
shuts down, and a reboot or a crash takes everything down wherever it is.

### Is31fl3194, LedTest

A call of the driver is a list of transfers; the first that fails ends it. The
levels written to the chip are only staged, a write to UPDATE shows them. The
chip keeps both through a restart. `allowed` is a history variable: the colours
an LED was asked to show in the last successful call or since. `LedTest` is one of
three programs: the debug board's `main` with its button handlers; the LED test,
whose GAP9 program shows colours with writes that ignore errors; or any calls of
the driver. For the last the constant `Devicetrees` is any set of configurations
the binding allows: any number of LEDs, each with any list of colours and one of
the four limits. What GAP9 shows in its rainbow is any colour (`Rainbow`):
`fade_color` is given a pointer into `colors[]` and sends the three bytes from
there, the last of them from beyond the array. No property speaks of it.

### Isp, CameraTest

A buffer in L1 holds a range of bytes of the image, the result of a tile, or
junk. The loop's variables (`_N_In`, `_C_Out`, `_SC_Out`, `_SP_Out`) are the
code's; the three kernels are one loop with three sets of numbers, laid out for
`Frame`, 640 x 480 pixels. The camera's format, which only `test.c` knows, is not
part of the model: it decides how large the image buffers are, not what the
kernels do. The DMA
completes transfers at any time; whether reads and writes keep their order among
each other is chosen at the beginning. `CameraTest` has the capture and the pins
of `bsp_hm0360_open` and `_close` around it.

## 3. What is checked

| run | question | answer |
|---|---|---|
| `pwr_safety` | exclusion on the PMIC, safe reboot, origin of readings, GAP9's supply, who unlocks | holds |
| `pwr_live` | is the mutex always released, does `pwr_kill` always reboot, is a press answered by one reset, whatever fails | yes, but for presses whose flags a failed read lost |
| `pwr_gap9_off` | does GAP9's supply follow its state when it is switched off during a reset | no: it is left on |
| `button` | with charger interrupts, early presses, failing reads and lock time-outs: do exactly the long presses shut down, is a wake-up lost, are flags cleared | yes for undisturbed presses; no; yes |
| `button_charger` | ... and for every press | no: a long press can be lost |
| `pca_safety` | does the chip follow the driver; are updates lost, pins disturbed; are calls atomic (`PinBank`) | it does; no; yes |
| `pca_leak` | is the driver's semaphore always given back | no: a failed read keeps it |
| `pmic` | does success of a call mean that the chip does what was asked; is the multiplexer returned; is the current a percentage | yes, with the exceptions below |
| `sensor_node` | seven boards: sensors connected only with supply, complete start, battery's level of one round, node found again after every disconnection | holds |
| `led_bus` | is the bus that the LED test gives to GAP9 left alone | no: the power thread measures over it |
| `led` | are colours shown whole, is a driver that reports ready configured, are LEDs dark when they should be, is a press of the button always shown | holds |
| `camera` | do DMA and cores collide, is every tile processed and stored, which bytes of the image does a kernel reach, is the camera supplied when driven | no; yes; a frame of 640 x 480 exactly; yes |

**What the violated runs show about the code.**

- `thread_pwr.c:252`: after the 100 ms of a reset GAP9 is switched on without a
  second look at `gap9_pwr_state`.
- `thread_pwr.c:211`: any interrupt of the PMIC overwrites the time of the press.
- `gpio_pca64xxa.c:160`: a failed read of the inputs returns with the semaphore.
- `led_test/src_NRF/main.c:85-86`: the comment says that the power management
  task is not started, since it needs the bus given to GAP9; `pwr_start` is
  called and starts it.

**What the properties except.** These are things the code does; the properties
are stated so that they hold with them, and say so in their comments.

- `thread_pwr.c:243`: after a failed read `handle_interrupts` acts on the flags of
  an earlier iteration, and GAP9 is reset again (`ResetOncePerPress`); a read that
  fails after the flag register was read loses a press (`PressResets`).
- `thread_pwr.c:149`: a short press that began before the thread zeroes the time
  stamps is measured from boot and may shut down (`OnlyLongPressKills`).
- `pwr_bsp.c:147` (of the boards that add rails): the result of
  `max77654_config` is dropped, and `pwr_start` succeeds with the rails off
  (`RunningMeansPowered`).
- `pwr_bsp.c:107-110` (of the boards with GAP9's bus switch): a failed
  `gpio_pin_configure` returns 0; the switch stays an input for good, and
  `pwr_bsp.c:188` sets it without effect (`RunningMeansPowered`).
- `pwr.c:236`, `pwr.c:239`, `thread_pwr.c:247-255`: when GAP9's pin cannot be set,
  `gap9_pwr_state` stays what it was to be (`Gap9Agrees`, which speaks of a pin that
  is an output and whose last setting succeeded).
- `gpio_pca64xxa.c:620`: the semaphore is free before the driver is initialised;
  calls after a failed initialisation start from a copy of zeros, all outputs.
- `max77654.c:357`: the enable bits are written although the voltage's write
  failed (`EnabledAtVoltage`).
- `max77654.c:940`: readings below the null reading within the same millivolt
  wrap to a huge percentage (`DischargePercent`).
- `bluetooth.c:75`: a failed `bt_le_adv_start` is not repeated before the next
  disconnection (`Reachable`).
- `ISPKernels.c:302`: the in-place kernel reads into the buffer from which the
  last result is being written: it relies on a DMA engine that keeps the order of
  reads and writes (`BuffersDisjoint`, `StageComplete`).

**What the models have and no property speaks of.** These are things the code
does that a property would have to forbid, and it would fail.

- `test.c:107`, `test.c:113`: the image buffers have the camera's format, and
  `sdk.config:20` of the example selects QVGA. The kernels are generated for
  640 x 480: `WholeFrame` and `StageComplete` say that they read and write 307200
  bytes in and 921600 out. At VGA that is the buffers, at QVGA it is four times as
  much as they hold.
- `led_test/src_GAP9/main.c:147,153`: `fade_color` passes `&colors[k]` of the
  component that changes where three components are expected, so the colours sent
  are not those that the comments in `show_rainbow` (166-182) name, and the last
  ones are read beyond the array.
- `thread_pwr.c:138`: a failed first measurement is not noticed, and the level
  stays 0 after a `pwr_init` that succeeded.
- `thread_pwr.c:303`: between the stores of voltage and percentage the pair
  belongs to two rounds (`LevelConsistent` excepts that moment).

Not modelled at all are three more. The charger's cold threshold is encoded into
the field of the cool one and vice versa (`max77654.c:194-195`). The time stamps are
64 bits wide and read in two loads (`thread_pwr.c:179`): a torn read needs 49 days.
`pca6416a_inputs_read` leaves `int_sources` unassigned (`gpio_pca64xxa.c:178`): it
only selects callbacks, and no board connects the line.

Each module is checked with `tlc -config <run's cfg> <module>`, the proofs with
`tlapm <module>.tla`. The operators marked "Mutant" are not part of the models:
each is a plausible mistake in the definition that follows it, which makes one of
the properties fail when it takes its place.

**Bounds.** `pwr_safety`: `main`, a second client and the power thread are the
least that allows a client's operation, the thread's and a shutdown at the same
time; two rails distinguish a partly applied configuration, two samples a round
of measurements that is interrupted between its samples; of the two
attempts of `pwr_kill` on the mutex one is repeated and one gives up; one failure
can be anywhere. `pwr_live` leaves the second client out. The faults of
`Pwr` are bounded by `MaxFaults`: the loop of `pwr_kill` ends only when the bus
works again. In `pwr_safety` clients may only switch GAP9 on: that is how the
examples use `gap9_pwr`, and `pwr_gap9_off` shows what happens otherwise.
`PwrButton`: a latency of two ticks separates shorter, equal and longer, and the
period is longer than the latency, as 20 s and 2 s are. `Pca64xxa`: a pin on each
port, since only bytes and pins are distinguished; two failures are one call that
fails and one more that fails to repair it, or a failed initialisation and a
failed call. `Max77654`: all five regulators, configurations at the ends of the
voltage ranges, refused and with a load switch, two failures; readings whose
millivolts coincide, differ, and reach full scale. `SensorNode`: all boards; two
failures or crashes, one to leave something behind and one to meet it; two
connections, so that one can be closing while the other is open; readings that
are rejected, on the curve and above it. `LedTest`: one failure and one restart,
every mapping of one, two or three LEDs to colours, and for one accepted mapping
of each kind every limit on every channel (`MCDevicetrees`). `CameraTest` has no bound: its numbers are
the code's, all 74 tiles.

**Fairness.** Threads in Zephyr run whenever nothing of higher priority does, and
bus transactions end: hence weak fairness of `main`'s boot and of the power
thread, and for each client weak fairness of finishing what it called, not of
calling. In `PwrButton` the power thread and the clock are weakly fair; `TakeLock`
is strongly fair, since the mutex is held only for the length of an operation,
and so is a read that succeeds, since the bus does not fail for ever.
`PressResets` states its own assumption: that the power thread gets the mutex
again and again. In `Pca64xxa` a call that has the semaphore goes on. In
`SensorNode` only the system work queue and the Bluetooth host are fair, which
are threads of their own; nothing is assumed of centrals. In `LedTest` `main` is
fair, which is the only thread there.

**Deadlock** is not checked in `sensor_node` and `led_bus`: a node whose `main`
returned or halted on an assertion really stops.

## 4. What is proved

**`PwrProofs`**, from `PwrAssumption` alone (any set of clients, any number of
rails, samples, attempts and faults):

- `Invariance`: `IInv` is an invariant. `ControlInv` says which thread may be at
  which label with which job and counter. `LockInv` says that a thread at a
  label where it operates on the PMIC owns the mutex, how deep, or is in
  `forced`; it is what the exclusion follows from. `ShutdownInv` is needed for the
  reboot: once `pwr_kill` is applying its configuration the shared configuration
  is off, the rails before its counter are off, and no other thread can switch a
  rail on, because only `main` at boot and a shutdown configure rails. It also says
  that the main bias written by `reapply_config` may be an old one only if the
  mutex was ignored. `BatteryInv` says that whoever
  is about to sample the ADC finds its own channel selected, or none.
- `TypeCorrect`, `Exclusion`, `SafeReboot`, `BatteryOnly`: the invariants
  `TypeOK`, `PmicExclusive`, `RebootSafe`, `BatterySource` of the runs.
- `OwnerUnlocks`: the action property `OnlyOwnerUnlocks`.
- `NoLeak`: `HolderInside`, the safety half of `MutexReleased`. Whoever has the mutex
  is inside of an operation, at a place where it does not wait for others, and has
  it once where it unlocks it: no error path leaks it. That the operation goes on is
  fairness, and TLC's.
- `Gap9Agreement`: `Gap9Agrees`, when no client switches GAP9 off, of a pin that is
  an output and whose last setting succeeded. `Gap9Inv`
  says that a reset is performed only while the state says on, and that a call of
  `gap9_pwr` that has set the state is going to set the pin to the same.
- `PressesOnce`: `ResetOncePerPress`. `PressInv` follows a press through the places
  that stand for it (the chip's flag, the value read, the driver's copy) and says
  that none of them is set without a press that is still unhandled.

**`ButtonProofs`**, for every latency, period and limit of the semaphore and every
combination of disturbances: `ButtonInvariance`, types, `ButtonNoLostWakeup` and
`ButtonOnlyLongPress`. `TimedInv` is the strengthening: as long as nothing
disturbed a press, the age of the time stamp is the age of the press.

**`MaxProofs`**, for any readings and any number of failures: `MaxInvariance` and
from it all properties of the run `pmic`. `ConfigInv` says that the regulators
before the loop's counter supply what was configured; `WdtInv` lists what
`config_wdt` has left to write and what it has achieved; `CallInv` that the loop's
counter starts at the first regulator, whatever ended the last call.
`EncodeLemma` (a voltage that is accepted is the one supplied) and
`DischargeLemma` (the quotient of unsigned numbers is the percentage rounded
down) are the arithmetic.

**`PcaProofs`**, from `PcaAssumption` (the two ports are disjoint):

- `PcaInvariance`: the semaphore admits one call at a time (`MutexInv`), the
  configuration a call writes is computed from the copy as it still is
  (`CallInv`), the bytes it has passed hold the new configuration and the others,
  unless suspect, the copy's (`ChipInv`). The last is what makes
  `ChipFollowsDriver` inductive.
- `PcaTypeCorrect`, `PcaChipFollows`: the invariants of the run.
- `PcaNoLostUpdate`, `PcaNoGlitch`, `PcaLevelFirst`: its action properties, from
  the invariant and `AskedLemma` (a call asks for changes only of the pins it
  names).
- `PcaAtomicCalls`: the refinement. Every step of the driver is a step of
  `PinBank` or leaves its variables alone; the update of the copy is the step on
  which a call takes effect, and `CallInv` says that it does what was asked of the
  bank as it is at that moment.

**`BatteryProofs`**, for any readings, boards and failures: what
`battery_perc_conversion` computes for every voltage (`OnCurveAlways`,
`Percentage`, `Monotone`), that the stored voltage is a mean of accepted readings
of one round (`NodeMeanOfAccepted`), and that voltage and percentage belong
together outside of the two stores (`NodeLevelConsistent`). The invariant bounds
the sum by the number of the accepted samples.

**`BoardProofs`**, for any of the seven boards and any number of failed calls,
crashes and restarts: `BoardInvariance`, `BoardBusPowered` (`SensorBusPowered`) and
`BoardRunningPowered` (`RunningMeansPowered`). The argument for the bus: a restart
may leave a sensor's switch closed on the chip, but the driver's copy has it open
(`BusInv`), every call rewrites all registers from the copy, and the fifth pin that
`pwr_init` configures is the first of the expander; when that call succeeds the
switches are open, when it fails `pwr_init` does. From there they stay open, on
the chip and in the copy, until both supplies are on. `ReadyInv` says that when
`pwr_init` succeeded the pins whose configuration it checks are outputs, which
leaves out GAP9's bus switch and the debug LED; `OnInv` that a pin set is on in
the copy, too, so that no later call takes it back.

`BoardProofs` also has `NothingForgotten`, the safety half of `Reachable` and
`Retried`, for any `CONFIG_BT_MAX_CONN`: while a disconnection has not been followed
by an attempt to advertise, the work item is queued; when the item is idle the
advertiser is on, or waits for a connection object, or its last start failed.

**`LedProofs`**, for any number of failed transfers and restarts, from
`LedAssumption` (the two LED devices exist and differ):

- `ColorsAreWhole`: `WholeColors`. `PendingInv` lists what a call has staged and
  still has to write, `WholeInv` what is shown and, when each channel is a LED of
  its own, also what is staged: a LED of three channels is saved by a call staging
  all of them before its update, three LEDs only by every level left staged having
  been asked for. `PermutationLemma` says that a checked configuration gives each
  component of a colour its own channel.
- `ReadyIsConfigured`: `ReadyMeansConfigured`, for every devicetree of the binding:
  any number of LEDs, any lists of colours, any of the four limits on each.
  `BandLemma` is the arithmetic of two bits per band in one register. `LimitsInv`
  says that the register of the current limits is written before the transfer
  that ends the initialisation, and that a device that is ready keeps it.
- `PatternEndsDark`: `EndsDark`. `DarkInv` says which colours a device may show
  at each place of the debug board's test; `PatternInv` follows a pattern colour by
  colour: its ninth is black, and if that call succeeds nothing else may be shown,
  whatever failed before.

**`CameraProofs`**, for every order in which transfers complete. The proof rests on the shape of the
kernels' loop, not on unrolling its 74 tiles:

- `LoopsAreInStep`: the loop invariant `IspInv`, which one argument shows for all
  three kernels. `DmaInv` says which two transfers may be in the queue at each
  place of the loop, and in which order; `LoopInv` that the loop's address
  variables are the ones of the tile table; `DataInv` that what is about to be
  read (the operand of the cores, a result on its way to the image) is in its
  buffer; `OrderInv` that in an engine that carries out its commands in order the
  read of tile t + 1 stays behind the write of tile t - 1. `DataInv` is
  claimed for the in-place kernel only with such an engine, since there the two
  share a buffer. What it needs of the kernels' numbers is in `BufferLemma`: the
  buffers of consecutive tiles are apart.
- `KernelsComplete`: the action property `StageComplete`. When a kernel ends,
  the number of tiles produced from the right data and stored is the number of
  tiles of the image.
- `BuffersAreDisjoint`: `BuffersDisjoint`, pair by pair of the memory's users.
- `FrameIsWhole`: `WholeFrame`. No transfer reaches beyond 640 x 480 pixels, and at
  the end of a kernel its address variables stand at the end of the frame. Nothing
  is assumed of the camera's format: it is what the image buffers must hold, and
  those of QVGA do not.
- `CameraIsPowered`: `CameraPowered`, with `PinInv`, which ties the pins to the
  place in `main`.

Every invariant and action property of the runs is proved. Only model-checked is
what needs fairness and is out of the prover's reach: `MutexReleased`,
`KillReboots`, `PressResets`, `LongPressKills`, `FlagsCleared`, `Reachable`,
`Retried` and `PressShown`.

## 5. What is not modelled, and the plan

Not modelled: vendored sensor drivers and the unit tests of the PMIC's driver;
the sensor polling, console and bus scan of the examples, which are I/O without
shared state; the formatting of BLE characteristics; in the PMIC's driver the
fields of the charger, which only go to registers, the GPIO reads, power off and
ship mode, which nothing calls; the interrupt side of the expander, which no
board connects (`pin_interrupt_configure` returns `-ENOTSUP`), and its pulls,
which are recorded and never written to this chip. Open and close of GAP9's flash
and RAM in `bsp_sensei_basev1.c` have no caller in the repository. `pwr_start`
works on the PMIC without the mutex that `pwr.c:61` asks for; `PmicExclusive`
shows that it does no harm, since no other thread runs yet.

Left of the plan:

1. `Pwr` over `Max77654`: that the rails of the former are the registers of the
   latter, as a refinement.
2. The supplies shared by flash and RAM on GAP9's base board, when something uses
   them.
