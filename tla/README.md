# bsc_fw: a verification development

TLA+ models, model-checking runs and machine-checked proofs for the firmware of
the BSC (Battery Safety Controller), an ESP32 that reads battery management
systems (BMS), raises alarms, switches relays and tells an inverter over CAN how
much it may charge. Paths are relative to the repository; the sources are in
`src/src`. `PROJECT.json` maps every definition to the lines it stands for.

## 1. The system

### Tasks

FreeRTOS runs these tasks on two cores (`main.cpp:670-792`), so that they
interleave at the level of single loads and stores:

| task | period | does |
|---|---|---|
| `task_ble` | 1 s | scan, connections to BMS and balancers over BLE |
| NimBLE host | event | the callbacks of the connections, incoming frames |
| `task_ConnectWiFi` | continuous, 1 s while connecting | WiFi, MQTT connection |
| `task_onewire` | 1.2 s | temperature sensors |
| `task_bscSerial` | 1 s | one reading of every serial BMS |
| `task_alarmRules` | 1 s, after 15 s | the rules, the triggers, the relays |
| `task_canbusTx` | 1 s | the messages to the inverter |
| `task_i2c` | 2 s | display, extensions |
| timer daemon | 10 ms while armed | the end of relay pulses |
| Arduino `loop()` | continuous | web server, REST, MQTT client, supervision of the tasks |

They share the readings (`BmsData.cpp`, one mutex), the settings in RAM
(`WebSettings.cpp`, one mutex per access), the triggers (`getAlarm()`), the
`inverterData`, and a few flags. The web server changes settings at any moment of
any other task.

### Components

For each: state; operations; what it talks to; what is hard; what makes it correct.

**Alarm rules: triggers** (`AlarmRules.cpp`). State: which of the 10 triggers are
active, their causes, the hysteresis of each rule, the limits of the inverter.
A run evaluates rules about BMS, temperatures, frozen values, inputs, state of
charge and virtual triggers in a fixed order; each calls `setAlarm()`. Reads
`BmsData`, `inverterData`, the inputs; read by the relays, the CAN task, BLE. Hard:
several rules share a trigger, one group reads the triggers in the middle of the
run, settings and virtual triggers change between two groups. Correct: a trigger
is active exactly while some rule has cause for it; the inverter is limited while
it should be. *Modelled: `Triggers`.*

**Alarm rules: relay outputs** (`AlarmRules.cpp`, `dio.cpp`). State: the relay byte,
the delay of each output, pulse counters, a one-shot timer, the shift register.
Edges of triggers start delays or clear outputs; `setDOs()` counts delays and
switches; `doOffPulse()` ends pulses. Hard: two tasks on one byte, only part of
it under `doMutex`; resets that keep the shift register; changes of settings
in the middle. Correct: a pulse always ends, the outputs follow the byte, a
permanent relay follows its trigger. *Modelled: `Relays`.*

**Settings store** (`WebSettings.cpp`, NVS, LittleFS). State: parameters in RAM, the
configuration file, its backup, the saved CRC. Save, boot, recovery. Hard: power
can go between any two steps, also after the file system was formatted because a log
could not be removed. Correct: a committed configuration survives, a part of one is
never read. *Modelled: `ConfigStore`, `StableStore`.*

**CAN: limits, state of charge and current** (`Canbus.cpp`). State: the last charge
current, the timer of the cut-off, the dynamic charge voltage, the state of the
recharging, `inverterData`. Each cycle builds messages 351, 355 and 356. Hard:
values of the last cycle decide on the next, readings and sources change between
two messages, packs fall silent, integer arithmetic. Correct: limits within their
range, no charging after the cut-off, a state of charge that some pack has, the
ramp ends. *Modelled: `ChargeLimits`, `ChargeControl`.*

**CAN: receiving and the other messages.** Formats readings and alarms (359, 35a,
370-377), receives a JK-BMS over CAN. *Not modelled (layout); planned as far as
message 359 decides on errors.*

**BMS data** (`BmsData.cpp`). The readings of up to 18 BMS, the filter of cell
voltages, the correction of the state of charge. Hard: the filter compares with a
value of before and counts errors; that the voltage for 100 % was reached is
remembered, and a JBD-BMS sends its state of charge before its voltages. Correct: a
battery counts as full only when a cell has been as high as set; a BMS whose
voltages stand still is reported. *Modelled: `SerialBms`; plain getters and setters
have no behaviour of their own.*

**Serial BMS task** (`BscSerial.cpp`). The function of each port, the error counter of
the filter, the plausibility counter. `cyclicRun()` calls a driver per port and
judges the pass. Hard: the web server changes functions and the number of errors
tolerated without the mutex, in the middle of a pass. Correct: a BMS is offline
exactly after more rejected passes than tolerated. *Modelled: `SerialBms`, with one
BMS per port.*

**Serial BMS protocols** (`src/src/devices`). Request, reception with a timeout,
checksum, conversion. *Modelled in `SerialBms` as far as what the JBD and JK drivers
store, in which order, and the JBD driver's check of the total voltage; the
reception byte by byte is planned.*

**BLE connections** (`BleHandler.cpp`). A state machine per device, moved by the BLE
task and by callbacks of the NimBLE host; started and stopped by the WiFi task;
requests to switch a balancer from the alarm rules. Hard: no lock between them, two
globals hand a scan result over, a flag blocks MQTT. Correct: a connection is set
up for the device that was found, no device is left in a state that nobody moves,
every device is served in the end, a request to a balancer is carried out.
*Modelled: `BleConnect`.*

**BLE protocols.** Reassembly of frames from notifications. *Planned.*

**WiFi and the supervision of the tasks** (`main.cpp`). The state machine of
`task_ConnectWiFi()`, the flags that WiFi events set, an access point of its own
as the fallback. Hard: a late event may answer an earlier attempt, a loss may
come in any state, the library retries by itself. Correct: a loss is noticed, the
pages are served again. *Modelled: `Net`; `checkTaskRun()`, which restarts the
controller when a task has stopped, is not: no action stops a task.*

**MQTT** (`mqtt_t.cpp`). Connection, queue of messages, virtual triggers. Hard: many
tasks publish, the size of the queue is compared before the mutex is taken, the
queue is emptied when WiFi goes, nothing is accepted while the broker or a BLE
device is away, although a trigger is published only on its edge. Correct: the
queue is bounded, no old value follows a newer one, what is queued is delivered
or known to be lost. *Modelled: `Mqtt` with `Net`; `mqttCallback()` in `Triggers`.*

**REST interface, JSON, update, pages.** *Saving a parameter is in `ConfigStore`;
the rest is formatting.*

**Onewire, I2C, log, time, vendored libraries, tests.** *Not modelled: readings that
the rules find in any state, pure I/O, external clocks; the log comes last in
the plan.*

## 2. Modules

| module | models | checked by |
|---|---|---|
| `Relays` | relay half of `AlarmRules.cpp` | `relays_pulse`, `relays_delay_gap` |
| `RelayHistory` | `Relays` with: what has become of the last change of the settings | `relays` |
| `Triggers` | rule half of `AlarmRules.cpp`, `mqttCallback()` | through `TriggerHistory` |
| `TriggerHistory` | `Triggers` with: triggers at the start of the run; settings left alone? | `triggers` |
| `StableStore` | the abstract promise of the settings | as a property of `ConfigStore` |
| `ConfigStore` | file, backup and CRC of `WebSettings.cpp` | `config_power_loss` |
| `ChargeLimits` | the limits of `Canbus.cpp` that are functions | `LimitSweep`, and inside `ChargeControl` |
| `LimitSweep` | a battery that is charged through all readings | `limits_sweep` |
| `ChargeControl` | messages 351, 355 and 356 and their state | `charge_settles` |
| `ChargeHistory` | `ChargeControl` with: lock time due, cycles waited, pause forgotten by a restart? | `charge` |
| `BleConnect` | `BleHandler.cpp` | through `BleHistory` |
| `BleHistory` | `BleConnect` with: what was asked of the balancers, which threads have crossed | `ble` |
| `SerialBms` | `BscSerial.cpp`, the filter and the state of charge of `BmsData.cpp`, two drivers | through `SerialHistory` |
| `SerialHistory` | `SerialBms` with: rejected passes in a row, the voltage for 100 % seen, the last total voltage of each device | `serial`, `serial_mixed` |
| `Mqtt` | `mqtt_t.cpp` | inside `Net` |
| `Topics` | what MQTT promises to who subscribes to the controller | as a property of `NetHistory` |
| `Net` | `task_ConnectWiFi()`, `connectWiFi()`, `onWiFiEvent()` of `main.cpp`, with `Mqtt` | through `NetHistory` |
| `NetHistory` | `Net` with: what the broker has got, what was put into the buffer, what is lost | `net` |
| `MC...` | settings and readings of the runs | |
| `...Proofs` | theorems | |

History variables only watch: `HNext` is `Next` and an update of them.

`Triggers` and `Relays` meet at `bo_Alarm`: a run of `Triggers` produces the set of
active triggers that `Relays` finds, in its action `EvaluateRules`, in any value.
`ChargeControl` and `Triggers` meet twice: `limited` is produced by
`rules_CanInverter()` and found in any value by `ChargeControl`; `inverterData` is
produced by `ChargeControl` and found in any zone by `rules_soc()`. Every
behaviour of the whole is therefore one of each part, and what is shown of a
part holds in the whole. The composition proper is planned (section 8).

`Net` composes the WiFi task, the event task, the MQTT client and the tasks that
publish. It meets `BleConnect` at two flags: `running` is set by `Net` (`start()`,
`stop()`) and found in any value by `BleConnect`, whose `notAll` blocks MQTT and
is found in any value by `Net`. `BleConnect` meets `Triggers` at the triggers that
deactivate a device or ask a balancer to switch. What `SerialBms` stores is what
`Triggers` and `ChargeControl` find in any state: a BMS that falls silent there is
one that `Judge` takes for offline.

### State and actions

`Relays`. `doByte`, `latch`, `delayTimer`, `pulseCount`, `alarm`, `alarmOld` are the
variables of the code (bytes as sets of bits). `pc`, `idx`, `acc`, `toClear` are where
the alarm task is and the register it holds; `tPc`, `tAcc`, `expired`, `restart`,
`changeDo` the same for `doOffPulse()`. Outside of `tPc = "idle"` the callback
holds `doMutex`, and the two steps of the alarm task that need it wait. An update
of the byte is a load and a store. The counters are only touched under the
mutex and are counted down in one step. `Restart` keeps the settings, and the
latch or clears it (`RTC_DATA_ATTR`, first boot). `xTimerStart()` is taken to
succeed.

`Triggers`. One action per group of rules, in the order of `runAlarmRules()`. What a
rule measures is a zone relative to its own limits (above, near, below), chosen
anew in every run; the hysteresis of each kind is in `side`, `tempHot`, `socOn`.
`SetAlarms` stands for the calls of `setAlarm()` that a group makes; the comment
there says why their order does not matter. `SaveSetting` and
`SetVirtualTrigger` may come between any two groups.

`ConfigStore`. A configuration is a version; a file is missing, torn or whole;
different contents have different CRCs. Between the opening and the closing of
a file, between the closing and the saving of the CRC, and so on, `PowerLoss` may
come. LittleFS and the NVS are external: an NVS value is replaced atomically, a
file opened for writing keeps or loses its old content until it is closed.
With `ShortWrites` the flash may be full and a closed file torn. `FormatForLog` is the
button that deletes the logs (`main.cpp:1089-1098`): when a log is still there, the file
system is formatted, which takes both files, and `writeConfig()` writes the settings
again; the CRC stays in the NVS. `wiped` remembers that this is under way. For
`StableStore` the format is `Erase`, after which the current settings are still there to be
committed, unless a reset takes them as well.

`ChargeLimits`, `ChargeControl`. The limits are the formulas of the code, with the
truncating divisions and the `int16_t`. A step of `ChargeControl` builds one
message from one reading of everything it needs; between two messages packs
report or fall silent, alarms limit, and the web server saves settings and reloads
the sources in the three writes of `loadCanSettings()`. The uninitialised loop
index of `loadCanSettings()` (`Canbus.cpp:163`) is any start (`Filtered`). `Restart`
has every pack online with blank readings, as for the first 5 s after a boot.
`sendCanMsg()` is taken to succeed.

`BleConnect`. `wifi` is whether `WlanStaApOk` is other than `WIFI_OFF`: `task_ble` calls `run()`
only then (`main.cpp:691`), while a run under way goes on when it changes. Three kinds of threads: the BLE task (`run()`, split at the points where
the others can come in between and matter: before each slot, around
`btDeviceConnect()`, between the reading of a balancer's request and the store that
it is done), the host task (`OnResult`, `OnDisconnect`), and the tasks that start,
switch WiFi, start, stop and ask (`Others`). A slot names its device, as no two slots are set up for the
same one. `advNr` and `advValid` are the two globals a scan result is handed over in;
the result is deleted by the next scan. `link` is what the stack knows of a
connection and `isConnect` what the firmware does. The two sets `Works` and
`Disturbs` of `BleHistory` split the steps into those that go on by themselves and
those that something from outside causes, of which there are at most `MayDisturb`; the
return of WiFi and `stop()` after its loss (`Offline`) are neither, and come at any time.
A result may come for a device in any state of its link, as `onResult()` does not look at it.

`SerialBms`. A pass of `cyclicRun()`: test the port, call the driver, judge, check
whether the voltages have changed. The web server first saves settings and then hands
them to the task device by device (`SetReadBmsFunktion`), then the filter percentage
(`SetPercent`), between any two steps. An answer has a total voltage, cells and a state
of charge; the JBD driver stores the state of charge from its first message with
the extremes of the last pass, the JK driver after the cells of the same one. The
error counter's bit 7 is `rejected`. The linear formula for the state of charge is
the one of the code, with its truncating divisions.

`Mqtt`, `Net`. A pass of `mqttLoop()` sends a message or, within 15 ms of the last one, does
not (`SendNext`, `MqttLoop`), and adds data in both cases. One action per case of the switch in `task_ConnectWiFi()` and per part of
`connectWiFi()`. The event task is `LinkUp` and `LinkDown`, which change the status
of the link, followed by `OnWiFiEvent`, which sets the flags. `Publish` is the check in
front of the mutex and `Push` what follows it. A message is the task it comes from and
the number of its value, so that order can be told. `session` is the broker's side of
the connection ("dead": the client still takes itself for connected). Clearing the
buffer while another task adds to it is undefined behaviour: the buffer is cleared, or
the firmware starts again (`TornBuffer`). `NetHistory` implements `Topics`: a topic has
one value after the other (`Renew`) and the broker gets some of them, in their order
(`See`), under the mapping `latest <- count`, `seen <- got`. All else, the buffer, the
mutex, the sessions and the losses, is a stutter of `Topics`.

## 3. Runs

| run | instance | distinct states | what it shows |
|---|---|---|---|
| `relays` | 2 triggers, 2 outputs, delays of 0 and 2, hardware version 0 (the LED is in the byte) | 1.89 M | `PulseTimerArmed`, `LatchFollowsByte`, `ReleasedWhenClear`, `OnOrDelayed` in every interleaving, with resets and saves |
| `relays_pulse` | 2 triggers, 1 relay: pulses of 1 to 3 ticks, delay 0 and 1, or permanent; both kinds of board | 76 k | `PulseEnds`, `RelaysReleased` |
| `triggers` | 2 triggers, one rule of each kind, 3 settings | 0.79 M | `CausesExplainAlarm`, `LimitApplied`, `LimitLifted` |
| `config_power_loss` | 4 configurations, loss of power and format | 878 | `Recoverable`, `ImplementsStableStore` |
| `limits_sweep` | 36 settings, all readings around their limits | 0.13 M | `LimitsFall`, `LimitsInRange` |
| `charge` | 2 packs, 2 readings each, cut-off and recharging, lock times of 1 and 2 | 1.02 M | `RefillPause`, `PauseBounded`, `CutOffHolds`, `SocFromPacks` |
| `charge_settles` | 1 pack, charge currents up to 55 A, CAN on and off | 0.17 M | `SettlesAtTarget` |
| `ble` | 2 slots (balancer, BMS), 2 disturbances of any kind at any moment, WiFi on and off | 0.30 M | `ConnectsFound`, `SetupEnds`, `WriteReady`, `RequestKept`; `DevicesServed`, `BalancerFollows`, `MqttReleased` |
| `serial` | 1 BMS of either kind, 1 cell, 2 saves | 0.59 M | `ErrorsCounted`, `FullWhenReached`, `FrozenStays`, `FrozenNoticed` |
| `net` | 1 task that publishes 2 values, 2 disturbances | 0.36 M | `QueueBounded`, `ImplementsTopics`; `LossNoticed`, `WifiServed`, `Delivered` |

`relays`, `triggers`, `charge`, `ble`, `serial` and `net` also check the types (those of
`ConfigStore` are proved). Each property has a mutant in `PROJECT.json`: a definition of the model with a
plausible bug, under which the run finds the property violated.

Two runs show the code at odds with its own comments (section 4): `relays_delay_gap`
and `serial_mixed`.

### Bounds, and why they are enough

- *Two triggers, two outputs.* The loops treat triggers and outputs one by one and
  they meet only in the byte, the timer and the settings. Two outputs on one trigger
  share an edge; one output on two triggers sees one go while the other stays; a
  permanent and a pulse relay share byte and timer. `PulseTimerArmed` and
  `LatchFollowsByte` are also proved for any number, `ReleasedWhenClear` and
  `OnOrDelayed` for any number and any delays.
- *Delays of 0 and 2 runs, pulses of 1 to 3 ticks.* 0 is the edge that switches in the
  same run. A delay of 1 is counted to 0 in the run of its rise and switches the relay in
  the next, so that nothing is left to count when the trigger comes back after it has
  gone; 2 is the least delay that is. `OnOrDelayed` is proved for any delay. The runs about
  pulses and about the gap of the delay have 0 and 1. A pulse of 1 tick ends in the first
  call, one of 2 re-arms the timer, one of 3 re-arms it again.
- *One rule of each kind.* Rules meet only in a shared trigger, and the settings of
  `SharedConfigs` let any two kinds share one, before and after
  `rules_CanInverter()`. `CausesExplainAlarm`, `LimitApplied` and `LimitLifted` are also
  proved for any rules.
- *Four configurations.* The empty one, the defaults, and two of the user, so that an old
  and a new one can be confused. `StoreImplemented` is proved for any set.
- *Two packs, readings full and empty.* One reading ends a recharging and passes the
  cut-off, the other does neither; with two packs one can fall silent while the
  other stays, and the master can be absent. `CutAndRefill` has charge currents of at
  most 2 A, so that the ramp does not multiply the states; `RampAndSwitch` has up to
  55 A for all four steps of the ramp.
- *Cut-off after 2 cycles, lock of 1 and 2 cycles.* Long enough for something else to
  happen in between. With two lock times another one can be saved while the pause of the
  first still runs, in both directions; the family with both has one pack. `RefillPause`, `PauseBounded`, `CutOffHolds` and `SocFromPacks` are
  proved for any settings, packs and readings.
- *`limits_sweep`* has ranges that divide evenly and that do not, `start` above `end`,
  and a minimum above the maximum. Settings for which the code divides by zero are left
  out (`Safe`; section 5). Both properties are proved for any others. It stops when all readings are at their end, so that
  deadlock is not checked there.

- *`ble`: two slots.* Slots share the scan, the two globals, the order in which they
  are served and the flag that blocks MQTT; two are enough for one to hold up the
  other, or to be taken for it. A scan of 3 runs can end before, with and after a
  result. Two disturbances make every pair: a result with a manual scan, a request
  with a lost connection, a stop with a settings change. All its
  safety properties are proved for any number of slots and disturbances.
- *`serial`: one BMS, one cell.* Devices meet only in `totalOld`, for which `serial_mixed`
  has two; each cell is filtered by itself, and what the code makes of several (the
  highest, the lowest, a sum that nothing here uses) is in the proofs for any number.
  The counters end at 2 instead of 125 and 253, above the values at which they decide.
  The safety properties are proved for any of these.
- *`net`: one task, a buffer of one.* Tasks meet only in the buffer and each has its own
  topic. With the WiFi task's own data the buffer reaches 3 messages, which is the
  bound. Values are used up after 2 per task, so that deadlock is not checked
  there. Two disturbances reach a change of settings during a loss, a loss during the
  attempt to connect again, the own access point, `TooLate` and a torn buffer.
  `QueueBounded` and `ImplementsTopics` are proved for any number of tasks and
  disturbances. `BleBusy` may come without WiFi, for the run that was under way when WiFi was
  lost, but not before the first connection (`first`), since no run has been called then.

No counter of the code is cut off by a guard: delays, pulses and timers are bounded
by the settings and by the code. The bounds are named: `MayDisturb`, `MaySave` and
`ValueTop` limit what comes from outside. The lock time counts from 65535 when it is
set to 0; the runs set 1 and 2, and a lock of 0 rests on the theorem `PauseEnds` alone.
Cycles of a pause are those in which the recharging is computed: while an alarm reports
the battery full (`limited` with SoC full), the pause stands still.

### Fairness

Weak fairness of the alarm task, the timer daemon and the CAN task, as wholes:
FreeRTOS wakes them periodically, they never block for ever (the mutexes are held for
bounded times), and none of their steps waits for anything but time. Nothing is assumed of users, BMS, MQTT or resets.
The two liveness properties of the relays are about `SteadySpec`, without saves and
resets, because a reset at every run ends no pulse and a save may change the kind of
a relay in the middle of one; `SettlesAtTarget` has what it needs in
its premise (`Calm`, `Driven`) and keeps them in the behaviours. `Calm` asks that the target
stays, not that the readings do.

- `ble`: weak fairness of the BLE task together with the WiFi task's `start()`: both
  are woken periodically, and every call of the stack returns, with success or
  failure. Weak fairness of `Closed`: the stack reports a connection it was told
  to close. Strong fairness of `Found` for each slot: scans are repeated for ever and
  the device goes on advertising, so that it is found in one of them. That a
  connection can be set up at last is the end of the disturbances, not fairness. Since
  `run()` is called only with WiFi, the three liveness properties are owed where WiFi comes to
  stay (`Online`); that it does is not assumed of anyone.
- `serial`: weak fairness of `cyclicRun()`, which `task_bscSerial()` calls once a second.
- `net`: weak fairness of the WiFi task, of the tasks that wait for the mutex of the
  buffer, of the event task, of the station connecting to an access point that is
  there, and of a loss being reported when it is not. Nothing is assumed of the
  BLE task, the broker, the user and the access point: `WifiServed` and `Delivered`
  have them in their premises.

## 4. Where the code differs from what it says

1. `relays_delay_gap`: a falling edge clears a permanent relay but not its running
   delay (`AlarmRules.cpp:303-306`); when the delay runs out the relay is switched
   on with no edge left to release it.
2. `serial_mixed`: the JBD driver keeps the total voltage of the last message in one
   variable for all devices (`JbdBms.cpp:200`). With two JBD-BMS whose voltages differ
   by more than 10 % each is compared with the other's: the lower one's basic
   message is dropped every time, as if its voltage had fallen (`JbdBms.cpp:202`).

## 5. Observed while modelling, without a run

Relays and triggers:

- The alarm task updates `u8_mDoByte` outside of `doMutex` (`AlarmRules.cpp:345`), so that
  the end of a pulse can be undone: the relay stays on and the timer is stopped,
  until the next edge of its trigger. The update can be lost the other way round,
  too. On hardware version 0 the LED is toggled in the same byte in every run, so
  that this needs no second relay. `RelaysReleased` therefore asks for a relay byte
  that one task alone updates (`Undivided`); `LatchFollowsByte` holds without it.
- `rules_CanInverter()` (`AlarmRules.cpp:241`) runs before the inputs, the state of charge
  and the virtual triggers. A trigger that an input holds, and to which an earlier
  rule that is not met reports, is off whenever the limits are decided: the
  inverter is never limited. Triggers fed from one side only are limited, at most
  one run late, which is what `LimitApplied` and `LimitLifted` say.
- A pulse that still counts when its output is made permanent in the settings clears that
  output when it ends, with its trigger active (`AlarmRules.cpp:386-402`). The run that
  carries out a change is therefore asked to begin with no pulse under way before
  `OnOrDelayed` is owed again (`Applies` in `RelayHistory`).
- A relay that is taken off its trigger in the settings while it is on stays on: the
  reset of the triggers clears only the relays of the new settings
  (`AlarmRules.cpp:266-272, 303-309`).
- The causes for a total voltage above and below its limits are swapped
  (`AlarmRules.cpp:649, 658`); the model has them as the code does.
- A virtual trigger that comes before `task_alarmRules()` has called `initAlarmRules()`,
  15 s after a start, is cleared by it (`AlarmRules.cpp:72`); the hysteresis of a rule
  survives a change of its settings (`AlarmRules.cpp:74`).

Settings:

- `copyFile()` returns the CRC of what it has read, not of what it has written; a
  shortened backup is not noticed (`WebSettings.cpp:1433`). The run and the theorems
  have `ShortWrites = FALSE`.
- Deleting the logs may format the file system (`main.cpp:1095`), which takes the settings and
  their backup. They are written back at once, but a loss of power before their CRC is
  saved loses every setting: the next start finds no file that it trusts, writes
  the empty configuration and then the defaults.
- Without a saved CRC (a controller whose firmware kept none) any file is trusted.

Inverter:

- Message 355 stores the state of charge and message 356, later, whether a pack is
  online. A pack that comes online in between makes the rules see 0 % of a moment
  without packs (`Canbus.cpp:1366`, `AlarmRules.cpp:936`).
- `Canbus.cpp:676, 777`: the step per ampere is rounded to 0 for a range of few mV and a
  large range of A; the division resets the controller (`Trapped`). `TrapsWhenNarrow` says
  for which settings.
- `Canbus.cpp:711`: the reduction by cell drift may wrap an `int16_t` before it is
  compared with 0. The limit is then above the maximum and, as the smallest of the limits
  is taken, without effect. The differences of the run do not reach this, and `Fits` excludes
  it from the theorems.
- `Canbus.cpp:604-606`: the comment says that a lower target is applied at once ("sofort") and
  a higher one only every 30 seconds. The code lowers the current by 1, 3, 5 or 10 A
  in every cycle, whatever the target is, and raises it by up to 10 A in every cycle:
  `Ramped` and `Step` have what the code does.
- `Canbus.cpp:950`: the pause between two rechargings is kept in RAM. A restart in the pause
  forgets it, and the code may recharge at once (`forgotten`, the exception of
  `RefillPause`).
- `Canbus.cpp:163`: an additional source below the index at which the loop happens to start is
  left out of the inverter's data; such a pack is then none of those online in
  `SocFromPacks`.
- `Canbus.cpp:895`: the dynamic charge voltage is unsigned and compared with less than
  0; a lower saved maximum is not applied while the cells drift; at exactly the
  configured difference the full voltage is sent. `VoltageCorrect` shows that the wrap at 0
  and the lower maximum are the only ways to a voltage above the maximum.
- `Canbus.cpp:943, 949`: a recharging ends when all packs are silent (65535 mV), may
  start in the first 5 s after a boot (0 mV), and a lock time of 0 lasts 65536 cycles.
- `Canbus.cpp:1029`: after an alarm the charge current jumps back to the value before,
  not by 10 A.
- `Canbus.cpp:172`: while the sources are reloaded, a message 356 counts the current of
  the master twice; a silent master counts in the highest cell voltage, the cell
  difference and the current at all times.

Bluetooth (`BleHandler.cpp`):

- A device that is found, cannot be connected and is then deactivated keeps its type,
  which `onResult()` has set (line 154): the slot counts in the order of the
  connections and is written to with the characteristic of an earlier connection or
  none (`failed` in `WriteReady`).
- A scan started by hand while a device that was found waits deletes the result and
  may leave the slot in `btConnectionSetup`: no device is served any more (`crossed`).
- The flag that blocks MQTT is cleared by the start message for the device that a scan
  has found, which is never written if the settings change in between (`excused`
  in `MqttReleased`).
- A request to a balancer is lost when it comes between the reading of the last one
  and the store that it is done (lines 792-799, `raced`), and when the
  connection is set up anew.
- The pointer to a characteristic stays after a loss, and the check that there is one is
  followed by the write without a lock. In the model the lost one counts (`pChr`) and the
  two are one step, so that `WriteReady` says nothing of a write to a lost connection.
- `run()` is called only while WiFi or the own access point is up (`main.cpp:691`), so that a
  controller without either connects no BLE device. A run under way when WiFi is lost may set the
  flag that blocks MQTT after `stop()` has cleared it, and only a later run clears it.
- A slot with a type but no address, and a device that cannot be found, keep the
  slots after it from being served; so does `sendDataToNeey()` for a missing device,
  which makes scans start and stop every second. The same address in two slots, and
  an address that is changed while it is connected, are not noticed. `stop()` leaves
  a scan running.

Serial BMS:

- The filter rejects jumps upwards only: a single low reading is accepted, and all true
  ones after it may be rejected for ever (`BmsData.cpp:112`). The highest and lowest
  cell are taken from what was reported, rejected or not.
- The percentage of the filter is handed over only when settings are saved: after a
  restart the filter is off until then (`main.cpp:920`).
- A message without any valid cell has a highest cell of 0 and a lowest of 65535 mV,
  which the linear formula turns into 100 % (the exception in `FullWhenReached`); the sum
  of the cells is 16 bits wide and is divided by the number of cells, also 0.
- The JBD driver drops the first basic message after every restart, because the
  voltage it compares with starts at 65535 V (`JbdBms.cpp:23`). The JK driver's check of
  the checksum accepts a frame in which one of its two bytes is right.
- A counter of unchanged voltages is kept when a device is removed from the settings.
- The mutex in `setReadBmsFunktion()` is commented out (`BscSerial.cpp:168`): a function
  that is taken away between the test and the call would reset the controller, unless
  the compiler loads it once, as `CallDriver` does.

Network:

- The parameter says that 0 switches the timeout off (`params.h:13`). With 0, and no
  connection since the start, the own access point is opened after 30 s all the same,
  and nothing leaves that mode when the user's access point comes back
  (`main.cpp:448`).
- A connection that comes between the last look at it and the state idle is not used:
  idle with `WlanStaApOk` off, hence no pages, no MQTT, until it is lost again
  (`TooLate`, the exception of `WifiServed`); the same when the SSID has been removed. If a run
  of the BLE task has set its flag meanwhile, the WiFi task waits in `connectBT2` for it to be
  cleared, which only `run()` does, which is not called (`main.cpp:600, 691`).
- `connectBT2` waits for the BLE devices without the timeout that its comment plans
  (`main.cpp:600`), so that MQTT waits as long as one BLE device is missing.
- `mqttDisconnect()` empties the buffer without the mutex (`mqtt_t.cpp:282`).
- A message is taken out of the buffer whether or not `publish()` succeeds, and edges of
  triggers are dropped when the buffer is full, while a BLE device is missing or the
  broker is away: the broker's view of a trigger is wrong until its next edge. A
  message accepted before a loss and pushed after it goes out in a later session.
- `mqttLoop()` reports failure after every connection, which costs a detour through
  `connectMQTTstart`. `handle_paramSystem()` no longer initialises MQTT again: a broker
  set in the settings is used after a restart.

## 6. Proofs

All for any value of the constants, from the assumptions named in the modules and those
before a colon. Where liveness is out of reach, its safety half is proved: that
what is to happen stays owed until it happens (`PulseIsEnded`, `RampCorrect`,
`ScansEnd`, `MqttBlockedForReason`, `LossNotForgotten`, `ServedWhenIdle`,
`NoneLostOtherwise`).

| theorem | statement | inductive invariant |
|---|---|---|
| `RelaysProofs!TypeCorrect` | `Spec => []TypeOK` | `TypeOK` with the positions of both threads: loop indices stay in their arrays, a delay in its byte |
| `RelaysProofs!PulseTimerCorrect` | `Spec => []PulseTimerArmed` | `TimerInv` |
| `RelaysProofs!LatchCorrect` | `Spec => []LatchFollowsByte` | the latch can differ from the byte only while one of the threads still has to write it |
| `RelaysProofs!PermanentReleased` | `HSpec => []ReleasedWhenClear` | `PermanentInv` |
| `RelaysProofs!PermanentOnOrDelayed` | `HSpec => []OnOrDelayed` | `PermanentInv` |
| `TriggersProofs!TriggersTypeCorrect` | `Spec => []TypeOK` | `TypeOK` |
| `TriggersProofs!AlarmExplained` | `Spec => []CausesExplainAlarm` | `RunInv` |
| `TriggersProofs!LimitIsApplied` | `HSpec => []LimitApplied` | `LimitInv` with `RunInv` |
| `TriggersProofs!LimitIsLifted` | `HSpec => []LimitLifted` | `LimitInv` with `RunInv` |
| `ConfigStoreProofs!ConfigTypeCorrect` | `Spec => []TypeOK` | `TypeOK` |
| `ConfigStoreProofs!AlwaysRecoverable` | `~ShortWrites`: `Spec => []Recoverable` | `FileInv` |
| `ConfigStoreProofs!StoreImplemented` | `~ShortWrites`: `Spec => ImplementsStableStore` | `FileInv` |
| `RelaysProofs!PulseIsEnded` | `OnePulseRelay`: `Spec => []PulseHeld` | `PulseInv` with the two above |
| `ChargeProofs!PauseKept` | `HSpec => []RefillPause` | `LockInv` |
| `ChargeProofs!PauseEnds` | `HSpec => []PauseBounded` | `LeftInv` with `LockInv` |
| `ChargeProofs!ChargeTypeCorrect` | `HSpec => []TypeOK` | `TypeOK` |
| `ChargeProofs!SocCorrect` | `HSpec => SocFromPacks` | `TypeOK` |
| `ChargeProofs!CutOffCorrect` | `HSpec => CutOffHolds` | `TypeOK` |
| `ChargeProofs!RampCorrect` | `HSpec => RampApproaches` | `TypeOK` |
| `ChargeProofs!RiseCorrect` | `HSpec => RisesWithinLimits` | `TypeOK` |
| `ChargeProofs!VoltageCorrect` | `HSpec => ExcessExplained` | `TypeOK` |
| `LimitProofs!TrapsWhenNarrow` | which settings divide by zero | none: arithmetic |
| `LimitProofs!SweepInRange` | `Fits`: `Spec => []LimitsInRange` | `SweepInv` |
| `LimitProofs!SweepFalls` | `Fits`: `Spec => LimitsFall` | `SweepInv` |
| `BleProofs!BleTypeCorrect` | `Spec => []TypeOK` | `TypeOK` |
| `BleProofs!RunConnectsFound` | `HSpec => []ConnectsFound` | `CrossInv` |
| `BleProofs!RunEndsSetup` | `HSpec => []SetupEnds` | `CrossInv` |
| `BleProofs!RunKeepsRequest` | `HSpec => []RequestKept` | `RequestInv` |
| `BleProofs!RunWritesReady` | `HSpec => []WriteReady` | `WriteInv` with `CrossInv` |
| `BleProofs!ScansEnd` | `Spec => []ScanHasTime` | `ScanHasTime` |
| `BleProofs!MqttBlockedForReason` | `HSpec => []BlockedForReason` | `ReasonInv` with `CrossInv` and `ScanHasTime` |
| `SerialProofs!SerialTypeCorrect` | `Spec => []TypeOK` | `TypeOK` |
| `SerialProofs!SerialErrorsCounted` | `HSpec => []ErrorsCounted` | `CountInv` |
| `SerialProofs!SerialFullWhenReached` | `HSpec => []FullWhenReached` | `FullInv` |
| `SerialProofs!SerialFrozenStays` | `HSpec => FrozenStays` | `TypeOK` |
| `SerialProofs!OneJbdDropsOnFall` | `OnlyJbd(d)`: `HSpec => DroppedOnFall` | `OnlyJbdInv(d)` |
| `NetProofs!NetTypeCorrect` | `Spec => []TypeOK` | `TypeOK` |
| `NetProofs!NetQueueBounded` | `HSpec => []QueueBounded` | `QueueInv` |
| `NetProofs!NetInOrder` | `HSpec => InOrder` | `OrderInv` |
| `NetProofs!TopicsImplemented` | `HSpec => ImplementsTopics` | `OrderInv` |
| `NetProofs!LossNotForgotten` | `Spec => []LossMarked` | `MarkInv` |
| `NetProofs!ServedWhenIdle` | `Spec => []ServedOrKnown` | `ServedInv` with `MarkInv` |
| `NetProofs!NoneLostOtherwise` | `HSpec => []Accounted` | `AccountInv` with `OrderInv` |

Why each needs its invariant:

- *Pulse timer.* That a counter above 0 means a running timer does not survive
  `doOffPulse()` by itself: it has already counted down when it decides whether to
  restart. `TimerInv` adds that while the callback is under way, `restart` says whether a
  counter is left. The mutex keeps `SetPulse` out of exactly that window; without
  it (mutant `MutexIgnored`) the invariant fails.
- *Shift register.* At rest the two agree. While the alarm task is in a run it will write the
  byte anyway; while it waits, only the callback can change the byte, and
  `changeDo` remembers that it did.
- *Causes.* Within a run `activated` is exactly the set of triggers with a cause and is
  part of `alarm`; `rules_vTrigger()` reports to every trigger, so that whatever is left
  active without having been activated is switched off at the end. Two lemmas say so
  of `SetAlarms`, for any calls.
- *Permanent relays.* From a reset, or from the run that carries out a change of the settings
  with no pulse under way, no pulse is ever started, so that
  the alarm task is alone on the byte and its register is current. After a change a
  delay of the old settings may still be counting, so that then only its being a delay is
  kept (`DelayInv`, `ReleaseInv` have `change = "none"`), and the run that carries the change out
  forces every trigger low first (`ResetInv`). In the middle of a
  run the property does not hold, since some edges are dealt with and others are not:
  `PermanentInv` says, at each position of the two loops, for which triggers
  `alarmOld` has caught up (`Handled`), which outputs are on or about to be switched
  (`Due`) and whose delay is already below the one set (`Counted`).
- *A pulse relay on its own.* The bit may be set again by the alarm task while the callback
  clears it, but then the alarm task is between the bit and the pulse (`setPulse`), and
  waits for the mutex. `PulseInv` says that a bit has a pulse that is counted, one
  about to be started or one about to be ended; at rest only the first is left. With
  a second relay, or the LED in the byte, it is false (section 5).
- *Limits of the alarms.* When `rules_CanInverter()` decides, the triggers are those of the run
  before, less what an early rule has dropped, and what an early rule has raised.
  `LimitInv` carries both halves: what was active and gets no early report is still
  active (before), and what was decided still fits `lastRun` and the early causes
  (after), since later rules drop nothing that this run has activated.
- *Limits of the current.* Each limit is a function of one reading, so that the work is in the
  lemmas: the truncating division is monotone, and the throttled current stays between
  the minimum and the maximum however the step per ampere is rounded. `Fits` excludes
  a reduction by cell drift that leaves the `int16_t`, where the property is false
  (section 5); the settings of the run fulfil it (`SweepFits`).
- *Files.* While the file is rewritten, the backup has the saved CRC; while the backup is
  rewritten, the file has it; after a format there is no backup and no CRC has been saved
  since. The refinement maps `stored` to the version a reset
  would read and `current` to RAM once it is loaded: `PutCrc` is the commit, a power loss
  the reset, `FormatForLog` the erasing, every other step a change or a stutter.
- *Pause.* In the lock, cycles waited plus cycles left is at least the lock time
  that was set, unless a restart has forgotten the pause. A save of another lock time
  changes neither. That the pause is not longer
  either needs the sum exactly (`LeftInv`), in which a lock time of 0 is a case of its own.
- *Sums over the packs.* A sum is a fold, and what it means is proved without a theorem of
  induction: of a set for which a bound fails there is a smallest one (the sizes are
  natural numbers), and taking one pack out of it gives a smaller one
  (`SmallestSubset`). So the recursion that the fold chooses exists, is unique, and
  gives a sum that lies between the least and the greatest value times the number
  (`TotalWithin`).
- *State of charge.* The average divides by the packs counted; the master may be counted
  twice, with its value twice, so that the quotient still lies between any two bounds of
  the packs online (`AverageIs`). Division by zero is excluded since `Online` is not empty.
- *Cut-off.* A latch: its timer is not touched while it is over, and the ramp with a
  target of 0 does not rise. What could release it is the state of charge, which is
  what the property allows.
- *Ramp.* Downward steps ignore the target, so that the distance has to count 10 A more
  from above than from below to fall in every cycle until it is 0 (`RampedCloser`).
- *Charge voltage.* An excess can only begin where the count leaves its range or the range
  changes; a closing drift or a restart ends it.
- *Connections.* That the globals belong to the slot at the moment of the connection
  follows from what holds long before: as long as no scan was started across a
  result, at most one slot is found or set up, `advNr` is that slot and the result
  exists, and the decision to scan is only taken when there is none.
- *Requests.* Between reading `balancerOn` and storing the new state `run()` holds a copy; unless
  another request has come since, what it holds is the last request.
- *Writing.* A slot that counts as connected has a characteristic, of this connection or one
  before, or is being closed, has
  failed or is being set up: `WriteInv` says so of every slot and of the link that
  the host task has for it, because `run()` reaches the write from several states.
- *Scans.* The timer is shared between the scans and the wait for a connection, and stopped
  while none runs. A scan starts with the full time and ends at 1, so that none is left
  running at 0.
- *Blocked MQTT.* While a scan runs or a start message is owed, that is the reason. When a
  scan ends without a result or an attempt fails, a slot has to be found that is still
  to be served: `HeldInv` says so of every slot with a connection or one under
  way, at each position of `run()`, as long as nothing crossed.
- *One JBD-BMS.* The value kept for all devices is then the device's own, since no other
  port gets into the driver, also while functions are handed over port by port.
- *Errors.* The counter of the filter is cut off at the number tolerated, which may change;
  unless it was set again during a streak, it is the smaller of the streak and that
  number. Where in a pass it is counted needs a clause of its own.
- *Full battery.* `reached` implies that the voltage has been seen. That the linear formula
  does not make a battery full that has not reached it is arithmetic: `LinearIs` shows
  from two facts about the truncating quotient that the result is below 100 unless
  the highest cell is at its limit or no cell was shown.
- *Buffer.* A task that waits for the mutex has its place: messages in the buffer plus
  tasks that wait are never more than the limit, one, and one per task. The bound
  itself is not inductive, since two tasks may have compared the same size.
- *Order.* What the broker has, what is in the buffer, in its order, and what a task holds
  while it waits are increasing values of that task, none above its count. The
  clearing of the buffer and a restart only remove from the chain. For `Topics` that
  makes the head of the buffer a value that may be seen next.
- *Loss of the connection.* The event is there, the flag is set, or the task is about to
  disconnect. The link may be lost in the second before the firmware takes itself for
  connected, so that the mark has to be there before (`MarkInv`); and the mode with an
  access point of its own, which has no mark, must not lead back to `wlan = "sta"`.
- *Pages served.* Where the task rests is decided many states before: `ServedInv` carries
  from `status` to `idle` that a missing WiFi means a link that came late, a removed SSID
  or a loss still to be noticed. That the last is noticed rests on `MarkInv`: without it
  a late `gotIp` could clear the flag of a link that is gone.
- *What becomes of a message.* No value in the buffer is above the last one put there
  (`AccountInv`), so that a head that is not the last leaves the last one in the buffer,
  and what the broker has is not the last while it is still there (`OrderInv`).

## 7. What is only model-checked

Liveness (`PulseEnds`, `RelaysReleased`, `SettlesAtTarget`, `DevicesServed`,
`BalancerFollows`, `MqttReleased`, `FrozenNoticed`, `LossNoticed`, `WifiServed`,
`Delivered`), which is out of the prover's reach. Every invariant and every action
property of a run that passes is also a theorem.

### Not modelled

Inside the modelled parts: the temperature and the total voltage of messages 355 and
356, the display; a message's readings are taken in one step, while the code takes
the mutex once per reading; the dynamic charge voltage is modelled but switched off
in the runs (its 65536 values are too many). Of `BscSerial.cpp` the baud rates, the
transceivers and the several BMS on one bus; of the drivers the reception byte by
byte and those of other makes, which store in one of the two orders that are
modelled. Of `mqtt_t.cpp` the topics and values; of `main.cpp` the creation of
the tasks and the wait of the BLE task for the first WiFi connection. Of the file system
that it cannot be mounted and is formatted at the start (`WebSettings.cpp:189-193`,
`log.cpp:75-79`): its own corruption is external.

Whole parts: the protocols over BLE (planned), the messages 359 and 370-377 and the JK-BMS
over CAN (formats), the sensors, the display and the extension (readings and
I/O), the log (planned), the time (external), the HTML forms and parameter tables
(formats). Most of the lines of the repository are vendored: the NimBLE stack under
`lib/` and the containers under `include/sparsepp/`, which are no part of this program
but what it is built on.

## 8. Plan

Extending the model, in this order:

1. `FrameAssembly`: the reassembly of BLE frames and the reception loop of the serial
   protocols, against a reference definition over bounded inputs.
2. `SocLoop`: `ChargeControl` and `Triggers` composed through `inverterData` and
   `limited`: an alarm on the state of charge that limits the charging must not
   hold itself.
3. A run of `ChargeControl` with the dynamic charge voltage, over a small range.
4. Message 359, the supervision of the tasks, the rotation of the log.

Proving more: a bound on the cycles that the ramp takes, from the distance that
`RampCorrect` shows to fall; what is left of `HeldInv` after a scan has crossed a result
or settings have changed; for several pulse relays, what a lost update can leave behind.
