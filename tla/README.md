# A verification development for the Dell platform modules

The repository holds what SONiC needs to run on three Dell switches (S6100,
Z9100, Z9264F): four kernel modules in C and the scripts that load them and
report what they find. This directory holds TLA+ models of the parts that keep
state and share it, TLC configurations that check them on small instances, and
TLAPS proofs of the results that matter most, for every value of the constants.

`tlc -config X.cfg M` runs a model, `tlapm M.tla` checks a proof module.

## 1. Inventory

| Component | Source | State it keeps | Operations | What is hard |
|---|---|---|---|---|
| FPGA i2c master, polled | `z9264f/modules/dell_z9264f_fpga_ocores.c` 310-421, 519-567 | `struct ocores_i2c`: message pointer, `pos`, `nmsgs`, `state`; the controller's registers; caller's buffers | `ocores_xfer`, `ocores_poll` | controller, other masters and time run while the driver does; a STOP shows differently from other commands; timeouts; arbitration; buffer bounds |
| FPGA i2c master, interrupts | same, 423-518, 570-585 | the same, shared with the interrupt | `ocores_process`, `ocores_isr` | late interrupts, no lock, `use_irq` read twice |
| FPGA PCI driver | same, 690-763, 832-1371 | the instance, BARs, regions, MSI vectors, handler, adapters and adapter data | probe, its failure paths, removal | users come as soon as an adapter exists; unwinding order; `use_irq` changes at run time |
| SMF register access | `common/dell_pmc.c` 418-472 | four I/O ports, `data->lock` | `smf_read_reg`, `smf_read_reg16` | a reading is up to six port accesses; registers change meanwhile; other users of the ports |
| I/O module power scripts | `s6100/scripts/iom_power_on.sh`, `iom_power_off.sh`, `io_rd_wr.py`, `debian/platform-modules-s6100.init` | the same ports | power on, power off | the ports are shared with the driver without a lock; order at boot |
| SMF sensor attributes | `common/dell_pmc.c` 158-1712 | none: tables, arithmetic | `show_*`, `*_is_visible` | offsets from indices, overflow, signs, undefined shifts |
| dell_pmc driver life | `common/dell_pmc.c` 1716-1919 | port region, devices | find, probe, remove, init, exit | failure and removal order |
| CPLD drivers | `s6100/modules/dell_s6100_iom_cpld.c`, `z9100/modules/dell_z9100_cpld.c` | the CPLD's registers and pointer, `update_lock` | get and set of 16 bit attributes | lock around one byte of two; any transfer fails |
| Platform scripts | `*/scripts/*_platform.sh`, `common/dell_i2c_utils.sh` | the tree of i2c buses and devices | init, deinit | fixed numbers for buses numbered in attach order; commands that fail, muxes that do not answer, a script killed half way |
| Reports, packaging | the other scripts, `debian/` | none | text, pass-through I/O | the reports take attributes and buses by name and number |

They interact in four places. The i2c core calls `ocores_xfer` of an adapter
that the PCI driver registered, so removal of the one waits for calls of the
other. The CPLD drivers, and everything in the trees the platform scripts
build, are users of such adapters. `dell_pmc` and the power scripts share the
SMF's ports. The reports read the attributes of `dell_pmc` and of the CPLDs.

What makes each correct:

- polled transfers: commands in the order of the messages, one at a time (but
  for a STOP over a STOP after a lost arbitration);
  bytes to their own place; success means complete; every call returns;
- PCI driver: users never meet an unmapped register or a missing controller;
  whatever a probe took is given back, up to the leaks the code has, which are
  counted;
- SMF access: a reading returns what its own registers held; the scripts'
  commands reach the I/O modules and nothing else;
- attributes: one sensor, one set of registers; exact values within range;
- CPLD: an undisturbed get is exact, an undisturbed set takes effect;
- interrupt mode: the same as polled mode for as long as no call comes back
  before the controller is through; every call returns in any case;
- life of `dell_pmc`: readers find data and ports; nothing is left behind;
- platform scripts: every device under the number the reports use, whatever
  was run before; deinit leaves the tree of a booted machine.

`PROJECT.json` lists every hazard of this code at its line, with the
properties that cover it. One has none: the SMF may measure anew between the
two bytes of a reading (`dell_pmc.c` 463). The code does not promise otherwise,
and `SmfRegisters` says so: only a reading that no measurement came into is exact.

## 2. Modules

| Module | Models | Notes |
|---|---|---|
| `I2CMessages` | messages, commands, and which command may follow which | shared by the next three |
| `I2CTransfer` | what an adapter promises to callers of `master_xfer` | abstract specification |
| `OpenCores` | one channel of the i2c master as seen through its registers | hardware: derived from the register definitions and their use |
| `OcoresI2C` | `ocores_xfer`, `ocores_poll` with `use_irq = 0`, the default | extends `OpenCores`, implements `I2CTransfer` |
| `MCOcoresI2C` | seven transfers for TLC | |
| `OcoresI2C_proofs` | theorems about `OcoresI2C` | |
| `OcoresIrq` | the other branch of `ocores_xfer`, `ocores_isr` with `ocores_process`, and `use_irq` set at run time | extends `OcoresI2C`, implements `I2CTransfer` under a condition |
| `MCOcoresIrq` | a transfer of three messages for TLC | |
| `OcoresIrq_proofs` | theorems about `OcoresIrq` | |
| `FpgaPci` | probe, failure paths, removal, users of adapters | |
| `FpgaPci_proofs` | theorems about `FpgaPci` | |
| `SmfReadings` | registers of the SMF and the readings taken of them | shared by the next two |
| `SmfRegisters` | what a reading promises | abstract specification |
| `SmfMailbox` | the port protocol, the power scripts, loading and unloading | implements `SmfRegisters` |
| `MCSmfMailbox`, `SmfMailbox_proofs` | readings for TLC; theorems | |
| `SmfDriver` | `smf_find`, load, bind, unbind, unload of `dell_pmc`, and threads that read attributes | |
| `SmfDriver_proofs` | theorems about `SmfDriver` | |
| `SmfSensors` | every attribute of both boards: registers, arithmetic, visibility, labels | |
| `SmfSensors_proofs` | theorems about its arithmetic and its tables | |
| `CpldAttributes` | gets and sets of a CPLD's attributes | one module for the two drivers, which differ in names only |
| `CpldAttributes_proofs` | theorems about `CpldAttributes` | |
| `I2cTree` | the three platform scripts, `i2c_config`, and the i2c core's numbering of buses; the buses `check_qsfp.sh` looks at | |
| `I2cTree_proofs` | theorems about `I2cTree` | |

### How they correspond to the code

**OcoresI2C.** `xfer`, `m`, `pos`, `nmsgs` and `state` are the fields of
`struct ocores_i2c`; `pc`, `stat`, `ret`, `left` are locals of the two
functions. A poll is two steps, reading the status register (`ReadStatus`) and
acting on it (`PollBusy`, `PollArbLost`, `PollAddr`, ...), and the controller
may do anything in between. A byte is identified by its place, `<<message,
index>>`: `rx` records each store as the place stored to and the place of the
byte that was read, so that a byte in the wrong place, or twice, or outside the
buffer is visible without modelling contents. `left` counts ticks of the
second a call is given; progress (`ret == 0`) resets it. The i2c core
serialises the calls of one adapter, so one caller is all there is. `usleep_range`,
messages to the log and the width of the registers are left out.

**OcoresIrq.** Caller and handler are two processes without a lock.
`UseIrq` is a read of the parameter and gives 0, 1 or any other number (2),
afresh at each of the two reads in one call, so that a call may set its state
for one mode and take the branch of the other; a number other than 0 and 1 does
so by itself, also on a driver that has a handler. The handler is split like the
poll: `IsrEnter` reads the status, `Isr` acts on it. It exists on channel 0 of
a driver loaded with `use_irq` only, as `register_intr_handler` has it; other
channels take the same branch and wait in vain. `hurt` is a history variable of
what calls left behind: "late" (timed out), "early" (returned while its STOP was
not yet dealt with), "odd" (state of one mode, branch of the other: the
parameter was written between the two reads, or is neither 0 nor 1).
`HandlerHasItsMessages` relates it to the handler reading messages of a call
that is over. Left out: clearing
`use_irq` of a driver that has a handler (poll and handler would then drive
one transfer together), and ten bit addresses, which this branch does not know
and `ocores_func` does not offer.

**OpenCores.** The FPGA core is not in the repository. The model asks as
little as the driver's own definitions allow: a command takes any time, the
slave may refuse any byte, arbitration may be lost during any command, another
master may take the free bus at any time. `OcoresIrq`, which
writes START without waiting for BUSY to clear, adds that a command is carried
out only when a STOP under way is over.

**FpgaPci.** One action per call into the kernel, each succeeding or failing.
`pc` walks through `fpgapci_probe` and the functions it calls; "fail_..." are
the labels it jumps to. `i` is the loop variable. `useIrq` is the module
parameter (mode 0644) and flips at any time. What the code forgets stays in the
state: `lost` are the BARs of instances that `map_bars` left half way, `instances`
counts the structs in memory, which only `fpgapci_remove` frees (`failed` counts
the probes that failed, at most `MaxFailed` of them), and `handler` stays TRUE
when a removal finds `use_irq` clear and skips `free_irq`; `stray` remembers
that. What `pci_disable_msi` does to such a handler is the kernel's matter and
not modelled. Any BAR may be absent, BAR 0 with the registers too:
`map_bars` skips it and the adapters are added all the same, so the properties
speak of mapped registers only where the device has them.

**SmfMailbox.** Each `outb_p` and `inb_p` is a step. Threads take the mutex,
write both selecting ports, read the byte, and for 16 bits do so again for
`reg + 1`. The port arithmetic (`>> 8`, `& 0xff`, carry) is modelled as it is.
`Measure` changes any registers at any time. A script line is a process of its
own, hence a step; the script writes the high byte once. The init script runs
the power script and then loads the driver. `PowerOffByHand` belongs to
`ByHandSpec` only: nothing in the repository calls it, an operator may.
`issued` is cleared when the service starts, so that it means "since boot".
`Start` assumes that the driver is not loaded, as at boot or after a stop; the
init script does not test that. A second start is not modelled: its script would
meet the driver's threads as the one of `PowerOffByHand` does.

**SmfDriver.** One action per call into the kernel, each succeeding or failing;
`pc` names the step of `sensors_smf_init`, `smf_probe`, `smf_remove` or
`sensors_smf_exit`. `region` is "lost" when a failed probe keeps the ports,
which belong to the device and go with it. The `kobject_put` of
`sensors_smf_exit` is left out: no line assigns `dell_kobj`. `smf_probe` writes to `data` before
it tests it: a failed allocation leads to "oops", from which the module does
not return. The device-managed attributes go after `smf_remove` has released
the ports, and the core waits for readers that are inside (`Drained`).

**SmfSensors.** One step reads one attribute; how the reading travels is
`SmfMailbox`'s subject. Registers are written with their addresses, the name
of the `#define` beside them. Power is computed in units of 32 so that TLC's
32 bit integers can hold what C wraps round at 32 bits (100000 = 32 * 3125, and
`Wrap` is 2^32 / 32).
`show_fan_alarm`'s uninitialised `ret` is any outcome; an undefined shift has
the two outcomes a compiler produces (the bit itself, or the shift modulo 32).

**CpldAttributes.** Each i2c transfer is a step (the i2c core makes a transfer
atomic) and may fail. A get is two reads, each of which sets the CPLD's pointer
and then reads the byte pointed at, under `update_lock`; a set is two writes.
`disturbed` is a history variable: a transfer of the call failed, or another
set (or, for module presence, a plug) changed its attribute meanwhile. Local
variables of a call are reset when it returns. An attribute in `OneByte`
(`iom_cpld_vers`) is a get that stops after its first byte.

**I2cTree.** A bus is identified by its place (the muxes and channels that lead
to it); `buses` maps the numbers the kernel has given to places. `Lines` is the
script as a sequence of commands; a loop over buses that gives each the same
kind of device is one line, and a fault may hit one bus of it, the test for the
range it polls, or the answer of a mux. A script may be killed in the middle of
a line. `i2c_config` retries a command ten times; a repeated `new_device` is
refused by the kernel (`FreeAt`), so that a retry changes nothing and has no
action of its own. When the mux driver is loaded, or a mux appears, the muxes
that answer are probed one after the other, in any order (`ProbeMuxes`).
`switch_board_qsfp_lpmode` and
`switch_board_modsel` write to devices and not to the tree, and are left out.

Next to the decisions of each module stand operators named `Slip_...`: the
decision as a plausible mistake would have it. No specification uses them;
replacing the decision with its slip must break the property `PROJECT.json`
pairs it with, and does.

## 3. Runs

| Run | Checks | Bounds, and why they are enough |
|---|---|---|
| `ocores_poll` | type; bytes in place; success is complete; one command at a time, STOP included, the one exception being a STOP over a STOP after a lost arbitration; refusal is followed by STOP; lost arbitration is for ever; a timeout strands the bus; refinement of `I2CTransfer`; every call returns | seven transfers that reach every way through `ocores_poll`: lengths 0, 1 and 2, ten bit addresses, NOSTART in both directions, up to three messages. `Budget = 2` ticks: one to lose, one to run out. Calls repeat without end, so a call after any failed call is covered |
| `ocores_irq` | bytes in place and success complete, one command at a time, refinement of `I2CTransfer`, each as long as no call came back too soon; when the handler reads messages of a call that is over; a switch to interrupts without a handler strands the bus; every call returns | one transfer with every step the handler knows: an address without bytes, a repeated START, a read of two bytes (ACK, NACK), a write that goes on without START. `Budget = 1`: time runs out once. `MaxPos = 2`: how far past a buffer a handler without a call may run. `MaxAfter = 1`: one more call once something has been left behind, and then none |
| `fpga_pci` | users see registers and controller; a handler sees registers unless a removal left it behind, which takes a clear of `use_irq` since the probe; an unbound device holds the leaks and nothing else; removal finishes | three of four BARs and three of sixteen buses: first, middle and last of each loop; `MaxFailed = 2`: a failure on top of what a failure left |
| `fpga_bar_sizes` | expected violation, see 6 | two BARs, one bus |
| `smf_mailbox` | type; an undisturbed reading is exact; commands arrive; modules are powered before sensors are readable; refinement of `SmfRegisters`; every reading returns | two threads, two modules; a two byte reading across a page (0x00FF, 0x0100, that of the fourth fan tray) and a one byte reading of another page, so that each port byte differs; registers hold 0 or 1 |
| `smf_power_off_by_hand` | expected violation, see 6 | one thread |
| `smf_driver` | readers find data and ports; nothing is left behind; an unload ends | three threads that read, at most all of them inside at once |
| `smf_sensors` | sensors do not overlap; power is exact as far as an int goes, an error next, and never exact again; temperatures and limits compare as their raw values do; what is visible has a label | every attribute of both boards; raw values at each edge: bytes, 1100 W, the last power that fits and the first that does not, the last that is an error and the first that has wrapped round, sign and magnitude, values only one of the two functions takes for no reading, both "no reading" thresholds |
| `smf_attribute_names` | expected violation, see 6 | three raw values |
| `cpld_attributes` | an undisturbed get is exact; an undisturbed set takes effect; every call returns | two users (a third could only wait for the same lock); one attribute that can be set, one that cannot, one of one byte; bytes 0 and 1: low and high, own and foreign byte can differ |
| `i2c_tree` | type; init puts everything in place; deinit restores the tree of a booted machine; no CPLD has lost its driver's module | the three platforms as they are, both adapter numbers, any set of plugged I/O modules (S6100); `MaxFaults = 1`: one command that fails or one killed script in any sequence of runs; `MaxBus = 90` is above any number a tree in place uses (81 on the S6100) |
| `i2c_check_qsfp` | expected violation, see 6 | the Z9100; what counts is a run of init that met no fault |

Some properties state a limit of the code rather than a virtue:
`ArbLostIsForever`, `TimeoutStrandsBus` and `SwitchStrandsBus` say that an
adapter never recovers; `OneCommandAtATime` (STOP over STOP), `UsersSeeDevice`,
`IsrSeesRegisters` and `OnlySwitchLeavesHandler` (the handler left behind),
`UnboundHoldsOnlyLeaks`, `PowerIsExact`, `VisibleHaveLabel` and
`ReadersAreServed` (the window of `smf_remove` between giving up the ports and
the attributes) name the exceptions the code makes, so that nothing can be added
to them unnoticed.

No run uses symmetry. Two turn deadlock checking off: `ocores_irq`, where
`MaxAfter` ends the calls, and `smf_driver`, where an oops in `smf_probe` leaves
insmod and the module hanging.

### Fairness

- `OcoresI2C`: the calling thread runs (`WF(Driver)`) and time passes
  (`WF(Tick)`). Nothing is asked of the controller, slaves or other masters:
  `EveryCallReturns` holds against a controller that never answers.
- `OcoresIrq`: the same two. Nothing is asked of the handler: an interrupt may
  never come, and the call returns on its timeout.
- `FpgaPci`: the kernel carries on an unwinding or removal it has started, and
  transfers end; the latter is `EveryCallReturns` of `OcoresI2C`.
- `SmfDriver`: insmod, rmmod and the writes to bind and unbind are carried
  through, and every show function ends (`EveryReadReturns` of `SmfMailbox`).
  New readers may come all the while.
- `I2cTree`: none; its properties are about what a finished script leaves.
- `SmfMailbox`, `CpldAttributes`: a thread that holds the mutex goes on (weak
  fairness); a kernel mutex hands itself to its waiters in turn, so who waits
  while it is released again and again gets it (strong fairness of taking it).

## 4. Proofs

`OcoresI2C_proofs`, for every set of transfers (with the assumptions
`I2CMessages` states: messages are well formed) and every `Budget > 0`:

- `Agreement`: the inductive invariant. The safety properties are not
  inductive by themselves: whether a byte lands in its place depends on which command was
  written last, on whether it has been carried out, and on whether the status
  the driver holds is older than that. The invariant says what `pc`, `state`,
  `m`, `pos`, `wire`, `bus`, `stat` and `rx` know of each other. `OneCommand`
  speaks of every command written, be it the same as the last: a STOP meets a
  STOP under way in one place only, the ARBLOST test of a call that has written
  nothing yet.
- From it: `TypeCorrect`, `BuffersSafe`, `OkMeansComplete`, `OneCommand`,
  `NackStops`, `ArbLostStays`.
- `Implementation`: every step of the driver is a step of `I2CTransfer` or
  changes nothing the caller sees.

`SmfMailbox_proofs`, for any threads, registers, readings and values, with the
addresses within 16 bits and fewer than 40 modules (beyond which the script's
low byte would leave the page):

- `Ownership`: the inductive invariant. At any time the ports belong to one
  party: the thread that holds the mutex, or the script, which runs only while
  the driver is not loaded; what the owner wrote is still in them; the
  commands issued are those of the modules passed. `QuietReadingIsExact` is not
  inductive without it, because a byte is right only if the ports held the
  right address when it was fetched.
- From it: `TypeCorrect`, `ReadingsAreExact`, `CommandsArrive`,
  `PoweredFirst`, and `Implementation` of `SmfRegisters`.

`FpgaPci_proofs`, for any number of BARs and of buses (at least one of each):

- The inductive invariant says at which steps the driver holds what, that a
  loop over the buses has dealt with those below `i`, and keeps the accounts of
  the instances (one bound or being set up, one for each probe that failed).
  "An unbound device holds no more than the leaks" needs all three: a failed probe
  deletes adapters one at a time, and users see those that are left.
- From it: `TypeCorrect`, `DeviceSeen`, `IsrSafe`, `OnlyLeaks`, and the action
  property `LeftByTheSwitch`: no step but a removal with `use_irq` clear, set at
  the probe, leaves a handler behind.

`SmfDriver_proofs`, for any set of readers:

- The invariant names for each step the driver, device, ports, data and
  attributes the module has there; what a reader finds follows from the step.
- From it: `TypeCorrect`, `Served`, `LeavesNothing`.

`CpldAttributes_proofs`, for any users, attributes and bytes:

- The lock is given back between the two halves of a call, so mutual exclusion
  alone does not do. The invariant says what survives the gap: the bytes moved
  so far are those of the registers, unless the call has been disturbed.
- From it: `TypeCorrect`, `GetIsExact`, `SetTakesEffect`.

`SmfSensors_proofs`, for every raw value of 16 bits: `PowerExact` (exact up to
21474 and nowhere else, an error up to 42949) and `TemperaturesCompare` (a
temperature is above a limit on the screen exactly when it is for the sensor;
exempt are the values that count as no reading, and 65501 to 65534 are where the
two functions show one raw value as two numbers). The run sees the edges, the
theorem all values. And for
the tables of both boards:

- `OneSensorEach`. Comparing every attribute with every other is what the run
  does; the proof says for each byte of the SMF which group of attributes reads
  it and which index within the group (`Owns`), so that two attributes that
  read one byte are one.
- `VisibleLabelled`, from what each `is_visible` function lets through.

`OcoresIrq_proofs`, for every set of transfers, whatever use_irq and channel are,
and every `Budget > 0`:

- `IrqAgreement`: the inductive invariant, in three parts. `Channel` holds always:
  types, what state the controller can be in, where the handler may be. `Sound`
  holds as long as `hurt = {}`, that is until a call returns too soon: caller,
  handler, wire and bus agree on the place of the transfer. It needs to know at
  which moments the next command is the handler's to write, because nothing
  but the interrupt keeps the handler from writing while a command is on: one
  party at a time has the baton (`Baton`), the caller, the controller or the
  handler.
- From it: `IrqBuffers`, `IrqMessages`, `IrqOneCommand`.
- `SwitchStrands`: from `NoWay`, what a stranded channel looks like from then
  on: the bus is held, no interrupt will come, and every call either waits for
  BUSY to clear or sleeps to its timeout. `TimeoutStrands` of `OcoresI2C_proofs` is
  the same argument for polled mode (`NoReturn`). Both properties are of the
  form "once P, always Q": the proof is an invariant that P establishes.
- `IrqImplementation` of `I2CTransfer`, under the hypothesis `SevenBitOnly`: no
  message has a ten bit address. `ocores_func` does not offer them, and
  `ocores_process` would send the first address byte only.

`I2cTree_proofs`, on every platform, for any bounds on bus numbers and faults:

- `TreeIsRooted`: the inductive invariant `Shape` of the tree, through any
  scripts, faults and kills. The buses of boot are where they were; every
  other bus lies below one of the muxes that init puts on them; each device is
  on a bus that is there; which chip may be on which number is bounded by what
  the lines of init may add (`MayBeOn`, `Fits`). Every line of the three
  platforms' scripts is shown to be one of these lines.
- `TypeCorrect` from it.
- `DeinitCleans`, for any number of faults before: `TakenDown` follows a deinit
  line by line. What deletes a device on a bus of boot leaves nothing of what
  is below it, and nothing grows back; by `Shape`, once the muxes on the buses
  of boot are gone so is all else.
- `NumbersHold`: the scripts name buses by fixed numbers, the kernel numbers
  them as they come. On a CPU board the two agree in the part that matters to
  deinit (`Numbered`): as long as there is any channel, i2c-2 to i2c-9 are those
  of the CPU board's mux in order, because that mux is the only one that can
  come first, cannot be added twice and goes only with all its channels; and
  every other bus is a channel of a mux that some line of deinit names. Which
  number such a bus has is left open: modules that are not plugged and muxes
  that do not answer change it.
- `ThreeFaultsNeeded`, `CpldsDriven`: a CPLD that outlives its driver has met a
  fault at its own line, one at the line of the mux it is on and one at that of
  the CPU board's mux (`Surviving`). The second needs `Numbered`: i2c-14 to
  i2c-17 may be channels of a QSFP mux after a faulty init, so the CPLD's mux is
  named by a line, but not always by the same. Three is exact: with
  `MaxFaults = 3` TLC finds such a CPLD on the Z9100 (its own line, the switch
  board's mux, the CPU board's mux).

- `InitPlaces`, for `MaxBus >= 81` (the bus numbers of an S6100 with all its
  modules) and any number of faults before: an init that meets no fault, after
  boot, after a deinit that met none or on top of an earlier init, puts every
  bus and device in its place. The invariant (`Building`) has four parts: a mux
  that is there has its eight numbers (`Channelled`); a number in use belongs to a
  mux that is there (`Owned`); a device is where a line of init means it
  (`Intended`); and what the lines so far put on a bus is on it (`Present`). The
  first is what the scripts rely on and no line ensures by itself: a mux gets
  the lowest free numbers, and these are the ones meant for it because the muxes
  whose numbers come before (`Covered`) have earlier lines (`HomeOrder`), a
  module that is not plugged neither answers nor counts, and nothing between
  hands out a number. That no line is refused needs more: no two devices that
  init means to be on one path through the tree have the same address (`Apart`).

- `FewFaultsMended`, `InitMends`: on the S6100 and the Z9100 the same holds on top
  of what a faulty deinit left, that is all of `InitPutsInPlace`, as long as the
  machine has met no more than two faults. The invariant (`Rebuilt`) follows the
  faults through a deinit (`CutBack`). Until the first one every line clears
  what it names, so the first fault, wherever it comes, leaves a tree in which
  either the line of the CPU board's mux works and takes all the rest with it,
  or nothing but that mux was left when it failed (`OnlyCpuMux`). A second fault
  before it may make the tree untidy, but then none is left to keep the mux
  driver, which takes all channels with it when it is unloaded. Either way
  deinit ends with no more than the CPU board's mux and its channels in place
  (`Bare`), and init goes on from there (`StartBare`). `NumbersHold` is needed for
  trees about which nothing else is known: without the driver there are no
  channels. Two is exact: with `MaxFaults = 3` TLC finds a Z9100 whose CPU board's
  mux did not answer, and that neither lost it nor the mux driver in the deinit
  that followed. The driver is not loaded anew, so no later init gives that mux
  its channels. The Z9264F is not in this part of the property: its muxes are on
  adapters of their own, and one that is left behind changes the numbers of the
  others.

Only model-checked: liveness (`EveryCallReturns`, `IrqEveryCallReturns`,
`EveryReadReturns`, `RemovalFinishes`, `UnloadEnds`) and everything under
fairness, which the prover does not handle. Every other property of a passing
run is stated by a theorem, and so are the types of the modules whose run leaves
them out. `Curr601IsTheCurrent` and the other expected
violations are not theorems.

## 5. Plan

Done, in order of importance: polled transfers with proofs; SMF access with
proofs; PCI driver with proofs; attributes with proofs of their arithmetic and
tables; CPLD attributes with proofs; interrupt mode with proofs; life of
`dell_pmc` with proofs; the platform scripts with proofs. What is left:

1. Probe and remove of the CPLD drivers as actions of `CpldAttributes`.
2. A power script that is killed between selecting a register and writing.

## 6. Where code and text disagree

Runs that TLC must find violated, each by what the code does:

- `fpga_bar_sizes`: `map_bars` compares no size, its comment says it does.
- `smf_power_off_by_hand`: the power script and the driver share the selecting
  ports; with the driver loaded the script's command goes to a register the
  driver selected.
- `smf_attribute_names`: `curr601_input` is the register of the PSU's input
  power; the report prints it as the current.
- `i2c_check_qsfp`: `check_qsfp.sh` looks for each QSFP one bus above its own;
  bus 50, that of QSFP 8, does not exist.

Noticed on the way, and not a matter of state: the Z9264F's init script calls
`z9100_platform.sh` to stop; `switch_board_modsel` of `z9264f_platform.sh` (line
97) runs a number as a command; the S6100's README names CPLD buses 15 to 18
where the script uses 14 to 17; `in101_input`, under the comment "IO Modules
Voltage" (`dell_pmc.c` 911), starts at `IO_MODULE_1_VOLTAGE + 56`; from the ninth
voltage on an alarm (`in9_alarm`, 988) tests a variable that is always zero.

## 7. Not modelled, and why

- Probe and remove of the CPLD drivers. `remove` frees what the attributes use
  and leaves them there; whether a get can come in between rests on who deletes
  the devices. `NoCpldWithoutDriver` shows that the scripts do not unload
  the module under a device; a get while a device is deleted is not modelled.
- A power script that is killed half way; a second start of the S6100's service
  without a stop.
- `modprobe` lines of `s6100_platform.sh` and its sisters that fail, or a kill
  between two of them: they put nothing on the tree.
- Clearing `use_irq` of a driver that has a handler, under a transfer (see
  `OcoresIrq`).
- The reports (`platform_sensors.py`, `sensors`, `check_qsfp.sh` apart from its
  bus numbers), `pcisysfs.py`, packaging and unit files: they format text, pass a
  value through or declare something, and keep no state whose steps could
  interleave.
- Register set-up in `ocores_init` (prescale, enable), a constant sequence that
  nothing else reads.
- `switch_board_qsfp_lpmode` and `switch_board_modsel`: writes of constants to
  devices.
