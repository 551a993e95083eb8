-------------------------------- MODULE I2cTree --------------------------------
(***************************************************************************)
(* The tree of i2c buses and devices that the platform scripts build and   *)
(* take down: s6100_platform.sh, z9100_platform.sh and z9264f_platform.sh, *)
(* with i2c_config of dell_i2c_utils.sh, against the i2c core and the      *)
(* pca954x mux driver.                                                     *)
(*                                                                         *)
(* The scripts name buses by fixed numbers, but the kernel numbers the     *)
(* channels of a mux as they appear, lowest free number first: where a     *)
(* device ends up depends on all the commands before.  A bus is identified *)
(* by its place, the muxes and channels that lead to it, which numbers do  *)
(* not change: <<<<0, 0>>, <<112, 3>>>> is channel 3 of the mux at 0x70 on *)
(* i2c-0.                                                                  *)
(***************************************************************************)
EXTENDS Naturals, FiniteSets, SequencesExt

CONSTANTS
    Platforms,  \* a subset of {"s6100", "z9100", "z9264f"}
    MaxBus,     \* bound on bus numbers: a tree that is in place has fewer
    MaxFaults   \* bound on commands that fail and scripts that are killed

ASSUME PlatformsAssumption ==
    /\ Platforms \subseteq {"s6100", "z9100", "z9264f"}
    /\ MaxBus \in Nat /\ MaxFaults \in Nat

VARIABLES
    platform,   \* the machine
    devnum,     \* the iSMT adapter: i2c-0 or i2c-1 (init_devnum)
    missing,    \* I/O modules that are not plugged (S6100)
    buses,      \* the place of every bus number in use
    clients,    \* the devices: where, at which address, which chip
    drivers,    \* loaded: "mux" for i2c-mux-pca954x, "cpld" for dell_*_iom_cpld
    script,     \* "none", "init", or "deinit"
    line,       \* the next line of the script
    faults,     \* faults so far
    spoiled,    \* history: the script that runs met a fault
    last        \* history: what the scripts that ran so far amount to

machine == <<platform, devnum, missing>>
tree    == <<buses, clients, drivers>>
run     == <<script, line, faults, spoiled, last>>
vars    == <<machine, tree, run>>

Channels == 1 .. 8
Root(n)  == <<<<n, 0>>>>

(* The adapters that exist before the first line. *)
RootBuses ==
    IF platform = "z9264f" THEN {0, 1} \cup (600 .. 615) ELSE {0, 1}

-----------------------------------------------------------------------------
(* The scripts.  A line is one command, or a loop over buses that gives   *)
(* each of them a device of the same kind.                                *)

New(bs, a, c)     == [op |-> "new", on |-> bs, addr |-> a, chip |-> c,
                      poll |-> {}, under |-> {}]

(* The line of deinit that takes away what line l of init adds. *)
Delete(l) == [l EXCEPT !.op = "delete", !.chip = "any"]
DeleteEach(lines) == [k \in DOMAIN lines |-> Delete(lines[k])]

(* modprobe -r *)
Unload(d) == [op |-> "unload", on |-> {0}, addr |-> 0, chip |-> d,
              poll |-> {}, under |-> {}]

(* i2c_poll_bus_exists first: without that bus the loop is left out. *)
IfExists(n, l) == [l EXCEPT !.poll = {n}]

(* The path goes through the parent adapter: i2c-$devnum/i2c-$i. *)
Through(n, l) == [l EXCEPT !.under = {n}]

(* for ((i=9;i>=6;i--)), the other way round in the slip.  (Slips are used *)
(* by no specification: they show that the properties would notice.)       *)
Slip_SixToNine == <<6, 7, 8, 9>>
NineToSix      == <<9, 8, 7, 6>>

Sff(bs) == New(bs, \h50, "sff8436")
QsfpRanges == << <<18, 33>>, <<34, 49>>, <<50, 65>>, <<66, 81>> >>
QsfpSff ==
    IF platform = "s6100"
      THEN [k \in 1 .. 4 |-> IfExists(QsfpRanges[k][1], Sff(QsfpRanges[k][1] .. QsfpRanges[k][2]))]
      ELSE << Sff(18 .. 49) >>

(* switch_board_qsfp_mux: at 0x71 and, on the S6100, at 0x72. *)
QsfpMuxAddresses == IF platform = "s6100" THEN <<\h71, \h72>> ELSE <<\h71>>
NewMux(n, a) == New({n}, a, "mux")

QsfpMuxLines ==
    LET each == Len(QsfpMuxAddresses)
    IN  [k \in 1 .. 4 * each |->
            NewMux(NineToSix[((k - 1) \div each) + 1], QsfpMuxAddresses[((k - 1) % each) + 1])]

CpuMuxLine    == NewMux(devnum, \h70)
SwitchMuxLine == NewMux(4, \h71)
EepromLine    == New({2}, \h50, "24c02")
CpldLine      == New(14 .. 17, \h3e, "cpld")
SfpLine       == Sff({11, 12})

BoardInit ==
    << CpuMuxLine, SwitchMuxLine, EepromLine, CpldLine >>
    \o QsfpMuxLines \o << SfpLine >> \o QsfpSff

BoardDevices ==
    DeleteEach(<< SfpLine, CpldLine, SwitchMuxLine, EepromLine >> \o QsfpSff
               \o [k \in DOMAIN QsfpMuxLines |-> Through(devnum, QsfpMuxLines[k])]
               \o << CpuMuxLine >>)

Slip_DriversFirst == << Unload("cpld") >> \o BoardDevices \o << Unload("mux") >>
BoardDeinit       == BoardDevices \o << Unload("cpld"), Unload("mux") >>

FpgaMuxLines ==
    [k \in 1 .. 8 |-> NewMux(IF k <= 4 THEN 604 ELSE 603, \h74 + ((k - 1) % 4))]
FpgaEepromLine == New({0}, \h53, "24c02")

FpgaInit    == << FpgaEepromLine >> \o FpgaMuxLines \o << Sff(2 .. 65) >>
FpgaDevices == DeleteEach(<< FpgaEepromLine, Sff(2 .. 65) >> \o FpgaMuxLines)

Slip_LastMuxStays == Front(FpgaDevices) \o << Unload("mux") >>
FpgaDeinit        == FpgaDevices \o << Unload("mux") >>

InitLines   == IF platform = "z9264f" THEN FpgaInit ELSE BoardInit
DeinitLines == IF platform = "z9264f" THEN FpgaDeinit ELSE BoardDeinit
Lines       == IF script = "init" THEN InitLines ELSE DeinitLines

-----------------------------------------------------------------------------
(* The kernel *)

(* A place below mux address a on the bus at place p. *)
Below(q, p, a) == Len(q) > Len(p) /\ SubSeq(q, 1, Len(p)) = p /\ q[Len(p) + 1][1] = a

(* An address is refused if it is in use on the bus, above or below it. *)
Above(p) == {SubSeq(p, 1, k) : k \in 1 .. Len(p)}

FreeAt(ps, a) ==
    LET used == {c.at : c \in {c \in clients : c.addr = a}}
        over == UNION {Above(q) : q \in used}
    IN  {p \in ps : p \notin over /\ Above(p) \cap used = {}}

(* Mux driver and muxes meet: mux by mux, the channels get the lowest free *)
(* numbers.                                                                *)
WithChannels(bs, muxes) ==
    LET free    == (0 .. MaxBus) \ DOMAIN bs
        rank(n) == Cardinality({m \in free : m < n})
        new     == {n \in free : rank(n) < 8 * Len(muxes)}
        mux(n)  == muxes[(rank(n) \div 8) + 1]
    IN  [n \in DOMAIN bs \cup new |->
            IF n \in new THEN Append(mux(n).at, <<mux(n).addr, (rank(n) % 8) + 1>>)
                         ELSE bs[n]]

(* The muxes of an I/O module answer only when it is plugged. *)
Answers(p) == Len(p) = 1 \/ p[2][2] + 1 \notin missing

(* The muxes among some devices get their channels, in any order. *)
ProbeMuxes(devices) ==
    \E muxes \in SetToSeqs({c \in devices : c.chip = "mux" /\ Answers(c.at)}) :
        buses' = WithChannels(buses, muxes)

(* A bus that a line is about: i2c_config looks for it, and for the path. *)
PathExists(l, n) ==
    /\ n \in DOMAIN buses
    /\ \A u \in l.under : \E k \in Channels : buses[n] = Root(u) \o <<<<\h70, k>>>>

-----------------------------------------------------------------------------
(* Types of the tree and of the script that runs. *)
TypeOK ==
    /\ platform \in Platforms /\ devnum \in {0, 1}
    /\ missing \subseteq 6 .. 9
    /\ DOMAIN buses \subseteq (0 .. MaxBus) \cup RootBuses
    /\ \A c \in clients : c.at \in {buses[n] : n \in DOMAIN buses}
    /\ drivers \subseteq {"mux", "cpld"}
    /\ script \in {"none", "init", "deinit"}
    /\ line \in 1 .. 20
    /\ faults \in 0 .. MaxFaults
    /\ spoiled \in BOOLEAN
    /\ last \in {"down", "up", "undone", "redone", "unknown"}

Init ==
    /\ platform \in Platforms
    /\ devnum \in IF platform = "z9264f" THEN {0} ELSE {0, 1}
    /\ missing \in IF platform = "s6100" THEN SUBSET (6 .. 9) ELSE {{}}
    /\ buses = [n \in RootBuses |-> Root(n)] /\ clients = {} /\ drivers = {}
    /\ script = "none" /\ line = 1 /\ faults = 0
    /\ spoiled = FALSE /\ last = "down"

-----------------------------------------------------------------------------
(* modprobe i2c-mux-pca954x: muxes left from an earlier run get their     *)
(* channels back.                                                         *)
(* The modprobe lines are one step: they do not fail in the model.  A     *)
(* script killed between two of them has put nothing on the tree, and     *)
(* leaves what a kill at line 1 leaves, some drivers apart.               *)
StartInit ==
    /\ script = "none" /\ script' = "init" /\ line' = 1
    /\ IF "mux" \in drivers THEN UNCHANGED buses ELSE ProbeMuxes(clients)
    /\ drivers' = IF platform = "z9264f" THEN {"mux"} ELSE {"mux", "cpld"}
    /\ spoiled' = (last = "unknown")
    /\ UNCHANGED <<machine, clients, faults, last>>

StartDeinit ==
    /\ script = "none" /\ script' = "deinit" /\ line' = 1
    /\ spoiled' = FALSE
    /\ UNCHANGED <<machine, tree, faults, last>>

(* A line is carried out on every bus whose path exists; a device that is *)
(* there already, or is not there to delete, is an error message.         *)
Current    == Lines[line]
Targets(l) == IF l.poll \subseteq DOMAIN buses
                THEN {buses[n] : n \in {n \in l.on : PathExists(l, n)}}
                ELSE {}

NewDevices(l) ==
    {[at |-> p, addr |-> l.addr, chip |-> l.chip] : p \in FreeAt(Targets(l), l.addr)}

Add(l) ==
    /\ l.op = "new"
    /\ \E new \in {NewDevices(l)} :
          /\ clients' = clients \cup new
          /\ ProbeMuxes(new)

(* The channels of a mux, and what hangs off them, go with it. *)
Slip_HangsOnAir(c, bs) == TRUE
HangsOn(c, bs)         == \E n \in DOMAIN bs : bs[n] = c.at

Take(l) ==
    /\ l.op = "delete"
    /\ \E at \in {Targets(l)} :
          /\ buses' = [n \in {n \in DOMAIN buses :
                              \A p \in at : ~ Below(buses[n], p, l.addr)} |-> buses[n]]
          /\ clients' = {c \in clients : ~ (c.addr = l.addr /\ c.at \in at)
                                        /\ HangsOn(c, buses')}

(* No mux has channels without its driver; the devices stay. *)
Drop(l) ==
    /\ l.op = "unload"
    /\ drivers' = IF l.on = {} THEN drivers ELSE drivers \ {l.chip}
    /\ buses' = IF "mux" \in drivers' THEN buses
                ELSE [n \in {n \in DOMAIN buses : Len(buses[n]) = 1} |-> buses[n]]
    /\ clients' = {c \in clients : HangsOn(c, buses')}

Do(command) ==
    \E l \in {command} :
        \/ (Add(l) \/ Take(l)) /\ UNCHANGED drivers
        \/ Drop(l)

Running == script # "none" /\ line <= Len(Lines)

Execute ==
    /\ Running
    /\ Do(Current)
    /\ line' = line + 1
    /\ UNCHANGED <<machine, script, faults, spoiled, last>>

(* i2c_config, i2c_poll_bus_exists or modprobe -r gives up and the script  *)
(* goes on, or a mux does not answer when its driver looks for it.         *)
Fault ==
    /\ Running /\ faults < MaxFaults
    /\ \/ \E n \in Current.on : Do([Current EXCEPT !.on = @ \ {n}])
       \/ Current.poll # {} /\ UNCHANGED tree
       \/ /\ Current.op = "new" /\ Current.chip = "mux"
          /\ clients' = clients \cup NewDevices(Current)
          /\ UNCHANGED <<buses, drivers>>
    /\ line' = line + 1 /\ faults' = faults + 1 /\ spoiled' = TRUE
    /\ UNCHANGED <<machine, script, last>>

(* The script is killed, when it has come to bus n of the line. *)
Kill ==
    /\ Running /\ faults < MaxFaults
    /\ \E n \in Current.on : Do([Current EXCEPT !.on = {m \in @ : m < n}])
    /\ script' = "none" /\ line' = 1
    /\ faults' = faults + 1 /\ last' = "unknown"
    /\ UNCHANGED <<machine, spoiled>>

FinishInit ==
    /\ script = "init" /\ line > Len(Lines)
    /\ script' = "none" /\ line' = 1
    /\ last' = IF spoiled THEN "unknown"
               ELSE IF last \in {"down", "up"} THEN "up" ELSE "redone"
    /\ UNCHANGED <<machine, tree, faults, spoiled>>

FinishDeinit ==
    /\ script = "deinit" /\ line > Len(Lines)
    /\ script' = "none" /\ line' = 1
    /\ last' = IF spoiled THEN "undone" ELSE "down"
    /\ UNCHANGED <<machine, tree, faults, spoiled>>

Next ==
    \/ StartInit \/ StartDeinit
    \/ Execute \/ Fault \/ Kill
    \/ FinishInit \/ FinishDeinit

Spec == Init /\ [][Next]_vars

-----------------------------------------------------------------------------
(* Where the devices are meant to be *)

At(chip) == {c.at : c \in {c \in clients : c.chip = chip}}

CpuMux(k)    == Root(devnum) \o <<<<\h70, k>>>>
SwitchMux(k) == CpuMux(3) \o <<<<\h71, k>>>>

(* The muxes of the QSFP ports, each with the first of its eight numbers.  *)
(* IOM 1 hangs off bus 9; a module that is not there takes no numbers.     *)
FirstBus(n) ==
    18 + 8 * Len(QsfpMuxAddresses) * Cardinality(((n + 1) .. 9) \ missing)

QsfpMuxes ==
    IF platform = "z9264f"
      THEN {[at |-> Root(IF k <= 4 THEN 604 ELSE 603), addr |-> \h74 + ((k - 1) % 4),
             first |-> 8 * k - 6] : k \in 1 .. 8}
      ELSE {[at |-> CpuMux(n - 1), addr |-> a, first |-> FirstBus(n) + 8 * (a - \h71)] :
                n \in (6 .. 9) \ missing, a \in ToSet(QsfpMuxAddresses)}

QsfpPlaces == {Append(x.at, <<x.addr, k>>) : x \in QsfpMuxes, k \in Channels}

Boards(S) == IF platform = "z9264f" THEN {} ELSE S

InPlace ==
    /\ \A x \in QsfpMuxes, k \in Channels :
          /\ x.first + k - 1 \in DOMAIN buses
          /\ buses[x.first + k - 1] = Append(x.at, <<x.addr, k>>)
    /\ At("sff8436") = QsfpPlaces \cup Boards({SwitchMux(2), SwitchMux(3)})
    /\ At("cpld") = Boards({SwitchMux(k) : k \in 5 .. 8})
    /\ At("24c02") = {IF platform = "z9264f" THEN Root(0) ELSE CpuMux(1)}

(* A run of init that meets no fault, from the tree of a booted machine,  *)
(* from the tree that deinit left or on top of an earlier init, gives     *)
(* every QSFP and SFP bus its EEPROM, every CPLD and the system EEPROM    *)
(* their device, under the same numbers, whichever I/O modules are there. *)
(* So does one after a deinit that could not delete something, where the  *)
(* whole tree hangs off one mux; on the Z9264F QSFP buses may then have   *)
(* each other's numbers.                                                  *)
InitPutsInPlace ==
    /\ script = "none"
    /\ last = "up" \/ (last = "redone" /\ platform # "z9264f")
    => InPlace

(* A run of deinit that meets no fault leaves the tree as it was at boot, *)
(* whatever the runs before it went through.                              *)
DeinitRestores ==
    script = "none" /\ last = "down" =>
        buses = [n \in RootBuses |-> Root(n)] /\ clients = {}

(* remove of the CPLD drivers frees the data of their attributes and      *)
(* leaves the attributes there (dell_s6100_iom_cpld_remove): a get would  *)
(* use freed memory.  The scripts unload the driver when no CPLD is left, *)
(* even if a deletion failed.                                             *)
NoCpldWithoutDriver == At("cpld") # {} => "cpld" \in drivers

(* check_qsfp.sh of the Z9100: the bus on which QSFP id is looked for. *)
CheckedBus(id) ==
    CASE id <= 8  -> 42 + id
      [] id \in 9 .. 16  -> 34 + id - 8
      [] id \in 17 .. 24 -> 26 + id - 16
      [] OTHER -> 18 + id - 24

(* It finds the EEPROM of each of the 32 QSFP ports. *)
EveryQsfpIsFound ==
    script = "none" /\ last = "up" =>
        \A id \in 1 .. 32 :
            CheckedBus(id) \in DOMAIN buses /\ buses[CheckedBus(id)] \in At("sff8436")
=============================================================================
