------------------------------ MODULE SmfSensors ------------------------------
(***************************************************************************)
(* The sysfs attributes of dell_pmc: which of them a board has (the        *)
(* is_visible functions), which registers of the SMF one reads and what it *)
(* makes of the raw value (the show functions).  How a reading travels     *)
(* through the ports is module SmfMailbox; here a reading is taken whole,  *)
(* its raw value is any of Samples.                                        *)
(***************************************************************************)
EXTENDS Integers, FiniteSets

CONSTANT Samples    \* raw 16 bit values; a byte reading takes the low byte

ASSUME SamplesAssumption == \A s \in Samples : s \in Nat /\ s <= 65535

Kinds == {"z9100smf", "s6100smf"}

(* The show function of an attribute and its index argument. *)
Indices ==
    [fan         |-> 0 .. 12,   fan_fault   |-> 0 .. 9,
     fan_alarm   |-> 0 .. 9,    fan_airflow |-> 0 .. 4,
     psu_fan     |-> 0 .. 5,    voltage     |-> 0 .. 45,
     psu_voltage |-> 0 .. 3,    voltage_alarm |-> 0 .. 27,
     current     |-> 0 .. 5,    tcpu        |-> 0 .. 14,
     temp_crit   |-> {4 * k + 1 : k \in 0 .. 12} \cup {4 * k + 2 : k \in 0 .. 12} \cup {11},
     psu         |-> {0, 1, 2, 3, 5, 6, 7, 8, 10}]

Attributes == UNION {{<<show, i>> : i \in Indices[show]} : show \in DOMAIN Indices}

VARIABLES
    kind,       \* the board
    attr,       \* the attribute that was read last
    raw,        \* what its registers held
    shown       \* what the reader got: a number, or an error

vars == <<kind, attr, raw, shown>>

-----------------------------------------------------------------------------
(* Registers *)

Nothing  == [reg |-> 0, size |-> 0]
Byte(r)  == [reg |-> r, size |-> 1]
Word(r)  == [reg |-> r, size |-> 2]

(* Of the second PSU, which of its registers: the offset from the first. *)
Slip_SecondPsu(i) == i
SecondPsu(i)      == i - 2

FanReading(i) ==
    IF i < 10 THEN Word(\h00F3 + 2 * i)             \* SMF_FAN_SPEED_ADDR
    ELSE CASE i = 10 -> Word(\h023B)                \* PSU_1_FAN_SPEED
           [] i = 11 -> Word(\h0274)                \* PSU_2_FAN_SPEED
           [] i = 12 -> Byte(\h0113)                \* FAN_TRAY_PRESENCE

(* The index of a module's voltage counts from the first CPU voltage, and  *)
(* is added to IO_MODULE_1_VOLTAGE as it is.                               *)
VoltageReading(k, i) ==
    IF i < 28 THEN Word(\h02A8 + 2 * i)             \* CPU_1_VOLTAGE
    ELSE IF k # "s6100smf" THEN Nothing
    ELSE IF i < 44 THEN Word(\h02E8 + 2 * i)        \* IO_MODULE_1_VOLTAGE
    ELSE Byte(\h0310 + (i - 44))                    \* IO_MODULE_STATUS, _PRESENCE

PsuVoltageReading(i) ==
    IF i < 2 THEN Word(\h023E + 2 * i)              \* PSU_1_INPUT_VOLTAGE
    ELSE Word(\h0277 + 2 * SecondPsu(i))            \* PSU_2_INPUT_VOLTAGE

VoltageAlarmReading(k, i) ==
    LET group == IF i < 8 THEN 0 ELSE IF i < 15 THEN 1 ELSE IF i < 23 THEN 2 ELSE 3
    IN  Word((IF k = "s6100smf" THEN \h0308 ELSE \h02E6) + group)   \* CPU_*_MONITOR_STATUS

CurrentReading(k, i) ==
    IF i < 2 THEN Word((IF k = "s6100smf" THEN \h02E4 ELSE \h02E2) + 2 * i)
    ELSE IF i < 4 THEN Word(\h0242 + 2 * (i % 4))   \* PSU_1_INPUT_CURRENT
    ELSE Word(\h027B + 2 * (i % 4))                 \* PSU_2_INPUT_CURRENT

TcpuReading(i) ==
    IF i < 13 THEN Word(\h0014 + 2 * i)             \* TEMP_SENSOR_1
    ELSE IF i < 14 THEN Word(\h0239)                \* PSU_1_TEMPERATURE
    ELSE Word(\h0272)                               \* PSU_2_TEMPERATURE

PsuReading(i) ==
    CASE i = 0  -> Word(\h0234)     \* PSU_1_MAX_POWER
      [] i = 1  -> Byte(\h0237)     \* PSU_1_STATUS
      [] i = 2  -> Word(\h0246)     \* PSU_1_INPUT_POWER
      [] i = 3  -> Word(\h0248)     \* PSU_1_OUTPUT_POWER
      [] i = 5  -> Word(\h026D)     \* PSU_2_MAX_POWER
      [] i = 6  -> Byte(\h0270)     \* PSU_2_STATUS
      [] i = 7  -> Word(\h027F)     \* PSU_2_INPUT_POWER
      [] i = 8  -> Word(\h0281)     \* PSU_2_OUTPUT_POWER
      [] i = 10 -> Word(\h0232)     \* CURRENT_TOTAL_POWER

(* The reading an attribute takes. *)
Reading(k, a) ==
    LET i == a[2] IN
    CASE a[1] = "fan"           -> FanReading(i)
      [] a[1] = "fan_fault"     -> Byte(\h0113)                     \* FAN_TRAY_PRESENCE
      [] a[1] = "fan_alarm"     -> IF i < 2 THEN Byte(\h0115) ELSE Nothing
      [] a[1] = "fan_airflow"   -> IF k = "s6100smf" /\ i = 4 THEN Nothing ELSE Byte(\h0116)
      [] a[1] = "psu_fan"       -> Byte(IF i < 3 THEN \h023D ELSE \h0276)
      [] a[1] = "voltage"       -> VoltageReading(k, i)
      [] a[1] = "psu_voltage"   -> PsuVoltageReading(i)
      [] a[1] = "voltage_alarm" -> VoltageAlarmReading(k, i)
      [] a[1] = "current"       -> CurrentReading(k, i)
      [] a[1] = "tcpu"          -> TcpuReading(i)
      [] a[1] = "temp_crit"     -> Word(\h003E + 2 * i)             \* TEMP_SENSOR_1_HW_LIMIT
      [] a[1] = "psu"           -> PsuReading(i)

-----------------------------------------------------------------------------
(* Values.  A show function returns a number, nothing at all, or an error. *)

Number(n) == <<"number", n>>
Empty     == <<"empty", 0>>
Error     == <<"error", 0>>
NotRead   == <<"none", 0>>

Bit(r, i)  == (r \div 2^i) % 2
Mask(r, i) == Bit(r, i) * 2^i       \* r & (1 << i)

LowByte(v) == v % 256

(* ret of show_fan_alarm is not initialised. *)
Garbage == {Number(0), Number(1), Error}

FanAlarmShown(i, r) == IF i < 2 /\ Bit(r, i) = 1 THEN {Number(0)} ELSE Garbage

(* Sign and magnitude; the raw values no sensor reports count as zero. *)
Slip_SignIgnored(r) == r
Signed(r) == IF r >= 32768 THEN 32768 - r ELSE r
TcpuShown(r)     == Number(100 * (IF r > 65500 THEN 0 ELSE Signed(r)))
TempCritShown(r) == Number(100 * (IF r = 65535 THEN 0 ELSE Signed(r)))

(* 100000 * r in 32 bits, here in units of 32: what wraps round to a       *)
(* negative number is returned as an error.                                *)
Wrap == 134217728   \* 2^27 of these units
Slip_TenfoldPower(r) == (31250 * r) % Wrap
Power(r)             == (3125 * r) % Wrap
PowerShown(r) == IF 2 * Power(r) >= Wrap THEN Error ELSE Number(Power(r))

PsuShown(k, i, r) ==
    CASE i \in {0, 5}       -> Number(1000000 * (IF k = "s6100smf" THEN 1100 ELSE 750))
      [] i \in {1, 6}       -> Number(r)
      [] i \in {2, 3, 7, 8} -> PowerShown(r)
      [] i = 10             -> Number(r \div 10)

(* Only the first eight look at the status that was read. *)
VoltageAlarmShown(i, r) == Number(IF i < 8 THEN Mask(r, i) ELSE 0)

(* What a reader may get. *)
Shown(k, a, r) ==
    LET i == a[2] IN
    CASE a[1] = "fan"           -> {Number(IF i = 12 THEN -1 - r ELSE r)}    \* ~ byte
      [] a[1] = "fan_fault"     -> {Number(Bit(r, i \div 2))}
      [] a[1] = "fan_alarm"     -> FanAlarmShown(i, r)
      [] a[1] = "fan_airflow"   -> {IF Reading(k, a) = Nothing THEN Empty ELSE Number(1)}
      [] a[1] = "psu_fan"       -> {Number(Mask(r, i % 3))}
      [] a[1] = "voltage"       -> {Number(IF i < 44 THEN 10 * r ELSE r)}
      [] a[1] = "psu_voltage"   -> {Number(10 * r)}
      [] a[1] = "voltage_alarm" -> {VoltageAlarmShown(i, r)}
      [] a[1] = "current"       -> {Number(IF i < 2 THEN 1000 * r ELSE r)}
      [] a[1] = "tcpu"          -> {TcpuShown(r)}
      [] a[1] = "temp_crit"     -> {TempCritShown(r)}
      [] a[1] = "psu"           -> {PsuShown(k, i, r)}

-----------------------------------------------------------------------------
(* Visibility *)

TcpuMask(k)  == IF k = "z9100smf" THEN (0 .. 8) \cup {13, 14, 15} ELSE 0 .. 14
VsenMask(k)  == IF k = "z9100smf" THEN (0 .. 31) \ {17} ELSE (0 .. 47) \ {17, 24}
FaninMask(k) == IF k = "z9100smf" THEN 0 .. 11 ELSE {0, 2, 4, 6, 10, 11}

(* mask & (1 << n), where 1 is an int: the sign bit is extended to the     *)
(* upper half, and a shift by 32 or more is undefined: the mask's own bit  *)
(* is tested, or the shift wraps round.                                    *)
MayBeSet(mask, n) ==
    IF n < 31 THEN n \in mask
    ELSE IF n = 31 THEN \E b \in mask : b >= 31
    ELSE n \in mask \/ n - 32 \in mask

(* Places of an attribute's sensor in its group: temp12_max and temp14_max *)
(* share an index, and so on.                                              *)
TempPlaces(i) == CASE i = 11 -> {13, 14}
                   [] i = 46 -> {11, 13}
                   [] i = 50 -> {12, 14}
                   [] OTHER  -> {i \div 4}

Visible(k, a) ==
    LET i == a[2] IN
    CASE a[1] = "fan"           -> i = 12 \/ MayBeSet(FaninMask(k), i)
      [] a[1] \in {"fan_fault", "fan_alarm"} -> MayBeSet(FaninMask(k), i)
      [] a[1] = "psu_fan"       -> i \in {0, 3} \/ MayBeSet(FaninMask(k), IF i < 3 THEN 10 ELSE 11)
      [] a[1] = "voltage"       -> \/ i >= 44
                                   \/ MayBeSet(VsenMask(k), IF i < 28 THEN i ELSE i + 4)
      [] a[1] = "psu_voltage"   -> MayBeSet(VsenMask(k), 28 + i)
      [] a[1] = "voltage_alarm" -> MayBeSet(VsenMask(k), i)
      [] a[1] = "tcpu"          -> MayBeSet(TcpuMask(k), i)
      [] a[1] = "temp_crit"     -> \E n \in TempPlaces(i) : MayBeSet(TcpuMask(k), n)
      [] OTHER                  -> TRUE     \* curr_mask and psu_mask hide nothing

(* Labels: the index a sensor's label has in its table. *)
Slip_PsuTempLabel(i) == i
TempLabel(i)         == IF i < 13 THEN i ELSE i + 1

(* The entries of the label tables that are there and are not empty. *)
FanLabels(k)  == IF k = "z9100smf" THEN 0 .. 11 ELSE {0, 2, 4, 6, 10, 11}
VsenLabels(k) == IF k = "z9100smf" THEN 0 .. 31 ELSE 0 .. 47
TempLabels(k) == (IF k = "z9100smf" THEN 0 .. 8 ELSE 0 .. 12) \cup {14, 15}
CurrLabels    == 0 .. 1

HasLabel(k, a) ==
    LET i == a[2] IN
    CASE a[1] = "fan"         -> i \in FanLabels(k)
      [] a[1] = "voltage"     -> (IF i < 28 THEN i ELSE i + 4) \in VsenLabels(k)
      [] a[1] = "psu_voltage" -> 28 + i \in VsenLabels(k)
      [] a[1] = "tcpu"        -> TempLabel(i) \in TempLabels(k)
      [] a[1] = "current"     -> i \in CurrLabels

-----------------------------------------------------------------------------
Init ==
    /\ kind \in Kinds
    /\ attr = <<"fan", 0>> /\ raw = 0 /\ shown = NotRead

Value(k, a, s) ==
    CASE Reading(k, a).size = 0 -> 0
      [] Reading(k, a).size = 1 -> LowByte(s)
      [] Reading(k, a).size = 2 -> s

(* A reader reads an attribute of its board. *)
Show ==
    /\ shown = NotRead
    /\ \E a \in Attributes, s \in Samples :
          /\ Visible(kind, a)
          /\ attr' = a
          /\ raw' = Value(kind, a, s)
          /\ shown' \in Shown(kind, a, raw')
    /\ UNCHANGED kind

Close ==
    /\ shown # NotRead
    /\ attr' = <<"fan", 0>> /\ raw' = 0 /\ shown' = NotRead
    /\ UNCHANGED kind

Next == Show \/ Close

Spec == Init /\ [][Next]_vars

-----------------------------------------------------------------------------
(* Attributes that measure something, each with a sensor of its own. *)
Measuring == {a \in Attributes : /\ a[1] \in {"fan", "voltage", "psu_voltage", "current", "tcpu", "psu"}
                                 /\ a # <<"psu", 0>> /\ a # <<"psu", 5>>}

(* curr601 and curr602, which read the registers of PSU 1's power. *)
Misread == {<<"current", 2>>, <<"current", 3>>}

Span(k, a) == LET q == Reading(k, a) IN q.reg .. q.reg + q.size - 1

(* No two sensors are read from the same registers, the currents of the    *)
(* first PSU apart.                                                        *)
SensorsDoNotOverlap ==
    attr \in Measuring \ Misread =>
        \A b \in Measuring \ (Misread \cup {attr}) :
            Visible(kind, b) => Span(kind, attr) \cap Span(kind, b) = {}

(* Power is shown exactly up to 2147.4 W, beyond which 100000 * ret is no  *)
(* longer an int, and never after; what comes next is an error at first    *)
(* (from 4295 W on the product has wrapped round, and anything is shown).  *)
PowerIsExact ==
    attr[1] = "psu" /\ attr[2] \in {2, 3, 7, 8} /\ shown # NotRead =>
        /\ shown = Number(3125 * raw) <=> raw <= 21474
        /\ raw \in 21475 .. 42949 => shown = Error

(* What a sensor means by a raw value: a sign and 15 bits of magnitude.    *)
Degrees(r) == IF r \div 32768 = 1 THEN - (r % 32768) ELSE r

(* A reader who compares a temperature with a limit sees it above the      *)
(* limit exactly when it is, whatever the two signs, for every temperature *)
(* and limit but those that count as no reading: above                     *)
(* 65500 in show_tcpu, 65535 alone in show_temp_crit.  There, and nowhere  *)
(* else, the two functions show one raw value as two numbers.              *)
TemperaturesComparable ==
    attr[1] \in {"tcpu", "temp_crit"} /\ shown # NotRead =>
        /\ attr[1] = "tcpu" /\ raw <= 65500 =>
              \A limit \in Samples \ {65535} :
                  shown[2] > TempCritShown(limit)[2] <=> Degrees(raw) > Degrees(limit)
        /\ TcpuShown(raw) = TempCritShown(raw) <=> raw \notin 65501 .. 65534

(* An attribute a board shows has a label, or always shows zero: the       *)
(* undefined shift of smf_vsen_is_visible gives the Z9100 voltages of I/O  *)
(* modules it does not have.  Labels of the PSUs' currents are beyond the  *)
(* end of their table.                                                     *)
VisibleHaveLabel ==
    /\ attr[1] \in {"fan", "voltage", "psu_voltage", "current", "tcpu"} /\ shown # NotRead
    /\ attr # <<"fan", 12>> /\ attr \notin {<<"voltage", 44>>, <<"voltage", 45>>}
    => \/ HasLabel(kind, attr)
       \/ shown = Number(0) /\ kind = "z9100smf" /\ attr[1] = "voltage"
       \/ attr[1] = "current" /\ attr[2] >= 2

-----------------------------------------------------------------------------
(* What the report of the S6100, platform_sensors.py, takes curr601_input  *)
(* for, and the code does not do: it is the input current of the first PSU *)
(* (PSU_1_INPUT_CURRENT).                                                  *)
Curr601IsTheCurrent ==
    kind = "s6100smf" /\ attr = <<"current", 2>> => Reading(kind, attr) = Word(\h0242)
=============================================================================
