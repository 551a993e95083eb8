-------------------------- MODULE SmfSensors_proofs --------------------------
(***************************************************************************)
(* Theorems about SmfSensors, for any set of raw values: what power and    *)
(* temperatures are shown as, which registers belong to which sensor, and  *)
(* which attributes have a label.  TLC sees the raw values of Samples      *)
(* only; the arithmetic is here proved for all 16 bits.                    *)
(***************************************************************************)
EXTENDS SmfSensors, TLAPS

(* A reader holds an attribute that its board shows, with one of the      *)
(* results the show function has for what the registers held.             *)
Opened ==
    /\ kind \in Kinds
    /\ attr \in Attributes /\ Visible(kind, attr)
    /\ shown # NotRead =>
          /\ \E s \in Samples : raw = Value(kind, attr, s)
          /\ shown \in Shown(kind, attr, raw)

(* An attribute is a show function with one of its indices. *)
LEMMA AttributeFacts ==
    \A a \in Attributes : /\ a = <<a[1], a[2]>>
                          /\ a[1] \in DOMAIN Indices /\ a[2] \in Indices[a[1]]
                          /\ a[2] \in Nat
<1>1. \A a \in Attributes : \E show \in DOMAIN Indices : \E i \in Indices[show] :
          a = <<show, i>>
  BY DEF Attributes
<1>2. \A show \in DOMAIN Indices : Indices[show] \subseteq Nat
  BY DEF Indices
<1> QED
  BY <1>1, <1>2

LEMMA FirstFanIsVisible ==
    ASSUME kind \in Kinds
    PROVE  <<"fan", 0>> \in Attributes /\ Visible(kind, <<"fan", 0>>)
<1>1. <<"fan", 0>> \in Attributes
  <2>1. "fan" \in DOMAIN Indices /\ 0 \in Indices["fan"]
    BY DEF Indices
  <2> QED
    BY <2>1 DEF Attributes
<1>2. MayBeSet(FaninMask(kind), 0)
  BY DEF MayBeSet, FaninMask
<1> QED
  BY <1>1, <1>2 DEF Visible

LEMMA Invariance == Spec => []Opened
<1>1. Init => Opened
  BY FirstFanIsVisible DEF Init, Opened
<1>2. Opened /\ [Next]_vars => Opened'
  <2> SUFFICES ASSUME Opened, [Next]_vars PROVE Opened'
    OBVIOUS
  <2>1. CASE Show
    BY <2>1, Zenon DEF Show, Opened
  <2>2. CASE Close
    BY <2>2, FirstFanIsVisible DEF Close, Opened
  <2>3. CASE UNCHANGED vars
    BY <2>3, Zenon DEF vars, Opened
  <2> QED
    BY <2>1, <2>2, <2>3 DEF Next
<1> QED
  BY <1>1, <1>2, PTL DEF Spec

-----------------------------------------------------------------------------
(* Power and temperatures: readings of two bytes. *)

SixteenBits(r) == r \in Nat /\ r <= 65535

LEMMA SampleType == \A s \in Samples : SixteenBits(s)
  BY SamplesAssumption DEF SixteenBits

LEMMA PowerReadings ==
    ASSUME NEW k, NEW a, NEW s, NEW r, a[1] = "psu", a[2] \in {2, 3, 7, 8}
    PROVE  Value(k, a, s) = s /\ Shown(k, a, r) = {PowerShown(r)}
<1>1. Reading(k, a) = PsuReading(a[2])
  BY DEF Reading
<1>2. PsuReading(a[2]).size = 2
  BY DEF PsuReading, Word
<1>3. Shown(k, a, r) = {PsuShown(k, a[2], r)}
  BY DEF Shown
<1>4. PsuShown(k, a[2], r) = PowerShown(r)
  BY DEF PsuShown
<1> QED
  BY <1>1, <1>2, <1>3, <1>4 DEF Value

LEMMA TemperatureReadings ==
    ASSUME NEW k, NEW a, NEW s, NEW r, a[1] \in {"tcpu", "temp_crit"}
    PROVE  Value(k, a, s) = s /\ Shown(k, a, r) \subseteq {TcpuShown(r), TempCritShown(r)}
<1>1. Reading(k, a).size = 2
  BY DEF Reading, TcpuReading, Word
<1>2. Shown(k, a, r) \subseteq {TcpuShown(r), TempCritShown(r)}
  BY DEF Shown
<1> QED
  BY <1>1, <1>2 DEF Value

LEMMA SmallPower ==
    ASSUME NEW r \in Nat, r <= 21474
    PROVE  PowerShown(r) = Number(3125 * r)
<1>1. 3125 * r \in Nat /\ 2 * (3125 * r) < Wrap
  BY DEF Wrap
<1>2. Power(r) = 3125 * r
  BY <1>1 DEF Power, Wrap
<1> QED
  BY <1>1, <1>2 DEF PowerShown, Wrap

LEMMA LargePower ==
    ASSUME NEW r \in Nat, r > 21474, r <= 65535
    PROVE  /\ PowerShown(r) # Number(3125 * r)
           /\ r <= 42949 => PowerShown(r) = Error
<1>1. CASE r <= 42949
  <2>1. Power(r) = 3125 * r /\ 2 * (3125 * r) >= Wrap
    BY <1>1 DEF Power, Wrap
  <2> QED
    BY <2>1 DEF PowerShown, Error, Number
<1>2. CASE r > 42949
  <2>1. Power(r) < 3125 * r
    BY <1>2 DEF Power, Wrap
  <2> QED
    BY <1>2, <2>1 DEF PowerShown, Error, Number
<1> QED
  BY <1>1, <1>2

LEMMA PowerFits ==
    ASSUME NEW r \in Nat, r <= 65535
    PROVE  /\ PowerShown(r) = Number(3125 * r) <=> r <= 21474
           /\ r \in 21475 .. 42949 => PowerShown(r) = Error
<1>1. r \in 21475 .. 42949 => r >= 21475 /\ r <= 42949
  OBVIOUS
<1>2. CASE r <= 21474
  <2>1. ~ (r >= 21475)
    BY <1>2
  <2> QED
    BY <1>1, <1>2, <2>1, SmallPower
<1>3. CASE r > 21474
  <2>1. ~ (r <= 21474)
    BY <1>3
  <2> QED
    BY <1>1, <1>3, <2>1, LargePower
<1> QED
  BY <1>2, <1>3

(* show_psu: the product 100000 * ret fits an int for every raw value up  *)
(* to 21474 (2147.4 W) and for no other; the next are errors.             *)
THEOREM PowerExact == Spec => []PowerIsExact
<1>1. Opened => PowerIsExact
  <2> SUFFICES ASSUME Opened, attr[1] = "psu", attr[2] \in {2, 3, 7, 8}, shown # NotRead
               PROVE  /\ shown = Number(3125 * raw) <=> raw <= 21474
                      /\ raw \in 21475 .. 42949 => shown = Error
    BY DEF PowerIsExact
  <2>1. PICK s \in Samples : raw = Value(kind, attr, s)
    BY DEF Opened
  <2>2. raw = s /\ shown = PowerShown(raw)
    BY <2>1, PowerReadings DEF Opened
  <2>3. raw \in Nat /\ raw <= 65535
    BY <2>2, SampleType DEF SixteenBits
  <2>4. /\ PowerShown(raw) = Number(3125 * raw) <=> raw <= 21474
        /\ raw \in 21475 .. 42949 => PowerShown(raw) = Error
    BY <2>3, PowerFits
  <2> QED
    BY <2>2, <2>4
<1> QED
  BY <1>1, Invariance, PTL

(* 32768 - ret is what sign and magnitude say. *)
LEMMA SignedIsDegrees ==
    ASSUME NEW r \in Nat, r <= 65535
    PROVE  Signed(r) = Degrees(r) /\ Degrees(r) \in Int
<1>1. CASE r < 32768
  BY <1>1 DEF Signed, Degrees
<1>2. CASE r >= 32768
  <2>1. r \div 32768 = 1 /\ r % 32768 = r - 32768
    BY <1>2
  <2> QED
    BY <1>2, <2>1 DEF Signed, Degrees
<1> QED
  BY <1>1, <1>2

(* Where the two functions agree on what is no reading, and only there,   *)
(* they agree on the number.                                              *)
LEMMA SameNumber ==
    ASSUME NEW r \in Nat, r <= 65535
    PROVE  TcpuShown(r) = TempCritShown(r) <=> r \notin 65501 .. 65534
<1>1. CASE r \in 65501 .. 65534
  <2>1. TcpuShown(r)[2] = 0 /\ TempCritShown(r)[2] = 100 * (32768 - r)
    BY <1>1 DEF TcpuShown, TempCritShown, Signed, Number
  <2> QED
    BY <1>1, <2>1
<1>2. CASE r \notin 65501 .. 65534
  BY <1>2 DEF TcpuShown, TempCritShown
<1> QED
  BY <1>1, <1>2

(* show_tcpu and show_temp_crit: a temperature is shown above a limit if  *)
(* and only if it is, for all temperatures and limits but those that mean *)
(* no reading; equal raw values are shown equal, but for those that only  *)
(* show_tcpu takes for no reading, 65501 to 65534.                        *)
THEOREM TemperaturesCompare == Spec => []TemperaturesComparable
<1>1. Opened => TemperaturesComparable
  <2> SUFFICES ASSUME Opened, attr[1] \in {"tcpu", "temp_crit"}, shown # NotRead
               PROVE  /\ attr[1] = "tcpu" /\ raw <= 65500 =>
                            \A limit \in Samples \ {65535} :
                                shown[2] > TempCritShown(limit)[2]
                                    <=> Degrees(raw) > Degrees(limit)
                      /\ TcpuShown(raw) = TempCritShown(raw) <=> raw \notin 65501 .. 65534
    BY DEF TemperaturesComparable
  <2>1. PICK s \in Samples : raw = Value(kind, attr, s)
    BY DEF Opened
  <2>2. /\ raw \in Nat /\ raw <= 65535
        /\ shown \in {TcpuShown(raw), TempCritShown(raw)}
    BY <2>1, TemperatureReadings, SampleType DEF Opened, SixteenBits
  <2>3. ASSUME attr[1] = "tcpu", raw <= 65500, NEW limit \in Samples \ {65535}
        PROVE  shown[2] > TempCritShown(limit)[2] <=> Degrees(raw) > Degrees(limit)
    <3>1. shown = TcpuShown(raw)
      BY <2>3 DEF Opened, Shown
    <3>2. shown[2] = 100 * Degrees(raw) /\ Degrees(raw) \in Int
      BY <2>2, <2>3, <3>1, SignedIsDegrees DEF TcpuShown, Number
    <3>3. limit \in Nat /\ limit <= 65535 /\ limit # 65535
      BY <2>3, SampleType DEF SixteenBits
    <3>4. TempCritShown(limit)[2] = 100 * Degrees(limit) /\ Degrees(limit) \in Int
      BY <3>3, SignedIsDegrees DEF TempCritShown, Number
    <3> QED
      BY <3>2, <3>4
  <2> QED
    BY <2>2, <2>3, SameNumber
<1> QED
  BY <1>1, Invariance, PTL

-----------------------------------------------------------------------------
(* The registers of the sensors. *)

Sensors == Measuring \ Misread

(* Register r is one of the two of word i in a row that begins at first.  *)
InRow(r, first, i) == r = first + 2 * i \/ r = first + 2 * i + 1

(* The registers of sensor <<show, i>>, show function by show function. *)
Owns(k, show, i, r) ==
    \/ /\ show = "fan"
       /\ \/ i < 10 /\ InRow(r, \h00F3, i)
          \/ i = 10 /\ InRow(r, \h023B, 0)
          \/ i = 11 /\ InRow(r, \h0274, 0)
          \/ i = 12 /\ r = \h0113
    \/ /\ show = "voltage"
       /\ \/ i < 28 /\ InRow(r, \h02A8, i)
          \/ i \in 28 .. 43 /\ InRow(r, \h02E8, i) /\ k = "s6100smf"
          \/ i \in {44, 45} /\ r = \h0310 + (i - 44) /\ k = "s6100smf"
    \/ /\ show = "psu_voltage"
       /\ \/ i < 2 /\ InRow(r, \h023E, i)
          \/ i \in {2, 3} /\ InRow(r, \h0277, i - 2)
    \/ /\ show = "current"
       /\ \/ i < 2 /\ InRow(r, IF k = "s6100smf" THEN \h02E4 ELSE \h02E2, i)
          \/ i \in {4, 5} /\ InRow(r, \h027B, i - 4)
    \/ /\ show = "tcpu"
       /\ \/ i < 13 /\ InRow(r, \h0014, i)
          \/ i = 13 /\ InRow(r, \h0239, 0)
          \/ i = 14 /\ InRow(r, \h0272, 0)
    \/ /\ show = "psu"
       /\ \/ i = 1 /\ r = \h0237
          \/ i = 2 /\ InRow(r, \h0246, 0)
          \/ i = 3 /\ InRow(r, \h0248, 0)
          \/ i = 6 /\ r = \h0270
          \/ i = 7 /\ InRow(r, \h027F, 0)
          \/ i = 8 /\ InRow(r, \h0281, 0)
          \/ i = 10 /\ InRow(r, \h0232, 0)

LEMMA SensorFacts ==
    ASSUME NEW a \in Sensors
    PROVE  /\ a = <<a[1], a[2]>>
           /\ \/ a[1] = "fan" /\ a[2] \in 0 .. 12
              \/ a[1] = "voltage" /\ a[2] \in 0 .. 45
              \/ a[1] = "psu_voltage" /\ a[2] \in 0 .. 3
              \/ a[1] = "current" /\ a[2] \in {0, 1, 4, 5}
              \/ a[1] = "tcpu" /\ a[2] \in 0 .. 14
              \/ a[1] = "psu" /\ a[2] \in {1, 2, 3, 6, 7, 8, 10}
<1>1. a \in Attributes /\ a[1] \in {"fan", "voltage", "psu_voltage", "current", "tcpu", "psu"}
      /\ a # <<"psu", 0>> /\ a # <<"psu", 5>> /\ a # <<"current", 2>> /\ a # <<"current", 3>>
  BY DEF Sensors, Measuring, Misread
<1>2. a = <<a[1], a[2]>> /\ a[2] \in Indices[a[1]]
  BY <1>1, AttributeFacts
<1>3. /\ Indices["fan"] = 0 .. 12 /\ Indices["voltage"] = 0 .. 45
      /\ Indices["psu_voltage"] = 0 .. 3 /\ Indices["current"] = 0 .. 5
      /\ Indices["tcpu"] = 0 .. 14 /\ Indices["psu"] = {0, 1, 2, 3, 5, 6, 7, 8, 10}
  BY DEF Indices
<1>4. CASE a[1] = "current"
  <2>1. a[2] \in 0 .. 5 /\ a[2] # 2 /\ a[2] # 3
    BY <1>1, <1>2, <1>3, <1>4
  <2> QED
    BY <1>2, <1>4, <2>1
<1>5. CASE a[1] = "psu"
  BY <1>1, <1>2, <1>3, <1>5
<1>6. CASE a[1] \notin {"current", "psu"}
  BY <1>1, <1>2, <1>3, <1>6
<1> QED
  BY <1>4, <1>5, <1>6

LEMMA SpanIsOwned ==
    ASSUME NEW k \in Kinds, NEW a \in Sensors, NEW r \in Span(k, a)
    PROVE  r \in Int /\ Owns(k, a[1], a[2], r)
<1> DEFINE q == Reading(k, a)
<1>1. CASE a[1] = "fan"
  <2>1. q = FanReading(a[2]) /\ a[2] \in 0 .. 12
    BY <1>1, SensorFacts DEF Reading
  <2> QED
    BY <1>1, <2>1 DEF Span, FanReading, Word, Byte, Owns, InRow
<1>2. CASE a[1] = "voltage"
  <2>1. q = VoltageReading(k, a[2]) /\ a[2] \in 0 .. 45
    BY <1>2, SensorFacts DEF Reading
  <2> QED
    BY <1>2, <2>1 DEF Span, VoltageReading, Word, Byte, Nothing, Owns, InRow
<1>3. CASE a[1] = "psu_voltage"
  <2>1. q = PsuVoltageReading(a[2]) /\ a[2] \in 0 .. 3
    BY <1>3, SensorFacts DEF Reading
  <2> QED
    BY <1>3, <2>1 DEF Span, PsuVoltageReading, SecondPsu, Word, Owns, InRow
<1>4. CASE a[1] = "current"
  <2>1. q = CurrentReading(k, a[2]) /\ a[2] \in {0, 1, 4, 5}
    BY <1>4, SensorFacts DEF Reading
  <2>2. 4 % 4 = 0 /\ 5 % 4 = 1
    OBVIOUS
  <2> QED
    BY <1>4, <2>1, <2>2 DEF Span, CurrentReading, Word, Owns, InRow
<1>5. CASE a[1] = "tcpu"
  <2>1. q = TcpuReading(a[2]) /\ a[2] \in 0 .. 14
    BY <1>5, SensorFacts DEF Reading
  <2> QED
    BY <1>5, <2>1 DEF Span, TcpuReading, Word, Owns, InRow
<1>6. CASE a[1] = "psu"
  <2>1. q = PsuReading(a[2]) /\ a[2] \in {1, 2, 3, 6, 7, 8, 10}
    BY <1>6, SensorFacts DEF Reading
  <2>2. /\ PsuReading(1) = Byte(\h0237) /\ PsuReading(2) = Word(\h0246)
        /\ PsuReading(3) = Word(\h0248) /\ PsuReading(6) = Byte(\h0270)
        /\ PsuReading(7) = Word(\h027F) /\ PsuReading(8) = Word(\h0281)
        /\ PsuReading(10) = Word(\h0232)
    BY DEF PsuReading
  <2> QED
    BY <1>6, <2>1, <2>2 DEF Span, Word, Byte, Owns, InRow
<1> QED
  BY <1>1, <1>2, <1>3, <1>4, <1>5, <1>6, SensorFacts

LEMMA OneOwner ==
    ASSUME NEW k \in Kinds, NEW a \in Sensors, NEW b \in Sensors, NEW r \in Int,
           Owns(k, a[1], a[2], r), Owns(k, b[1], b[2], r)
    PROVE  a = b
<1>1. a[1] = b[1] /\ a[2] = b[2]
  BY SensorFacts DEF Owns, InRow, Kinds
<1> QED
  BY <1>1, SensorFacts

(* The tables of dell_pmc give every register to one sensor at most, on   *)
(* both boards, the currents of the first PSU apart.                      *)
THEOREM OneSensorEach == Spec => []SensorsDoNotOverlap
<1>1. Opened => SensorsDoNotOverlap
  <2> SUFFICES ASSUME Opened, attr \in Sensors,
                      NEW b \in Sensors, b # attr,
                      NEW r \in Span(kind, attr), r \in Span(kind, b)
               PROVE  FALSE
    BY DEF SensorsDoNotOverlap, Sensors
  <2>1. kind \in Kinds
    BY DEF Opened
  <2>2. r \in Int /\ Owns(kind, attr[1], attr[2], r) /\ Owns(kind, b[1], b[2], r)
    BY <2>1, SpanIsOwned
  <2> QED
    BY <2>1, <2>2, OneOwner
<1> QED
  BY <1>1, Invariance, PTL

(* A label, or a reading that is not there. *)
LEMMA LabelOrNothing ==
    ASSUME NEW k \in Kinds, NEW a \in Attributes, Visible(k, a),
           a[1] \in {"fan", "voltage", "psu_voltage", "current", "tcpu"},
           a # <<"fan", 12>>, a \notin {<<"voltage", 44>>, <<"voltage", 45>>}
    PROVE  \/ HasLabel(k, a)
           \/ k = "z9100smf" /\ a[1] = "voltage" /\ Reading(k, a) = Nothing /\ a[2] < 44
           \/ a[1] = "current" /\ a[2] >= 2
<1> DEFINE i == a[2]
<1>1. a = <<a[1], i>> /\ i \in Indices[a[1]]
  BY AttributeFacts
<1>2. /\ Indices["fan"] = 0 .. 12 /\ Indices["voltage"] = 0 .. 45
      /\ Indices["psu_voltage"] = 0 .. 3 /\ Indices["current"] = 0 .. 5
      /\ Indices["tcpu"] = 0 .. 14
  BY DEF Indices
<1>3. CASE a[1] = "fan"
  <2>1. i \in 0 .. 11
    BY <1>1, <1>2, <1>3
  <2>2. MayBeSet(FaninMask(k), i)
    BY <1>3, <2>1 DEF Visible
  <2>3. i \in FanLabels(k)
    BY <2>1, <2>2 DEF MayBeSet, FaninMask, FanLabels
  <2> QED
    BY <1>3, <2>3 DEF HasLabel
<1>4. CASE a[1] = "voltage"
  <2>1. i \in 0 .. 43
    <3>1. i \in 0 .. 45 /\ i # 44 /\ i # 45
      BY <1>1, <1>2, <1>4
    <3> QED
      BY <3>1
  <2>2. CASE i < 28 \/ k = "s6100smf"
    <3>1. (IF i < 28 THEN i ELSE i + 4) \in VsenLabels(k)
      BY <2>1, <2>2 DEF VsenLabels, Kinds
    <3> QED
      BY <1>4, <3>1 DEF HasLabel
  <2>3. CASE ~ (i < 28) /\ k = "z9100smf"
    <3>1. Reading(k, a) = VoltageReading(k, i)
      BY <1>4 DEF Reading
    <3> QED
      BY <1>4, <2>1, <2>3, <3>1 DEF VoltageReading
  <2> QED
    BY <2>2, <2>3 DEF Kinds
<1>5. CASE a[1] = "psu_voltage"
  <2>1. 28 + i \in VsenLabels(k)
    BY <1>1, <1>2, <1>5 DEF VsenLabels
  <2> QED
    BY <1>5, <2>1 DEF HasLabel
<1>6. CASE a[1] = "tcpu"
  <2>1. i \in 0 .. 14
    BY <1>1, <1>2, <1>6
  <2>2. MayBeSet(TcpuMask(k), i)
    BY <1>6, <2>1 DEF Visible
  <2>3. TempLabel(i) \in TempLabels(k)
    BY <2>1, <2>2 DEF MayBeSet, TcpuMask, TempLabels, TempLabel
  <2> QED
    BY <1>6, <2>3 DEF HasLabel
<1>7. CASE a[1] = "current"
  <2>1. i < 2 => i \in CurrLabels
    BY <1>1, <1>2, <1>7 DEF CurrLabels
  <2>2. i < 2 \/ i >= 2
    BY <1>1, <1>2, <1>7
  <2> QED
    BY <1>7, <2>1, <2>2 DEF HasLabel
<1> QED
  BY <1>3, <1>4, <1>5, <1>6, <1>7

(* smf_fanin_is_visible, smf_vsen_is_visible and smf_tcpu_is_visible show *)
(* no attribute that show_label would not find a name for, but for the    *)
(* Z9100 voltages of modules it has not, which read nothing and show zero, *)
(* and the currents of the supplies.                                       *)
THEOREM VisibleLabelled == Spec => []VisibleHaveLabel
<1>1. Opened => VisibleHaveLabel
  <2> SUFFICES ASSUME Opened, shown # NotRead,
                      attr[1] \in {"fan", "voltage", "psu_voltage", "current", "tcpu"},
                      attr # <<"fan", 12>>, attr \notin {<<"voltage", 44>>, <<"voltage", 45>>}
               PROVE  \/ HasLabel(kind, attr)
                      \/ shown = Number(0) /\ kind = "z9100smf" /\ attr[1] = "voltage"
                      \/ attr[1] = "current" /\ attr[2] >= 2
    BY DEF VisibleHaveLabel
  <2>1. CASE Reading(kind, attr) = Nothing /\ attr[1] = "voltage" /\ attr[2] < 44
    <3>1. PICK s \in Samples : raw = Value(kind, attr, s)
      BY DEF Opened
    <3>2. raw = 0
      BY <2>1, <3>1 DEF Value, Nothing
    <3>3. shown \in {Number(10 * raw)}
      BY <2>1 DEF Opened, Shown
    <3> QED
      BY <2>1, <3>2, <3>3, LabelOrNothing DEF Opened
  <2>2. CASE ~ (Reading(kind, attr) = Nothing /\ attr[1] = "voltage" /\ attr[2] < 44)
    BY <2>2, LabelOrNothing DEF Opened
  <2> QED
    BY <2>1, <2>2
<1> QED
  BY <1>1, Invariance, PTL
=============================================================================
