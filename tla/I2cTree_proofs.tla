---------------------------- MODULE I2cTree_proofs ----------------------------
(***************************************************************************)
(* Theorems about I2cTree: the shape of the tree, that a deinit without a  *)
(* fault takes it down to what it was at boot, whatever happened before,   *)
(* that fixed bus numbers find the muxes, that a CPLD is left without its  *)
(* driver only after three faults, and that an init without a fault puts   *)
(* every bus and device in its place, on a CPU board also after a deinit   *)
(* that met faults, up to two of them.                                     *)
(* They hold on every platform, for every bound on bus numbers and faults; *)
(* what is said of init wants the bus numbers of a machine whose modules   *)
(* are all there.                                                          *)
(***************************************************************************)
EXTENDS I2cTree, FiniteSetTheorems, SequenceTheorems, TLAPS

-----------------------------------------------------------------------------
(* The invariant *)

(* The muxes on the buses that are there at boot: bus and address.        *)
RootMuxes ==
    IF platform = "z9264f" THEN {603, 604} \X (\h74 .. \h77) ELSE {<<devnum, \h70>>}

(* Place q lies below one of them. *)
BelowRootMux(q) ==
    /\ Len(q) > 1
    /\ \E x \in RootMuxes : q[1] = <<x[1], 0>> /\ q[2][1] = x[2]

(* The muxes on channels of the CPU board's mux.                          *)
BoardMuxes ==
    {<<4, \h71>>} \cup
    ((6 .. 9) \X (IF platform = "s6100" THEN {\h71, \h72} ELSE {\h71}))

(* What may be attached to bus number n: on a bus of boot only the muxes   *)
(* that lead to all the others and the EEPROM of the Z9264F, elsewhere     *)
(* muxes on five buses and CPLDs on four others.                           *)
MayBeOn(n, addr, chip) ==
    /\ addr \in Nat
    /\ n \in RootBuses =>
          IF chip = "mux" THEN <<n, addr>> \in RootMuxes
          ELSE platform = "z9264f" /\ n = 0 /\ addr = \h53
    /\ chip = "mux" /\ platform # "z9264f" => <<n, addr>> \in RootMuxes \cup BoardMuxes
    /\ chip = "cpld" => platform # "z9264f" /\ n \in 14 .. 17 /\ addr = \h3e

(* The buses of boot keep their numbers, all others lie below the muxes   *)
(* on them, and every device is on some bus.                               *)
Shape ==
    /\ IsFiniteSet(clients)
    /\ buses = [n \in DOMAIN buses |-> buses[n]]
    /\ DOMAIN buses \subseteq (0 .. MaxBus) \cup RootBuses
    /\ \A n \in RootBuses : n \in DOMAIN buses /\ buses[n] = Root(n)
    /\ \A n \in DOMAIN buses : /\ buses[n] \in Seq(Nat \X Nat) /\ Len(buses[n]) > 0
                               /\ n \in RootBuses \/ BelowRootMux(buses[n])
    /\ \A c \in clients : \E n \in DOMAIN buses :
          c.at = buses[n] /\ MayBeOn(n, c.addr, c.chip)

(* What a line that deletes a device on a bus of boot leaves: not the     *)
(* device, and nothing below it.                                          *)
Gone(r, a) ==
    /\ \A c \in clients : ~ (c.at = Root(r) /\ c.addr = a)
    /\ \A n \in DOMAIN buses : ~ (/\ Len(buses[n]) > 1
                                  /\ buses[n][1] = <<r, 0>> /\ buses[n][2][1] = a)

DeletesOnly(l, r, a) ==
    l.op = "delete" /\ l.on = {r} /\ l.addr = a /\ l.poll = {} /\ l.under = {}

(* Line by line, a deinit without a fault takes the tree down.             *)
TakenDown ==
    script = "deinit" /\ ~ spoiled =>
        \A k \in 1 .. Len(DeinitLines) : \A r \in RootBuses, a \in Nat :
            k < line /\ DeletesOnly(DeinitLines[k], r, a) => Gone(r, a)

(* Channel n - 1 of the CPU board's mux, and channel k of mux x on one of  *)
(* its channels.                                                            *)
CpuPlace(n)       == << <<devnum, 0>>, <<\h70, n - 1>> >>
SwitchPlace(x, k) == Append(CpuPlace(x[1]), <<x[2], k>>)

CpuMuxAttached == \E c \in clients : c.at = Root(devnum) /\ c.addr = \h70

(* The numbers of a CPU board: its mux comes first and has i2c-2 to i2c-9  *)
(* for as long as it has channels at all, and every other bus belongs to a *)
(* mux on one of these.                                                     *)
Numbered ==
    platform # "z9264f" =>
        /\ \A c \in clients : c = [at |-> c.at, addr |-> c.addr, chip |-> c.chip]
        /\ \A n \in DOMAIN buses : Len(buses[n]) > 1 =>
              /\ CpuMuxAttached /\ "mux" \in drivers
              /\ (2 .. 9) \cap (0 .. MaxBus) \subseteq DOMAIN buses
        /\ \A n \in DOMAIN buses \cap (2 .. 9) : buses[n] = CpuPlace(n)
        /\ \A n \in DOMAIN buses \ (0 .. 9) :
              \E x \in BoardMuxes, k \in Nat : buses[n] = SwitchPlace(x, k)
        /\ script = "init" => {"mux", "cpld"} \subseteq drivers

(* A line that deletes mux x on a channel of the CPU board's mux.          *)
DeletesMux(l, x) ==
    l.op = "delete" /\ l.on = {x[1]} /\ l.addr = x[2] /\ l.poll = {} /\ l.under \subseteq {devnum}

(* A CPLD that survives the lines of a deinit that take it away has met    *)
(* three faults: at the line that deletes it, at that of the mux it is on, *)
(* and at that of the CPU board's mux.                                      *)
Survives(c) ==
    /\ script = "deinit" =>
          /\ line > 2 => faults >= 1
          /\ \A x \in BoardMuxes, i \in 3 .. Len(DeinitLines) - 3 :
                /\ DeletesMux(DeinitLines[i], x)
                /\ \E k \in Nat : c.at = SwitchPlace(x, k)
                /\ line > i
                => faults >= 2
          /\ line > Len(DeinitLines) - 2 => faults >= 3
    /\ "cpld" \notin drivers => faults >= 3

Surviving == \A c \in clients : c.chip = "cpld" => Survives(c)
-----------------------------------------------------------------------------
(* The lines of the scripts *)

Chips == {"mux", "cpld", "sff8436", "24c02", "any"}
Line == [op : {"new", "delete", "unload"}, on : SUBSET Nat, addr : Nat, chip : Chips,
         poll : SUBSET Nat, under : SUBSET Nat]

(* What a line of init adds may be where the line puts it.                 *)
Fits(l) == \A n \in l.on : MayBeOn(n, l.addr, l.chip)

Adding   == {l \in Line : l.op = "new" /\ Fits(l)}
Removing == {l \in Line : l.op = "delete" \/ (l.op = "unload" /\ l.on = {0})}

(* One of the three platforms; its adapter is i2c-0 or i2c-1.              *)
Supported ==
    /\ platform \in {"s6100", "z9100", "z9264f"} /\ devnum \in {0, 1}

(* A line adds, with or without a look for a bus first.                    *)
LEMMA NewAdds ==
    ASSUME NEW bs \in SUBSET Nat, NEW a \in Nat, NEW c \in Chips,
           \A n \in bs : MayBeOn(n, a, c)
    PROVE  /\ New(bs, a, c) \in Adding
           /\ \A n \in Nat : IfExists(n, New(bs, a, c)) \in Adding
<1> DEFINE l == New(bs, a, c)
<1>1. l \in Line /\ l.op = "new" /\ Fits(l)
  BY DEF New, Line, Fits
<1>2. ASSUME NEW n \in Nat PROVE IfExists(n, l) \in Adding
  <2>1. /\ IfExists(n, l) \in Line /\ IfExists(n, l).op = "new"
        /\ IfExists(n, l).on = bs /\ IfExists(n, l).addr = a /\ IfExists(n, l).chip = c
    BY DEF IfExists, New, Line
  <2> QED BY <2>1 DEF Fits, Adding
<1> QED BY <1>1, <1>2 DEF Adding

(* The lines of init for a CPU board and its switch board.                 *)
LEMMA QsfpMuxLinesFit ==
    ASSUME Supported, platform # "z9264f"
    PROVE  /\ QsfpMuxLines \in Seq(Adding)
           /\ Len(QsfpMuxLines) = IF platform = "s6100" THEN 8 ELSE 4
<1> DEFINE each == IF platform = "s6100" THEN 2 ELSE 1
           line_(k) == NewMux(NineToSix[((k - 1) \div each) + 1],
                              QsfpMuxAddresses[((k - 1) % each) + 1])
<1>1. Len(QsfpMuxAddresses) = each
  BY DEF QsfpMuxAddresses
<1>2. QsfpMuxLines = [k \in 1 .. 4 * each |-> line_(k)]
  BY <1>1 DEF QsfpMuxLines
<1>3. ASSUME NEW k \in 1 .. 4 * each PROVE line_(k) \in Adding
  <2>1. ((k - 1) \div each) + 1 \in 1 .. 4 /\ ((k - 1) % each) + 1 \in 1 .. each
    <3>1. CASE each = 1
      BY <3>1
    <3>2. CASE each = 2
      BY <3>2
    <3> QED BY <3>1, <3>2
  <2>2. PICK n \in 6 .. 9 : n = NineToSix[((k - 1) \div each) + 1]
    BY <2>1 DEF NineToSix
  <2>3. PICK i \in 1 .. each : i = ((k - 1) % each) + 1
    BY <2>1
  <2> DEFINE a == QsfpMuxAddresses[i]
  <2>6. a \in Nat /\ (a = \h71 \/ (platform = "s6100" /\ a = \h72))
    BY <2>3 DEF QsfpMuxAddresses
  <2> HIDE DEF a
  <2>4. /\ {n} \in SUBSET Nat /\ "mux" \in Chips
        /\ \A j \in {n} : MayBeOn(j, a, "mux")
    BY <2>6 DEF MayBeOn, RootBuses, BoardMuxes, Chips
  <2>5. New({n}, a, "mux") \in Adding
    BY <2>4, <2>6, NewAdds, Zenon
  <2> QED
    BY <2>2, <2>3, <2>5 DEF NewMux, a
<1>4. 4 * each \in Nat
  OBVIOUS
<1> HIDE DEF line_
<1>5. [k \in 1 .. 4 * each |-> line_(k)] \in [1 .. 4 * each -> Adding]
  BY <1>3
<1>6. [k \in 1 .. 4 * each |-> line_(k)] \in Seq(Adding)
  BY <1>4, <1>5, SeqDef
<1>7. Len([k \in 1 .. 4 * each |-> line_(k)]) = 4 * each
  BY <1>4, <1>6, LenProperties
<1> QED BY <1>2, <1>6, <1>7

(* The EEPROMs of the QSFP ports are on buses that are not there at boot.  *)
LEMMA QsfpSffFit ==
    ASSUME Supported, platform # "z9264f"
    PROVE  /\ QsfpSff \in Seq(Adding)
           /\ Len(QsfpSff) = IF platform = "s6100" THEN 4 ELSE 1
<1>1. CASE platform = "s6100"
  <2> DEFINE line_(k) == IfExists(QsfpRanges[k][1], Sff(QsfpRanges[k][1] .. QsfpRanges[k][2]))
  <2>1. ASSUME NEW k \in 1 .. 4 PROVE line_(k) \in Adding
    <3>1. PICK m \in 18 .. 66, n \in Nat : m = QsfpRanges[k][1] /\ n = QsfpRanges[k][2]
      BY DEF QsfpRanges
    <3>2. \A i \in m .. n : MayBeOn(i, \h50, "sff8436")
      BY <1>1 DEF MayBeOn, RootBuses
    <3>3. m .. n \in SUBSET Nat /\ m \in Nat /\ \h50 \in Nat /\ "sff8436" \in Chips
      BY DEF Chips
    <3>4. IfExists(m, New(m .. n, \h50, "sff8436")) \in Adding
      BY <3>2, <3>3, NewAdds, Zenon
    <3> QED
      BY <3>1, <3>4 DEF Sff
  <2>2. QsfpSff = [k \in 1 .. 4 |-> line_(k)]
    BY <1>1 DEF QsfpSff
  <2> HIDE DEF line_
  <2>3. QsfpSff \in [1 .. 4 -> Adding]
    BY <2>1, <2>2
  <2>4. QsfpSff \in Seq(Adding)
    BY <2>3, SeqDef
  <2> QED BY <1>1, <2>3, <2>4, LenProperties
<1>2. CASE platform # "s6100"
  <2>1. QsfpSff = << Sff(18 .. 49) >>
    BY <1>2 DEF QsfpSff
  <2>2. \A i \in 18 .. 49 : MayBeOn(i, \h50, "sff8436")
    BY <1>2 DEF MayBeOn, RootBuses
  <2>3. 18 .. 49 \in SUBSET Nat /\ \h50 \in Nat /\ "sff8436" \in Chips
    BY DEF Chips
  <2>4. Sff(18 .. 49) \in Adding
    BY <2>2, <2>3, NewAdds, Zenon DEF Sff
  <2> QED BY <1>2, <2>1, <2>4
<1> QED BY <1>1, <1>2

(* What the library says of two sequences in a row.                        *)
LEMMA Joined ==
    ASSUME NEW S, NEW s \in Seq(S), NEW t \in Seq(S)
    PROVE  s \o t \in Seq(S) /\ Len(s \o t) = Len(s) + Len(t)
BY ConcatProperties, Zenon

(* The lines for one device or one kind of device.                         *)
LEMMA BoardLines ==
    ASSUME Supported, platform # "z9264f"
    PROVE  {CpuMuxLine, SwitchMuxLine, EepromLine, CpldLine, SfpLine} \subseteq Adding
<1>1. CpuMuxLine \in Adding
  <2>1. /\ {devnum} \in SUBSET Nat /\ \h70 \in Nat /\ "mux" \in Chips
        /\ \A n \in {devnum} : MayBeOn(n, \h70, "mux")
    BY DEF Supported, MayBeOn, RootBuses, RootMuxes, Chips
  <2> QED BY <2>1, NewAdds, Zenon DEF CpuMuxLine, NewMux
<1>2. SwitchMuxLine \in Adding
  <2>1. /\ {4} \in SUBSET Nat /\ \h71 \in Nat /\ "mux" \in Chips
        /\ \A n \in {4} : MayBeOn(n, \h71, "mux")
    BY DEF MayBeOn, RootBuses, BoardMuxes, Chips
  <2> QED BY <2>1, NewAdds, Zenon DEF SwitchMuxLine, NewMux
<1>3. EepromLine \in Adding
  <2>1. /\ {2} \in SUBSET Nat /\ \h50 \in Nat /\ "24c02" \in Chips
        /\ \A n \in {2} : MayBeOn(n, \h50, "24c02")
    BY DEF MayBeOn, RootBuses, Chips
  <2> QED BY <2>1, NewAdds, Zenon DEF EepromLine
<1>4. CpldLine \in Adding
  <2>1. /\ 14 .. 17 \in SUBSET Nat /\ \h3e \in Nat /\ "cpld" \in Chips
        /\ \A n \in 14 .. 17 : MayBeOn(n, \h3e, "cpld")
    BY DEF MayBeOn, RootBuses, Chips
  <2> QED BY <2>1, NewAdds, Zenon DEF CpldLine
<1>5. SfpLine \in Adding
  <2>1. /\ {11, 12} \in SUBSET Nat /\ \h50 \in Nat /\ "sff8436" \in Chips
        /\ \A n \in {11, 12} : MayBeOn(n, \h50, "sff8436")
    BY DEF MayBeOn, RootBuses, Chips
  <2> QED BY <2>1, NewAdds, Zenon DEF SfpLine, Sff
<1> QED BY <1>1, <1>2, <1>3, <1>4, <1>5

(* s6100_platform.sh and z9100_platform.sh, line after line.               *)
LEMMA BoardInitFits ==
    ASSUME Supported, platform # "z9264f"
    PROVE  /\ BoardInit \in Seq(Adding)
           /\ Len(BoardInit) \in 10 .. 19
<1> DEFINE first == << CpuMuxLine, SwitchMuxLine, EepromLine, CpldLine >>
<1>6. first \in Seq(Adding) /\ Len(first) = 4
  BY BoardLines
<1>7. << SfpLine >> \in Seq(Adding) /\ Len(<< SfpLine >>) = 1
  BY BoardLines
<1> HIDE DEF first
<1> DEFINE muxes == IF platform = "s6100" THEN 8 ELSE 4
           sffs  == IF platform = "s6100" THEN 4 ELSE 1
<1>8. /\ QsfpMuxLines \in Seq(Adding) /\ Len(QsfpMuxLines) = muxes
      /\ QsfpSff \in Seq(Adding) /\ Len(QsfpSff) = sffs
  BY QsfpMuxLinesFit, QsfpSffFit
<1>9. 4 + muxes + 1 + sffs \in 10 .. 19
  OBVIOUS
<1> HIDE DEF muxes, sffs
<1>10. /\ first \o QsfpMuxLines \in Seq(Adding)
       /\ Len(first \o QsfpMuxLines) = Len(first) + Len(QsfpMuxLines)
  BY <1>6, <1>8, Joined, Zenon
<1>11. /\ first \o QsfpMuxLines \o << SfpLine >> \in Seq(Adding)
       /\ Len(first \o QsfpMuxLines \o << SfpLine >>) = Len(first \o QsfpMuxLines) + Len(<< SfpLine >>)
  BY <1>7, <1>10, Joined, Zenon
<1>12. /\ first \o QsfpMuxLines \o << SfpLine >> \o QsfpSff \in Seq(Adding)
       /\ Len(first \o QsfpMuxLines \o << SfpLine >> \o QsfpSff) =
            Len(first \o QsfpMuxLines \o << SfpLine >>) + Len(QsfpSff)
  BY <1>8, <1>11, Joined, Zenon
<1>13. Len(first \o QsfpMuxLines \o << SfpLine >> \o QsfpSff) = 4 + muxes + 1 + sffs
  BY <1>6, <1>7, <1>8, <1>10, <1>11, <1>12, Zenon
<1> QED BY <1>9, <1>12, <1>13, Zenon DEF BoardInit, first

(* The lines of init for the Z9264F.                                       *)
LEMMA FpgaLinesFit ==
    ASSUME platform = "z9264f"
    PROVE  /\ FpgaEepromLine \in Adding /\ Sff(2 .. 65) \in Adding
           /\ FpgaMuxLines \in Seq(Adding) /\ Len(FpgaMuxLines) = 8
<1>1. FpgaEepromLine \in Adding
  <2>1. /\ {0} \in SUBSET Nat /\ \h53 \in Nat /\ "24c02" \in Chips
        /\ \A n \in {0} : MayBeOn(n, \h53, "24c02")
    BY DEF MayBeOn, RootBuses, Chips
  <2> QED BY <2>1, NewAdds, Zenon DEF FpgaEepromLine
<1>2. Sff(2 .. 65) \in Adding
  <2>1. /\ 2 .. 65 \in SUBSET Nat /\ \h50 \in Nat /\ "sff8436" \in Chips
        /\ \A n \in 2 .. 65 : MayBeOn(n, \h50, "sff8436")
    BY DEF MayBeOn, RootBuses, Chips
  <2> QED BY <2>1, NewAdds, Zenon DEF Sff
<1> DEFINE line_(k) == NewMux(IF k <= 4 THEN 604 ELSE 603, \h74 + ((k - 1) % 4))
<1>3. ASSUME NEW k \in 1 .. 8 PROVE line_(k) \in Adding
  <2>1. PICK n \in {603, 604} : n = IF k <= 4 THEN 604 ELSE 603
    OBVIOUS
  <2>2. PICK a \in \h74 .. \h77 : a = \h74 + ((k - 1) % 4)
    OBVIOUS
  <2>3. /\ {n} \in SUBSET Nat /\ a \in Nat /\ "mux" \in Chips
        /\ \A i \in {n} : MayBeOn(i, a, "mux")
    BY DEF MayBeOn, RootBuses, RootMuxes, Chips
  <2>4. New({n}, a, "mux") \in Adding
    BY <2>3, NewAdds, Zenon
  <2> QED BY <2>1, <2>2, <2>4 DEF NewMux
<1> HIDE DEF line_
<1>4. [k \in 1 .. 8 |-> line_(k)] \in [1 .. 8 -> Adding]
  BY <1>3
<1>5. [k \in 1 .. 8 |-> line_(k)] \in Seq(Adding)
  BY <1>4, SeqDef
<1>6. Len([k \in 1 .. 8 |-> line_(k)]) = 8
  BY <1>5, LenProperties
<1> QED BY <1>1, <1>2, <1>5, <1>6 DEF FpgaMuxLines, line_

(* Every line of init adds, to buses where it may.                         *)
LEMMA InitLinesFit ==
    ASSUME Supported
    PROVE  InitLines \in Seq(Adding) /\ Len(InitLines) \in 10 .. 19
<1>1. CASE platform = "z9264f"
  <2>1. /\ << FpgaEepromLine >> \in Seq(Adding) /\ Len(<< FpgaEepromLine >>) = 1
        /\ << Sff(2 .. 65) >> \in Seq(Adding) /\ Len(<< Sff(2 .. 65) >>) = 1
    BY <1>1, FpgaLinesFit
  <2>2. FpgaMuxLines \in Seq(Adding) /\ Len(FpgaMuxLines) = 8
    BY <1>1, FpgaLinesFit
  <2>3. /\ << FpgaEepromLine >> \o FpgaMuxLines \in Seq(Adding)
        /\ Len(<< FpgaEepromLine >> \o FpgaMuxLines) = Len(<< FpgaEepromLine >>) + Len(FpgaMuxLines)
    BY <2>1, <2>2, Joined, Zenon
  <2>4. /\ FpgaInit \in Seq(Adding)
        /\ Len(FpgaInit) = Len(<< FpgaEepromLine >> \o FpgaMuxLines) + Len(<< Sff(2 .. 65) >>)
    BY <2>1, <2>3, Joined, Zenon DEF FpgaInit
  <2>5. Len(FpgaInit) = 10
    BY <2>1, <2>2, <2>3, <2>4
  <2>6. InitLines = FpgaInit
    BY <1>1 DEF InitLines
  <2>7. Len(InitLines) \in 10 .. 19
    BY <2>5, <2>6
  <2> QED BY <2>4, <2>6, <2>7, Zenon
<1>2. CASE platform # "z9264f"
  BY <1>2, BoardInitFits DEF InitLines
<1> QED BY <1>1, <1>2

(* Elements of two sequences in a row, by their places.                    *)
LEMMA JoinedFront ==
    ASSUME NEW S, NEW s \in Seq(S), NEW t \in Seq(S), NEW i \in 1 .. Len(s)
    PROVE  (s \o t)[i] = s[i]
<1>1. Len(s) \in Nat /\ Len(t) \in Nat
  BY LenProperties
<1>2. i \in 1 .. Len(s) + Len(t) /\ i <= Len(s)
  BY <1>1
<1> QED BY <1>2, ConcatProperties, Zenon

LEMMA JoinedBack ==
    ASSUME NEW S, NEW s \in Seq(S), NEW t \in Seq(S), NEW i \in 1 .. Len(t)
    PROVE  (s \o t)[Len(s) + i] = t[i]
<1>1. Len(s) \in Nat /\ Len(t) \in Nat
  BY LenProperties
<1> DEFINE m == Len(s)
           n == Len(t)
<1> HIDE DEF m, n
<1>2. m \in Nat /\ n \in Nat /\ i \in 1 .. n
  BY <1>1 DEF m, n
<1>3. m + i \in 1 .. m + n /\ ~ (m + i <= m) /\ (m + i) - m = i
  BY <1>2
<1>4. \A k \in 1 .. m + n : (s \o t)[k] = IF k <= m THEN s[k] ELSE t[k - m]
  BY ConcatProperties, Zenon DEF m, n
<1> QED BY <1>3, <1>4, Zenon DEF m

LEMMA JoinedLast ==
    ASSUME NEW S, NEW s \in Seq(S), NEW x \in S
    PROVE  (s \o << x >>)[Len(s) + 1] = x
<1>1. Len(s) \in Nat /\ << x >> \in Seq(S) /\ Len(<< x >>) = 1 /\ << x >>[1] = x
  BY LenProperties
<1> DEFINE m == Len(s)
<1> HIDE DEF m
<1>2. m \in Nat
  BY <1>1 DEF m
<1>3. m + 1 \in 1 .. m + 1 /\ ~ (m + 1 <= m) /\ (m + 1) - m = 1
  BY <1>2
<1>4. \A i \in 1 .. m + 1 : (s \o << x >>)[i] = IF i <= m THEN s[i] ELSE << x >>[i - m]
  BY <1>1, ConcatProperties, Zenon DEF m
<1> QED BY <1>1, <1>3, <1>4, Zenon DEF m

(* Deleting what the lines of a script add.                                *)
LEMMA EachDeleted ==
    ASSUME NEW X \in Seq(Adding)
    PROVE  /\ DeleteEach(X) \in Seq(Removing) /\ Len(DeleteEach(X)) = Len(X)
           /\ \A k \in 1 .. Len(X) : /\ DeleteEach(X)[k] = Delete(X[k])
                                     /\ DeleteEach(X)[k].op = "delete"
<1>1. Len(X) \in Nat /\ DOMAIN X = 1 .. Len(X)
  BY LenProperties
<1>2. ASSUME NEW k \in 1 .. Len(X) PROVE Delete(X[k]) \in Removing /\ Delete(X[k]).op = "delete"
  <2>1. X[k] \in Line
    BY ElementOfSeq DEF Adding
  <2> QED BY <2>1 DEF Delete, Removing, Line, Chips
<1> DEFINE D == [k \in 1 .. Len(X) |-> Delete(X[k])]
<1>3. D = DeleteEach(X)
  BY <1>1 DEF DeleteEach
<1>4. D \in [1 .. Len(X) -> Removing]
  BY <1>2
<1>5. D \in Seq(Removing)
  BY <1>1, <1>4, SeqDef
<1>6. Len(D) = Len(X)
  BY <1>1, <1>5, LenProperties
<1> QED BY <1>2, <1>3, <1>5, <1>6

(* deinit of the S6100 and the Z9100: second the CPLDs, then the mux above *)
(* them as the last device, the drivers at the end.                        *)
LEMMA BoardDeinitLines ==
    ASSUME Supported, platform # "z9264f"
    PROVE  /\ BoardDeinit \in Seq(Removing) /\ Len(BoardDeinit) \in 5 .. 19
           /\ BoardDeinit[2] = Delete(CpldLine)
           /\ BoardDeinit[Len(BoardDeinit) - 2] = Delete(CpuMuxLine)
           /\ BoardDeinit[Len(BoardDeinit) - 1] = Unload("cpld")
           /\ BoardDeinit[Len(BoardDeinit)] = Unload("mux")
           /\ \A k \in 1 .. Len(BoardDeinit) :
                 BoardDeinit[k].op = "unload" => k > Len(BoardDeinit) - 2
           /\ \A l \in {SwitchMuxLine, EepromLine} \cup
                   {Through(devnum, QsfpMuxLines[j]) : j \in 1 .. Len(QsfpMuxLines)} :
                 \E i \in 3 .. Len(BoardDeinit) - 3 : BoardDeinit[i] = Delete(l)
<1> DEFINE first == << SfpLine, CpldLine, SwitchMuxLine, EepromLine >>
           muxes == [k \in DOMAIN QsfpMuxLines |-> Through(devnum, QsfpMuxLines[k])]
           lines == first \o QsfpSff \o muxes \o << CpuMuxLine >>
           rest  == << Unload("cpld"), Unload("mux") >>
<1>1. /\ first \in Seq(Adding) /\ Len(first) = 4 /\ first[2] = CpldLine
      /\ first[3] = SwitchMuxLine /\ first[4] = EepromLine
      /\ << CpuMuxLine >> \in Seq(Adding) /\ Len(<< CpuMuxLine >>) = 1
      /\ << CpuMuxLine >>[1] = CpuMuxLine
  BY BoardLines
<1>2. /\ muxes \in Seq(Adding) /\ Len(muxes) = Len(QsfpMuxLines)
      /\ \A j \in 1 .. Len(QsfpMuxLines) : muxes[j] = Through(devnum, QsfpMuxLines[j])
  <2>1. QsfpMuxLines \in Seq(Adding) /\ Len(QsfpMuxLines) \in Nat
    BY QsfpMuxLinesFit, LenProperties
  <2>2. DOMAIN QsfpMuxLines = 1 .. Len(QsfpMuxLines)
    BY <2>1, LenProperties
  <2>3. ASSUME NEW k \in 1 .. Len(QsfpMuxLines) PROVE Through(devnum, QsfpMuxLines[k]) \in Adding
    <3> DEFINE l == QsfpMuxLines[k]
    <3>1. l \in Line /\ l.op = "new" /\ Fits(l)
      BY <2>1, ElementOfSeq DEF Adding
    <3> HIDE DEF l
    <3>2. /\ Through(devnum, l) \in Line /\ Through(devnum, l).op = "new"
          /\ Through(devnum, l).on = l.on /\ Through(devnum, l).addr = l.addr
          /\ Through(devnum, l).chip = l.chip
      BY <3>1 DEF Through, Line, Supported
    <3>3. Through(devnum, l) \in Adding
      BY <3>1, <3>2 DEF Adding, Fits
    <3> QED BY <3>3 DEF l
  <2>4. muxes \in [1 .. Len(QsfpMuxLines) -> Adding]
    BY <2>2, <2>3
  <2>5. muxes \in Seq(Adding)
    BY <2>1, <2>4, SeqDef
  <2> QED BY <2>1, <2>4, <2>5, LenProperties
<1> HIDE DEF first, muxes
<1>3. /\ first \o QsfpSff \in Seq(Adding)
      /\ Len(first \o QsfpSff) = Len(first) + Len(QsfpSff)
  BY <1>1, QsfpSffFit, Joined, Zenon
<1>4. /\ first \o QsfpSff \o muxes \in Seq(Adding)
      /\ Len(first \o QsfpSff \o muxes) = Len(first \o QsfpSff) + Len(muxes)
  BY <1>2, <1>3, Joined, Zenon
<1>5. /\ lines \in Seq(Adding)
      /\ Len(lines) = Len(first \o QsfpSff \o muxes) + Len(<< CpuMuxLine >>)
  BY <1>1, <1>4, Joined, Zenon
<1>6. Len(QsfpSff) \in {1, 4} /\ Len(QsfpMuxLines) \in {4, 8}
  BY QsfpMuxLinesFit, QsfpSffFit
<1>7. Len(lines) \in 10 .. 17
  <2>1. Len(lines) = 4 + Len(QsfpSff) + Len(QsfpMuxLines) + 1
    BY <1>1, <1>2, <1>3, <1>4, <1>5, Zenon
  <2>2. \A m \in {1, 4}, n \in {4, 8} : 4 + m + n + 1 \in 10 .. 17
    OBVIOUS
  <2> QED BY <1>6, <2>1, <2>2, Zenon
<1>17. /\ first \in Seq(Adding) /\ QsfpSff \in Seq(Adding) /\ muxes \in Seq(Adding)
       /\ << CpuMuxLine >> \in Seq(Adding)
  BY <1>1, <1>2, QsfpSffFit
<1>18. ASSUME NEW k \in 1 .. 4 PROVE lines[k] = first[k]
  <2>1. /\ \A m \in {1, 4} : k \in 1 .. (4 + m)
        /\ \A m \in {1, 4}, n \in {4, 8} : k \in 1 .. (4 + m + n)
    OBVIOUS
  <2>2. /\ k \in 1 .. Len(first) /\ k \in 1 .. Len(first \o QsfpSff)
        /\ k \in 1 .. Len(first \o QsfpSff \o muxes)
    BY <1>1, <1>2, <1>3, <1>4, <1>6, <2>1, Zenon
  <2>4. (first \o QsfpSff)[k] = first[k]
    BY <1>17, <2>2, JoinedFront, Zenon
  <2>5. (first \o QsfpSff \o muxes)[k] = (first \o QsfpSff)[k]
    BY <1>3, <1>17, <2>2, JoinedFront, Zenon
  <2>6. lines[k] = (first \o QsfpSff \o muxes)[k]
    BY <1>4, <1>17, <2>2, JoinedFront, Zenon
  <2> QED BY <2>4, <2>5, <2>6
<1>8. /\ lines[2] = CpldLine /\ lines[3] = SwitchMuxLine /\ lines[4] = EepromLine
      /\ lines[Len(lines)] = CpuMuxLine
  <2>1. lines[2] = CpldLine /\ lines[3] = SwitchMuxLine /\ lines[4] = EepromLine
    <3>1. 2 \in 1 .. 4 /\ 3 \in 1 .. 4 /\ 4 \in 1 .. 4
      OBVIOUS
    <3> QED BY <1>1, <1>18, <3>1, Zenon
  <2>7. lines[Len(first \o QsfpSff \o muxes) + 1] = CpuMuxLine
    BY <1>4, BoardLines, JoinedLast, Zenon
  <2>8. Len(lines) = Len(first \o QsfpSff \o muxes) + 1
    BY <1>1, <1>5, Zenon
  <2> QED BY <2>1, <2>7, <2>8, Zenon
<1>19. ASSUME NEW j \in 1 .. Len(QsfpMuxLines)
       PROVE  \E i \in 3 .. Len(lines) - 1 : lines[i] = Through(devnum, QsfpMuxLines[j])
  <2> DEFINE front == first \o QsfpSff
  <2>1. /\ j \in 1 .. Len(muxes) /\ muxes[j] = Through(devnum, QsfpMuxLines[j])
        /\ front \in Seq(Adding) /\ muxes \in Seq(Adding)
    BY <1>2, <1>3
  <2>2. (front \o muxes)[Len(front) + j] = muxes[j]
    BY <2>1, JoinedBack, Zenon
  <2>3. /\ Len(front) = 4 + Len(QsfpSff)
        /\ Len(front \o muxes) = 4 + Len(QsfpSff) + Len(QsfpMuxLines)
        /\ Len(lines) = 4 + Len(QsfpSff) + Len(QsfpMuxLines) + 1
    BY <1>1, <1>2, <1>3, <1>4, <1>5, Zenon
  <2>4. \A m \in {1, 4}, n \in {4, 8} : \A i \in 1 .. n :
           4 + m + i \in 1 .. (4 + m + n) /\ 4 + m + i \in 3 .. (4 + m + n + 1) - 1
    OBVIOUS
  <2>5. /\ Len(front) + j \in 1 .. Len(front \o muxes)
        /\ Len(front) + j \in 3 .. Len(lines) - 1
    BY <1>6, <2>3, <2>4, Zenon
  <2>6. lines[Len(front) + j] = (front \o muxes)[Len(front) + j]
    BY <1>4, <1>17, <2>5, JoinedFront, Zenon
  <2> QED BY <2>1, <2>2, <2>5, <2>6, Zenon
<1>9. BoardDevices = DeleteEach(lines)
  BY Zenon DEF BoardDevices, lines, first, muxes
<1>10. /\ rest \in Seq(Removing) /\ Len(rest) = 2
       /\ rest[1] = Unload("cpld") /\ rest[2] = Unload("mux")
  BY DEF Unload, Removing, Line, Chips
<1> HIDE DEF lines, rest
<1>11. /\ BoardDevices \in Seq(Removing) /\ Len(BoardDevices) = Len(lines)
       /\ BoardDevices[2] = Delete(CpldLine)
       /\ BoardDevices[Len(lines)] = Delete(CpuMuxLine)
       /\ \A k \in 1 .. Len(lines) : BoardDevices[k].op = "delete"
  BY <1>5, <1>7, <1>8, <1>9, EachDeleted
<1>12. /\ BoardDeinit \in Seq(Removing) /\ Len(BoardDeinit) = Len(lines) + 2
       /\ \A k \in 1 .. Len(lines) : BoardDeinit[k] = BoardDevices[k]
  <2>1. BoardDeinit = BoardDevices \o rest
    BY DEF BoardDeinit, rest
  <2>2. BoardDevices \o rest \in Seq(Removing)
        /\ Len(BoardDevices \o rest) = Len(BoardDevices) + Len(rest)
    BY <1>10, <1>11, Joined, Zenon
  <2>3. \A k \in 1 .. Len(BoardDevices) : (BoardDevices \o rest)[k] = BoardDevices[k]
    BY <1>10, <1>11, JoinedFront, Zenon
  <2> QED BY <1>10, <1>11, <2>1, <2>2, <2>3, Zenon
<1>13. Len(BoardDeinit) - 2 = Len(lines)
  BY <1>7, <1>12
<1>14. Len(BoardDeinit) \in 5 .. 19
  <2>1. \A m \in 10 .. 17 : m + 2 \in 5 .. 19
    OBVIOUS
  <2> QED BY <1>7, <1>12, <2>1, Zenon
<1>15. /\ BoardDeinit[2] = Delete(CpldLine)
       /\ BoardDeinit[Len(BoardDeinit) - 2] = Delete(CpuMuxLine)
  BY <1>7, <1>11, <1>12, <1>13, SMTT(30)
<1>21. /\ BoardDeinit[Len(BoardDeinit) - 1] = Unload("cpld")
       /\ BoardDeinit[Len(BoardDeinit)] = Unload("mux")
  <2>1. BoardDeinit = BoardDevices \o rest
    BY DEF BoardDeinit, rest
  <2>2. 1 \in 1 .. Len(rest) /\ 2 \in 1 .. Len(rest)
    BY <1>10
  <2>6. rest \in Seq(Removing) /\ BoardDevices \in Seq(Removing)
    BY <1>10, <1>11
  <2>3. /\ (BoardDevices \o rest)[Len(BoardDevices) + 1] = rest[1]
        /\ (BoardDevices \o rest)[Len(BoardDevices) + 2] = rest[2]
    <3>1. \A j \in 1 .. Len(rest) : (BoardDevices \o rest)[Len(BoardDevices) + j] = rest[j]
      BY ONLY <2>6, JoinedBack, Zenon
    <3> QED BY ONLY <2>2, <3>1, Zenon
  <2>4. \A m \in 10 .. 17 : (m + 2) - 1 = m + 1
    OBVIOUS
  <2>5. Len(BoardDeinit) - 1 = Len(BoardDevices) + 1 /\ Len(BoardDeinit) = Len(BoardDevices) + 2
    BY <1>7, <1>11, <1>12, <2>4, Zenon
  <2> QED BY <1>10, <2>1, <2>3, <2>5, Zenon
<1>16. ASSUME NEW k \in 1 .. Len(BoardDeinit), BoardDeinit[k].op = "unload"
       PROVE  k > Len(BoardDeinit) - 2
  BY <1>7, <1>11, <1>12, <1>13, <1>16, SMTT(30)
<1>20. ASSUME NEW l \in {SwitchMuxLine, EepromLine} \cup
                  {Through(devnum, QsfpMuxLines[j]) : j \in 1 .. Len(QsfpMuxLines)}
       PROVE  \E i \in 3 .. Len(BoardDeinit) - 3 : BoardDeinit[i] = Delete(l)
  <2>1. PICK i \in 3 .. Len(lines) - 1 : lines[i] = l
    <3>1. \A m \in 10 .. 17 : 3 \in 3 .. m - 1 /\ 4 \in 3 .. m - 1
      OBVIOUS
    <3>2. 3 \in 3 .. Len(lines) - 1 /\ 4 \in 3 .. Len(lines) - 1
      BY <1>7, <3>1, Zenon
    <3> QED BY <1>8, <1>19, <3>2, Zenon
  <2>2. i \in 1 .. Len(lines) /\ i \in 3 .. Len(BoardDeinit) - 3
    BY <1>7, <1>12
  <2>3. BoardDevices[i] = Delete(lines[i])
    BY <1>5, <1>9, <2>2, EachDeleted, Zenon
  <2> QED BY <1>12, <2>1, <2>2, <2>3, Zenon
<1> QED BY <1>12, <1>14, <1>15, <1>16, <1>20, <1>21, Zenon

(* deinit of the Z9264F deletes the EEPROM and each mux on its own.        *)
LEMMA FpgaDeinitLines ==
    ASSUME platform = "z9264f"
    PROVE  /\ FpgaDeinit \in Seq(Removing) /\ Len(FpgaDeinit) = 11
           /\ FpgaDeinit[1] = Delete(FpgaEepromLine)
           /\ \A k \in 1 .. 8 : FpgaDeinit[2 + k] = Delete(FpgaMuxLines[k])
<1> DEFINE first == << FpgaEepromLine, Sff(2 .. 65) >>
           lines == first \o FpgaMuxLines
           rest  == << Unload("mux") >>
<1>1. /\ first \in Seq(Adding) /\ Len(first) = 2 /\ first[1] = FpgaEepromLine
      /\ FpgaMuxLines \in Seq(Adding) /\ Len(FpgaMuxLines) = 8
  BY FpgaLinesFit
<1>2. rest \in Seq(Removing) /\ Len(rest) = 1
  BY DEF Unload, Removing, Line, Chips
<1> HIDE DEF first, rest
<1>3. lines \in Seq(Adding) /\ Len(lines) = Len(first) + Len(FpgaMuxLines)
  BY <1>1, Joined, Zenon
<1> DEFINE one == 1
<1>4. 2 + 8 = 10 /\ 10 + 1 = 11 /\ one \in 1 .. 2 /\ one \in 1 .. 10
  OBVIOUS
<1> HIDE DEF one
<1>5. lines[one] = first[one]
  <2>1. one \in 1 .. Len(first)
    BY <1>1, <1>4, Zenon
  <2> QED BY <1>1, <2>1, JoinedFront, Zenon
<1>6. ASSUME NEW k \in 1 .. Len(FpgaMuxLines)
      PROVE  lines[Len(first) + k] = FpgaMuxLines[k]
  <2>1. first \in Seq(Adding) /\ FpgaMuxLines \in Seq(Adding)
    BY <1>1
  <2> QED BY <2>1, JoinedBack
<1>7. FpgaDevices = DeleteEach(lines)
  BY Zenon DEF FpgaDevices, lines, first
<1>8. /\ FpgaDevices \in Seq(Removing) /\ Len(FpgaDevices) = Len(lines)
      /\ \A k \in 1 .. Len(lines) : FpgaDevices[k] = Delete(lines[k])
  BY <1>3, <1>7, EachDeleted, Zenon
<1>9. FpgaDeinit = FpgaDevices \o rest
  BY DEF FpgaDeinit, rest
<1> HIDE DEF lines
<1>10. FpgaDeinit \in Seq(Removing) /\ Len(FpgaDeinit) = Len(FpgaDevices) + Len(rest)
  BY <1>2, <1>8, <1>9, Joined, Zenon
<1>11. \A k \in 1 .. Len(FpgaDevices) : FpgaDeinit[k] = FpgaDevices[k]
  BY <1>2, <1>8, <1>9, JoinedFront, Zenon
<1>12. Len(lines) = 10 /\ Len(FpgaDevices) = 10 /\ Len(FpgaDeinit) = 11
  BY <1>1, <1>2, <1>3, <1>4, <1>8, <1>10, Zenon
<1>13. \A k \in 1 .. 10 : FpgaDeinit[k] = Delete(lines[k])
  BY <1>8, <1>11, <1>12, Zenon
<1>14. \A k \in 1 .. 8 : 2 + k \in 1 .. 10
  OBVIOUS
<1>15. \A k \in 1 .. 8 : FpgaDeinit[2 + k] = Delete(FpgaMuxLines[k])
  BY <1>1, <1>6, <1>13, <1>14, Zenon
<1>16. FpgaDeinit[1] = Delete(FpgaEepromLine)
  BY <1>1, <1>4, <1>5, <1>13, Zenon DEF one
<1> QED BY <1>10, <1>12, <1>15, <1>16, Zenon

(* Every line of deinit deletes devices or unloads a driver.               *)
LEMMA DeinitLinesRemove ==
    ASSUME Supported
    PROVE  DeinitLines \in Seq(Removing) /\ Len(DeinitLines) \in 5 .. 19
<1>1. CASE platform = "z9264f"
  <2>1. DeinitLines = FpgaDeinit
    BY <1>1 DEF DeinitLines
  <2>2. 11 \in 5 .. 19
    OBVIOUS
  <2> QED BY <1>1, <2>1, <2>2, FpgaDeinitLines, Zenon
<1>2. CASE platform # "z9264f"
  <2>1. DeinitLines = BoardDeinit
    BY <1>2 DEF DeinitLines
  <2> QED BY <1>2, <2>1, BoardDeinitLines, Zenon
<1> QED BY <1>1, <1>2

(* For each device that may be on a bus of boot, deinit has a line.        *)
LEMMA DeinitDeletesEach ==
    ASSUME Supported, NEW r, NEW a,
           <<r, a>> \in RootMuxes \/ (platform = "z9264f" /\ r = 0 /\ a = \h53)
    PROVE  /\ r \in RootBuses /\ a \in Nat
           /\ \E k \in 1 .. Len(DeinitLines) : DeletesOnly(DeinitLines[k], r, a)
<1>1. r \in RootBuses /\ a \in Nat
  BY DEF Supported, RootMuxes, RootBuses
<1>2. CASE platform # "z9264f"
  <2>1. r = devnum /\ a = \h70
    BY <1>2 DEF RootMuxes
  <2>2. DeinitLines = BoardDeinit
    BY <1>2 DEF DeinitLines
  <2>3. DeletesOnly(Delete(CpuMuxLine), r, a)
    BY <2>1 DEF DeletesOnly, Delete, CpuMuxLine, NewMux, New
  <2>4. \A n \in 5 .. 19 : n - 2 \in 1 .. n
    OBVIOUS
  <2>5. Len(DeinitLines) - 2 \in 1 .. Len(DeinitLines)
    BY <2>4, DeinitLinesRemove, Zenon
  <2> QED BY <1>1, <1>2, <2>2, <2>3, <2>5, BoardDeinitLines, Zenon
<1>3. CASE platform = "z9264f"
  <2>1. DeinitLines = FpgaDeinit /\ Len(DeinitLines) = 11
    BY <1>3, FpgaDeinitLines, Zenon DEF DeinitLines
  <2>2. CASE <<r, a>> \in RootMuxes
    <3>1. r \in {603, 604} /\ a \in \h74 .. \h77
      BY <1>3, <2>2 DEF RootMuxes
    <3>2. PICK k \in 1 .. 8 : k = IF r = 604 THEN a - \h73 ELSE a - \h6f
      BY <3>1
    <3>3. FpgaMuxLines[k] = NewMux(r, a)
      BY <3>1, <3>2 DEF FpgaMuxLines
    <3>4. DeletesOnly(Delete(NewMux(r, a)), r, a)
      BY DEF DeletesOnly, Delete, NewMux, New
    <3>5. PICK j \in 1 .. 11 : j = 2 + k
      OBVIOUS
    <3>6. DeinitLines[j] = Delete(NewMux(r, a))
      BY <1>3, <2>1, <3>3, <3>5, FpgaDeinitLines, Zenon
    <3>7. j \in 1 .. Len(DeinitLines)
      BY <2>1, <3>5, Zenon
    <3> QED BY ONLY <1>1, <3>4, <3>6, <3>7, Zenon
  <2>3. CASE r = 0 /\ a = \h53
    <3>1. DeletesOnly(Delete(FpgaEepromLine), r, a)
      BY <2>3 DEF DeletesOnly, Delete, FpgaEepromLine, New
    <3>2. 1 \in 1 .. 11
      OBVIOUS
    <3> QED BY <1>1, <1>3, <2>1, <3>1, <3>2, FpgaDeinitLines, Zenon
  <2> QED BY <2>2, <2>3
<1> QED BY <1>2, <1>3

-----------------------------------------------------------------------------
(* The kernel *)

(* Channels come at places below muxes that are there, under numbers that  *)
(* were free; no bus changes its number.                                   *)
LEMMA Probed ==
    ASSUME NEW devices, IsFiniteSet(devices), ProbeMuxes(devices)
    PROVE  /\ buses' = [n \in DOMAIN buses' |-> buses'[n]]
           /\ DOMAIN buses \subseteq DOMAIN buses'
           /\ DOMAIN buses' \subseteq DOMAIN buses \cup (0 .. MaxBus)
           /\ \A n \in DOMAIN buses : buses'[n] = buses[n]
           /\ \A n \in DOMAIN buses' \ DOMAIN buses : \E c \in devices, k \in Nat :
                 c.chip = "mux" /\ buses'[n] = Append(c.at, <<c.addr, k>>)
<1> DEFINE M == {c \in devices : c.chip = "mux" /\ Answers(c.at)}
<1>1. PICK muxes \in SetToSeqs(M) : buses' = WithChannels(buses, muxes)
  BY DEF ProbeMuxes
<1>2. /\ Len(muxes) \in Nat
      /\ \A i \in 1 .. Len(muxes) : muxes[i] \in M
  <2>1. M \in SUBSET devices
    OBVIOUS
  <2>2. IsFiniteSet(M)
    BY <2>1, FS_Subset
  <2>3. Cardinality(M) \in Nat
    BY <2>2, FS_CardinalityType
  <2>4. muxes \in [1 .. Cardinality(M) -> M]
    BY <1>1, Zenon DEF SetToSeqs
  <2>5. muxes \in Seq(M)
    BY <2>3, <2>4, SeqDef
  <2> QED BY <2>5, LenProperties, ElementOfSeq
<1> DEFINE free    == (0 .. MaxBus) \ DOMAIN buses
           rank(n) == Cardinality({m \in free : m < n})
           new     == {n \in free : rank(n) < 8 * Len(muxes)}
           mux(n)  == muxes[(rank(n) \div 8) + 1]
<1>3. buses' = [n \in DOMAIN buses \cup new |->
                  IF n \in new THEN Append(mux(n).at, <<mux(n).addr, (rank(n) % 8) + 1>>)
                               ELSE buses[n]]
  BY <1>1, Zenon DEF WithChannels
<1>4. ASSUME NEW n \in new PROVE rank(n) \in Nat /\ rank(n) < 8 * Len(muxes)
  <2>1. IsFiniteSet(0 .. MaxBus)
    BY FS_Interval, PlatformsAssumption
  <2>2. {m \in free : m < n} \in SUBSET (0 .. MaxBus)
    OBVIOUS
  <2>3. IsFiniteSet({m \in free : m < n})
    BY <2>1, <2>2, FS_Subset
  <2> QED BY <2>3, FS_CardinalityType
<1>5. ASSUME NEW n \in new PROVE mux(n) \in M /\ (rank(n) % 8) + 1 \in Nat
  <2> DEFINE r == rank(n)
             l == Len(muxes)
  <2>1. r \in Nat /\ r < 8 * l /\ l \in Nat
    BY <1>2, <1>4, <1>5
  <2> HIDE DEF r, l
  <2>2. (r \div 8) + 1 \in 1 .. l /\ (r % 8) + 1 \in Nat
    BY <2>1
  <2> QED BY <1>2, <2>2, Zenon DEF r, l
<1>6. new \cap DOMAIN buses = {} /\ new \subseteq 0 .. MaxBus
  OBVIOUS
<1> HIDE DEF new, mux, rank, M
<1>7. DOMAIN buses' = DOMAIN buses \cup new
  BY <1>3
<1>8. ASSUME NEW n \in DOMAIN buses PROVE buses'[n] = buses[n]
  BY <1>3, <1>6
<1>9. ASSUME NEW n \in new
      PROVE  buses'[n] = Append(mux(n).at, <<mux(n).addr, (rank(n) % 8) + 1>>)
  BY <1>3
<1>10. ASSUME NEW n \in DOMAIN buses' \ DOMAIN buses
       PROVE  \E c \in devices, k \in Nat :
                 c.chip = "mux" /\ buses'[n] = Append(c.at, <<c.addr, k>>)
  <2>1. n \in new
    BY <1>7
  <2>2. mux(n) \in devices /\ mux(n).chip = "mux" /\ (rank(n) % 8) + 1 \in Nat
    BY <1>5, <2>1 DEF M
  <2> QED BY <1>9, <2>1, <2>2, Zenon
<1>11. buses' = [n \in DOMAIN buses' |-> buses'[n]]
  BY <1>3
<1> QED BY <1>6, <1>7, <1>8, <1>10, <1>11

(* What a deletion leaves: the buses of boot and, of the others, all or    *)
(* none that are at a place, and only devices that are on a bus.           *)
Shrunk ==
    \E keep \in SUBSET DOMAIN buses :
        /\ RootBuses \subseteq keep
        /\ \A n \in keep, m \in DOMAIN buses : buses[n] = buses[m] => m \in keep
        /\ buses' = [n \in keep |-> buses[n]]
        /\ clients' \subseteq {c \in clients : HangsOn(c, buses')}

(* The scripts stay the same as long as the machine does.                  *)
LEMMA SameMachine ==
    ASSUME UNCHANGED machine
    PROVE  /\ RootBuses' = RootBuses /\ RootMuxes' = RootMuxes /\ BoardMuxes' = BoardMuxes
           /\ DeinitLines' = DeinitLines /\ InitLines' = InitLines
           /\ Supported' <=> Supported
<1>1. platform' = platform /\ devnum' = devnum
  BY DEF machine
<1> QED
  BY <1>1 DEF RootBuses, RootMuxes, BoardMuxes, Supported, DeinitLines, InitLines, FpgaInit, FpgaDeinit,
     FpgaDevices, FpgaMuxLines, FpgaEepromLine, BoardInit, BoardDeinit, BoardDevices,
     CpuMuxLine, SwitchMuxLine, EepromLine, CpldLine, SfpLine, QsfpSff, QsfpMuxLines,
     QsfpMuxAddresses, QsfpRanges, NineToSix, NewMux, Sff, New, Delete, DeleteEach,
     IfExists, Through, Unload

LEMMA ShrunkShape ==
    ASSUME Shape, Shrunk, UNCHANGED machine
    PROVE  Shape'
<1>1. PICK keep \in SUBSET DOMAIN buses :
        /\ RootBuses \subseteq keep
        /\ \A n \in keep, m \in DOMAIN buses : buses[n] = buses[m] => m \in keep
        /\ buses' = [n \in keep |-> buses[n]]
        /\ clients' \subseteq {c \in clients : HangsOn(c, buses')}
  BY DEF Shrunk
<1>2. /\ platform' = platform /\ devnum' = devnum /\ RootBuses' = RootBuses
      /\ RootMuxes' = RootMuxes /\ BoardMuxes' = BoardMuxes
  BY SameMachine DEF machine
<1>3. DOMAIN buses' = keep /\ \A n \in keep : buses'[n] = buses[n]
  BY <1>1
<1>4. IsFiniteSet(clients')
  <2>1. clients' \in SUBSET clients /\ IsFiniteSet(clients)
    BY <1>1 DEF Shape
  <2> QED BY <2>1, FS_Subset
<1>5. buses' = [n \in DOMAIN buses' |-> buses'[n]]
  BY <1>1
<1>6. /\ DOMAIN buses' \subseteq (0 .. MaxBus) \cup RootBuses
      /\ \A n \in RootBuses : n \in DOMAIN buses' /\ buses'[n] = Root(n)
  BY <1>1, <1>3 DEF Shape
<1>7. ASSUME NEW n \in DOMAIN buses'
      PROVE  /\ buses'[n] \in Seq(Nat \X Nat) /\ Len(buses'[n]) > 0
             /\ n \in RootBuses' \/ BelowRootMux(buses[n])'
  <2>1. n \in DOMAIN buses /\ buses'[n] = buses[n]
    BY <1>1, <1>3
  <2>2. /\ buses[n] \in Seq(Nat \X Nat) /\ Len(buses[n]) > 0
        /\ n \in RootBuses \/ BelowRootMux(buses[n])
    BY <2>1 DEF Shape
  <2> QED BY <1>2, <2>1, <2>2, Zenon DEF BelowRootMux
<1>8. ASSUME NEW c \in clients'
      PROVE  \E n \in DOMAIN buses' : c.at = buses'[n] /\ MayBeOn(n, c.addr, c.chip)'
  <2>1. c \in clients /\ HangsOn(c, buses')
    BY <1>1
  <2>2. PICK m \in keep : buses[m] = c.at
    BY <1>3, <2>1, Zenon DEF HangsOn
  <2>3. PICK n \in DOMAIN buses : c.at = buses[n] /\ MayBeOn(n, c.addr, c.chip)
    BY <2>1 DEF Shape
  <2>4. n \in keep
    BY <1>1, <2>2, <2>3
  <2>5. MayBeOn(n, c.addr, c.chip)'
    BY <1>2, <2>3, Zenon DEF MayBeOn
  <2> QED BY <1>3, <2>3, <2>4, <2>5
<1> QED BY <1>2, <1>4, <1>5, <1>6, <1>7, <1>8, Zenon DEF Shape

(* Deleting devices and unloading a driver shrinks the tree.               *)
LEMMA DoShrinks ==
    ASSUME Shape, NEW l, l.op # "new", Do(l)
    PROVE  Shrunk
<1>0. \A n \in RootBuses : n \in DOMAIN buses /\ buses[n] = Root(n) /\ Len(buses[n]) = 1
  <2>1. \A n : Len(Root(n)) = 1
    BY DEF Root
  <2> QED BY <2>1 DEF Shape
<1>1. CASE Take(l)
  <2> DEFINE keep == {n \in DOMAIN buses : \A p \in Targets(l) : ~ Below(buses[n], p, l.addr)}
  <2>1. \A p \in Targets(l) : Len(p) > 0 /\ Len(p) \in Nat
    BY DEF Targets, PathExists, Shape
  <2>2. RootBuses \subseteq keep
    BY <1>0, <2>1 DEF Below
  <2>3. \A n \in keep, m \in DOMAIN buses : buses[n] = buses[m] => m \in keep
    OBVIOUS
  <2>4. /\ buses' = [n \in keep |-> buses[n]]
        /\ clients' \subseteq {c \in clients : HangsOn(c, buses')}
    BY <1>1 DEF Take
  <2>5. keep \in SUBSET DOMAIN buses
    OBVIOUS
  <2> HIDE DEF keep
  <2> QED BY <2>2, <2>3, <2>4, <2>5 DEF Shrunk
<1>2. CASE Drop(l)
  <2> DEFINE keep == IF "mux" \in drivers' THEN DOMAIN buses
                     ELSE {n \in DOMAIN buses : Len(buses[n]) = 1}
  <2>1. RootBuses \subseteq keep
    BY <1>0
  <2>2. \A n \in keep, m \in DOMAIN buses : buses[n] = buses[m] => m \in keep
    OBVIOUS
  <2>3. buses = [n \in DOMAIN buses |-> buses[n]]
    BY DEF Shape
  <2>4. /\ buses' = [n \in keep |-> buses[n]]
        /\ clients' \subseteq {c \in clients : HangsOn(c, buses')}
    BY <1>2, <2>3 DEF Drop
  <2>5. keep \in SUBSET DOMAIN buses
    OBVIOUS
  <2> HIDE DEF keep
  <2> QED BY <2>1, <2>2, <2>4, <2>5 DEF Shrunk
<1> QED BY <1>1, <1>2 DEF Do, Add

(* The channels of a mux lie below a mux on a bus of boot.                 *)
LEMMA PlaceBelow ==
    ASSUME Shape, NEW m \in DOMAIN buses, NEW a, NEW k \in Nat, MayBeOn(m, a, "mux")
    PROVE  /\ Append(buses[m], <<a, k>>) \in Seq(Nat \X Nat)
           /\ Len(Append(buses[m], <<a, k>>)) > 0
           /\ BelowRootMux(Append(buses[m], <<a, k>>))
<1> DEFINE p == buses[m]
           q == Append(p, <<a, k>>)
<1>1. p \in Seq(Nat \X Nat) /\ Len(p) > 0 /\ <<a, k>> \in Nat \X Nat
  BY DEF Shape, MayBeOn
<1>2. m \in RootBuses => p = Root(m) /\ <<m, a>> \in RootMuxes
  BY DEF Shape, MayBeOn
<1>3. m \in RootBuses \/ BelowRootMux(p)
  BY DEF Shape
<1> HIDE DEF p
<1>4. /\ q \in Seq(Nat \X Nat) /\ Len(q) = Len(p) + 1 /\ Len(p) \in Nat
      /\ \A i \in 1 .. Len(p) : q[i] = p[i]
      /\ q[Len(p) + 1] = <<a, k>>
  BY <1>1, AppendProperties, LenProperties
<1> HIDE DEF q
<1>5. Len(q) > 0
  BY <1>1, <1>4
<1>6. BelowRootMux(q)
  <2>1. CASE m \in RootBuses
    <3>1. Len(p) = 1 /\ p[1] = <<m, 0>>
      BY <1>2, <2>1 DEF Root
    <3>2. Len(q) > 1 /\ q[1] = <<m, 0>> /\ q[2] = <<a, k>>
      BY <1>4, <3>1
    <3> QED BY <1>2, <2>1, <3>2 DEF BelowRootMux
  <2>2. CASE BelowRootMux(p)
    <3>1. Len(p) > 1
      BY <2>2 DEF BelowRootMux
    <3>2. Len(q) > 1 /\ 1 \in 1 .. Len(p) /\ 2 \in 1 .. Len(p)
      BY <1>4, <3>1
    <3>3. Len(q) > 1 /\ q[1] = p[1] /\ q[2] = p[2]
      BY <1>4, <3>2
    <3> QED BY <2>2, <3>3, Zenon DEF BelowRootMux
  <2> QED BY <1>3, <2>1, <2>2
<1> QED BY <1>4, <1>5, <1>6 DEF q, p

(* The devices of some set may be where they are.                          *)
Placed(devices) ==
    \A c \in devices : \E n \in DOMAIN buses : c.at = buses[n] /\ MayBeOn(n, c.addr, c.chip)

(* New devices and the channels of muxes keep the shape.                   *)
LEMMA GrownShape ==
    ASSUME Shape, UNCHANGED machine, NEW new, IsFiniteSet(new), Placed(new),
           clients' = clients \cup new,
           \/ buses' = buses
           \/ \E devices : devices \subseteq clients' /\ IsFiniteSet(devices) /\ ProbeMuxes(devices)
    PROVE  Shape'
<1>1. /\ platform' = platform /\ devnum' = devnum /\ RootBuses' = RootBuses
      /\ RootMuxes' = RootMuxes /\ BoardMuxes' = BoardMuxes
  BY SameMachine DEF machine
<1>2. Placed(clients \cup new)
  BY DEF Shape, Placed
<1>3. /\ buses' = [n \in DOMAIN buses' |-> buses'[n]]
      /\ DOMAIN buses \subseteq DOMAIN buses'
      /\ DOMAIN buses' \subseteq DOMAIN buses \cup (0 .. MaxBus)
      /\ \A n \in DOMAIN buses : buses'[n] = buses[n]
      /\ \A n \in DOMAIN buses' \ DOMAIN buses : \E c \in clients \cup new, k \in Nat :
            c.chip = "mux" /\ buses'[n] = Append(c.at, <<c.addr, k>>)
  <2>1. CASE buses' = buses
    BY <2>1, Zenon DEF Shape
  <2>2. CASE \E devices : /\ devices \subseteq clients' /\ IsFiniteSet(devices)
                          /\ ProbeMuxes(devices)
    <3>1. PICK devices : /\ devices \subseteq clients' /\ IsFiniteSet(devices)
                         /\ ProbeMuxes(devices)
      BY <2>2
    <3>2. \A n \in DOMAIN buses' \ DOMAIN buses : \E c \in devices, k \in Nat :
              c.chip = "mux" /\ buses'[n] = Append(c.at, <<c.addr, k>>)
      BY <3>1, Probed
    <3>3. devices \subseteq clients \cup new
      BY <3>1
    <3> QED BY <3>1, <3>2, <3>3, Probed
  <2> QED BY <2>1, <2>2
<1>4. IsFiniteSet(clients')
  BY FS_Union DEF Shape
<1>5. /\ DOMAIN buses' \subseteq (0 .. MaxBus) \cup RootBuses
      /\ \A n \in RootBuses : n \in DOMAIN buses' /\ buses'[n] = Root(n)
  BY <1>3 DEF Shape
<1>6. ASSUME NEW n \in DOMAIN buses'
      PROVE  /\ buses'[n] \in Seq(Nat \X Nat) /\ Len(buses'[n]) > 0
             /\ n \in RootBuses' \/ BelowRootMux(buses[n])'
  <2>1. CASE n \in DOMAIN buses
    <3>1. buses'[n] = buses[n]
      BY <1>3, <2>1
    <3>2. /\ buses[n] \in Seq(Nat \X Nat) /\ Len(buses[n]) > 0
          /\ n \in RootBuses \/ BelowRootMux(buses[n])
      BY <2>1 DEF Shape
    <3> QED BY <1>1, <3>1, <3>2, Zenon DEF BelowRootMux
  <2>2. CASE n \notin DOMAIN buses
    <3>1. PICK c \in clients \cup new, k \in Nat :
              c.chip = "mux" /\ buses'[n] = Append(c.at, <<c.addr, k>>)
      BY <1>3, <2>2
    <3>2. PICK m \in DOMAIN buses : c.at = buses[m] /\ MayBeOn(m, c.addr, "mux")
      BY <1>2, <3>1 DEF Placed
    <3> DEFINE q == Append(buses[m], <<c.addr, k>>)
    <3>3. q \in Seq(Nat \X Nat) /\ Len(q) > 0 /\ BelowRootMux(q)
      BY <3>2, PlaceBelow, Zenon
    <3>4. buses'[n] = q
      BY <3>1, <3>2
    <3> HIDE DEF q
    <3> QED BY <1>1, <3>3, <3>4, Zenon DEF BelowRootMux
  <2> QED BY <2>1, <2>2
<1>7. ASSUME NEW c \in clients'
      PROVE  \E n \in DOMAIN buses' : c.at = buses'[n] /\ MayBeOn(n, c.addr, c.chip)'
  <2>1. PICK n \in DOMAIN buses : c.at = buses[n] /\ MayBeOn(n, c.addr, c.chip)
    BY <1>2 DEF Placed
  <2>2. MayBeOn(n, c.addr, c.chip)'
    BY <1>1, <2>1, Zenon DEF MayBeOn
  <2> QED BY <1>3, <2>1, <2>2
<1> QED BY <1>1, <1>3, <1>4, <1>5, <1>6, <1>7, Zenon DEF Shape

(* A line finds no more buses than it names.                               *)
LEMMA NewPlaced ==
    ASSUME Supported, Shape, NEW l, Fits(l)
    PROVE  IsFiniteSet(NewDevices(l)) /\ Placed(NewDevices(l))
<1>1. Targets(l) \subseteq {buses[n] : n \in l.on \cap DOMAIN buses}
  BY DEF Targets, PathExists
<1> DEFINE free == FreeAt(Targets(l), l.addr)
<1>2. free \subseteq Targets(l)
  BY DEF FreeAt
<1>3. NewDevices(l) = {[at |-> p, addr |-> l.addr, chip |-> l.chip] : p \in free}
  BY Zenon DEF NewDevices
<1> HIDE DEF free
<1>4. IsFiniteSet(DOMAIN buses)
  <2>1. PICK m \in Nat : m = MaxBus + 615
    BY PlatformsAssumption
  <2>2. DOMAIN buses \subseteq (0 .. MaxBus) \cup RootBuses
    BY DEF Shape
  <2>3. DOMAIN buses \in SUBSET Nat /\ \A n \in DOMAIN buses : n <= m
    BY <2>1, <2>2, PlatformsAssumption DEF RootBuses
  <2> QED BY <2>3, FS_BoundedSetOfNaturals
<1>5. IsFiniteSet({buses[n] : n \in DOMAIN buses})
  <2> DEFINE T == {buses[n] : n \in DOMAIN buses}
             f == [n \in DOMAIN buses |-> buses[n]]
  <2>1. f \in Surjection(DOMAIN buses, T)
    BY DEF Surjection
  <2> QED BY <1>4, <2>1, FS_Surjection
<1>6. IsFiniteSet(free)
  <2>1. free \in SUBSET {buses[n] : n \in DOMAIN buses}
    BY <1>1, <1>2
  <2> QED BY <1>5, <2>1, FS_Subset
<1>7. IsFiniteSet(NewDevices(l))
  <2> DEFINE T == {[at |-> p, addr |-> l.addr, chip |-> l.chip] : p \in free}
             f == [p \in free |-> [at |-> p, addr |-> l.addr, chip |-> l.chip]]
  <2>1. f \in Surjection(free, T)
    BY DEF Surjection
  <2>2. IsFiniteSet(T)
    BY <1>6, <2>1, FS_Surjection
  <2> QED BY <1>3, <2>2
<1>8. ASSUME NEW c \in NewDevices(l)
      PROVE  \E n \in DOMAIN buses : c.at = buses[n] /\ MayBeOn(n, c.addr, c.chip)
  <2>1. PICK p \in free : c = [at |-> p, addr |-> l.addr, chip |-> l.chip]
    BY <1>3
  <2>2. PICK n \in l.on \cap DOMAIN buses : p = buses[n]
    BY <1>1, <1>2
  <2>3. MayBeOn(n, l.addr, l.chip)
    BY <2>2 DEF Fits
  <2>4. c.at = p /\ c.addr = l.addr /\ c.chip = l.chip
    BY <2>1
  <2> QED BY <2>2, <2>3, <2>4
<1> QED BY <1>7, <1>8 DEF Placed

(* A line that adds devices keeps the shape and loads no driver.           *)
LEMMA DoGrows ==
    ASSUME Supported, Shape, UNCHANGED machine, NEW l, l.op = "new", Fits(l), Do(l)
    PROVE  Shape' /\ drivers' = drivers
<1>1. Add(l) /\ UNCHANGED drivers
  BY DEF Do, Take, Drop
<1>2. IsFiniteSet(NewDevices(l)) /\ Placed(NewDevices(l))
  BY NewPlaced
<1>3. clients' = clients \cup NewDevices(l) /\ ProbeMuxes(NewDevices(l))
  BY <1>1 DEF Add
<1>4. NewDevices(l) \subseteq clients'
  BY <1>3
<1>5. \E devices : devices \subseteq clients' /\ IsFiniteSet(devices) /\ ProbeMuxes(devices)
  BY <1>2, <1>3, <1>4
<1>6. Shape'
  BY <1>2, <1>3, <1>5, GrownShape, Zenon
<1> QED BY <1>1, <1>6

-----------------------------------------------------------------------------
(* The steps of the scripts: types and shape of the tree *)

(* The machine is one of those the scripts are for.                        *)
LEMMA SupportedMachine ==
    ASSUME TypeOK
    PROVE  Supported
BY PlatformsAssumption DEF TypeOK, Supported

(* The line that runs is one of the script's.                              *)
LEMMA CurrentLine ==
    ASSUME TypeOK, Running
    PROVE  /\ script = "init" \/ script = "deinit"
           /\ script = "init" => Current \in Adding
           /\ script = "deinit" =>
                /\ Current \in Removing /\ line \in 1 .. Len(DeinitLines)
                /\ Current = DeinitLines[line] /\ Lines = DeinitLines
           /\ line + 1 \in 1 .. 20
<1>1. Supported /\ line \in 1 .. 20
  BY SupportedMachine DEF TypeOK
<1>2. script = "init" \/ script = "deinit"
  BY DEF TypeOK, Running
<1>3. ASSUME script = "init" PROVE Current \in Adding /\ line + 1 \in 1 .. 20
  <2>1. Lines = InitLines
    BY <1>3 DEF Lines
  <2>2. InitLines \in Seq(Adding) /\ Len(InitLines) \in 10 .. 19
    BY <1>1, InitLinesFit
  <2> DEFINE n == Len(InitLines)
  <2> HIDE DEF n
  <2>3. line <= n /\ n \in 10 .. 19
    BY <2>1, <2>2 DEF Running, n
  <2>4. line \in 1 .. n /\ line + 1 \in 1 .. 20
    BY <1>1, <2>3
  <2>5. InitLines[line] \in Adding
    BY <2>2, <2>4, ElementOfSeq DEF n
  <2> QED BY <2>1, <2>4, <2>5, Zenon DEF Current
<1>4. ASSUME script = "deinit"
      PROVE  /\ Current \in Removing /\ line \in 1 .. Len(DeinitLines)
             /\ Current = DeinitLines[line] /\ Lines = DeinitLines /\ line + 1 \in 1 .. 20
  <2>1. Lines = DeinitLines
    BY <1>4 DEF Lines
  <2>2. DeinitLines \in Seq(Removing) /\ Len(DeinitLines) \in 5 .. 19
    BY <1>1, DeinitLinesRemove
  <2> DEFINE n == Len(DeinitLines)
  <2> HIDE DEF n
  <2>3. line <= n /\ n \in 5 .. 19
    BY <2>1, <2>2 DEF Running, n
  <2>4. line \in 1 .. n /\ line + 1 \in 1 .. 20
    BY <1>1, <2>3
  <2>5. DeinitLines[line] \in Removing
    BY <2>2, <2>4, ElementOfSeq DEF n
  <2> QED BY <2>1, <2>4, <2>5, Zenon DEF Current, n
<1> QED BY <1>2, <1>3, <1>4, Zenon

(* A line that a fault cuts short does the same on fewer buses.            *)
LEMMA CutShort ==
    ASSUME NEW l, NEW on \in SUBSET l.on
    PROVE  /\ l \in Adding => /\ [l EXCEPT !.on = on].op = "new"
                              /\ Fits([l EXCEPT !.on = on])
           /\ l \in Removing => /\ [l EXCEPT !.on = on].op = l.op
                                /\ [l EXCEPT !.on = on].on = on
                                /\ [l EXCEPT !.on = on].chip = l.chip
<1> DEFINE m == [l EXCEPT !.on = on]
<1>1. ASSUME l \in Line
      PROVE  m.op = l.op /\ m.on = on /\ m.addr = l.addr /\ m.chip = l.chip
  BY <1>1 DEF Line
<1> HIDE DEF m
<1>2. l \in Adding => m.op = "new" /\ Fits(m)
  BY <1>1 DEF Adding, Fits
<1>3. l \in Removing => m.op = l.op /\ m.on = on /\ m.chip = l.chip
  BY <1>1 DEF Removing
<1> QED BY <1>2, <1>3 DEF m

LEMMA SameTree ==
    ASSUME Shape, UNCHANGED <<machine, buses, clients>>
    PROVE  Shape'
<1>1. IsFiniteSet({}) /\ Placed({}) /\ clients' = clients \cup {} /\ buses' = buses
  BY FS_EmptySet DEF Placed
<1> QED BY <1>1, GrownShape

(* A line of init, with or without a fault.                                *)
LEMMA InitLineStep ==
    ASSUME TypeOK, Shape, script = "init", Execute \/ Fault \/ Kill
    PROVE  Shape' /\ drivers' = drivers
<1>1. Supported /\ UNCHANGED machine /\ Running
  BY SupportedMachine DEF Execute, Fault, Kill
<1>2. Current \in Adding
  BY <1>1, CurrentLine
<1>3. CASE Execute
  BY <1>1, <1>2, <1>3, DoGrows DEF Execute, Adding
<1>4. ASSUME NEW on \in SUBSET Current.on, Do([Current EXCEPT !.on = on])
      PROVE  Shape' /\ drivers' = drivers
  BY <1>1, <1>2, <1>4, CutShort, DoGrows
<1>5. CASE Fault
  <2>1. CASE \E n \in Current.on : Do([Current EXCEPT !.on = @ \ {n}])
    <3>1. PICK n \in Current.on : Do([Current EXCEPT !.on = Current.on \ {n}])
      BY <2>1
    <3>2. Current.on \ {n} \in SUBSET Current.on
      OBVIOUS
    <3> QED BY <1>4, <3>1, <3>2
  <2>2. CASE UNCHANGED tree
    BY <1>1, <2>2, SameTree DEF tree
  <2>3. CASE clients' = clients \cup NewDevices(Current) /\ UNCHANGED <<buses, drivers>>
    <3>1. IsFiniteSet(NewDevices(Current)) /\ Placed(NewDevices(Current))
      BY <1>1, <1>2, NewPlaced DEF Adding
    <3> QED BY <1>1, <2>3, <3>1, GrownShape
  <2> QED BY <1>5, <2>1, <2>2, <2>3 DEF Fault
<1>6. CASE Kill
  <2>1. PICK n \in Current.on : Do([Current EXCEPT !.on = {m \in Current.on : m < n}])
    BY <1>6 DEF Kill
  <2>2. {m \in Current.on : m < n} \in SUBSET Current.on
    OBVIOUS
  <2> QED BY <1>4, <2>1, <2>2
<1> QED BY <1>3, <1>5, <1>6

(* A line of deinit, with or without a fault.  Only without one does a     *)
(* driver go.                                                              *)
LEMMA DeinitLineStep ==
    ASSUME TypeOK, Shape, script = "deinit", Execute \/ Fault \/ Kill
    PROVE  /\ Shrunk /\ drivers' \subseteq drivers
           /\ Fault \/ Kill \/ Current.op = "delete" => drivers' = drivers
<1>1. Supported /\ UNCHANGED machine /\ Running
  BY SupportedMachine DEF Execute, Fault, Kill
<1>2. Current \in Removing
  BY <1>1, CurrentLine
<1>3. Current.op # "new" /\ Current.op \in {"delete", "unload"}
  BY <1>2 DEF Removing
<1>4. CASE Execute
  <2>1. Do(Current) /\ faults' = faults
    BY <1>4 DEF Execute
  <2>2. ~ Fault /\ ~ Kill
    BY <2>1 DEF Fault, Kill, TypeOK
  <2>3. Shrunk
    BY <1>3, <2>1, DoShrinks
  <2>4. drivers' \subseteq drivers /\ (Current.op = "delete" => drivers' = drivers)
    BY <1>3, <2>1 DEF Do, Take, Drop, Add
  <2> QED BY <2>2, <2>3, <2>4
<1>5. ASSUME NEW on \in SUBSET Current.on, Do([Current EXCEPT !.on = on]),
             Current.op = "unload" => on = {}
      PROVE  Shrunk /\ drivers' = drivers
  <2> DEFINE l == [Current EXCEPT !.on = on]
  <2>1. l.op = Current.op /\ l.on = on
    BY <1>2, CutShort
  <2> HIDE DEF l
  <2>2. Do(l)
    BY <1>5 DEF l
  <2>3. Shrunk
    BY <1>3, <2>1, <2>2, DoShrinks
  <2>4. drivers' = drivers
    BY <1>5, <2>1, <2>2 DEF Do, Take, Drop, Add
  <2> QED BY <2>3, <2>4
<1>6. Current.op = "unload" => Current.on = {0}
  BY <1>2 DEF Removing
<1>7. CASE Fault
  <2>1. CASE \E n \in Current.on : Do([Current EXCEPT !.on = @ \ {n}])
    <3>1. PICK n \in Current.on : Do([Current EXCEPT !.on = Current.on \ {n}])
      BY <2>1
    <3>2. /\ Current.on \ {n} \in SUBSET Current.on
          /\ Current.op = "unload" => Current.on \ {n} = {}
      BY <1>6, <3>1
    <3> QED BY <1>5, <3>1, <3>2
  <2>2. CASE UNCHANGED tree
    <3> DEFINE keep == DOMAIN buses
    <3>1. /\ keep \in SUBSET DOMAIN buses /\ RootBuses \subseteq keep
          /\ \A n \in keep, m \in DOMAIN buses : buses[n] = buses[m] => m \in keep
      BY DEF Shape
    <3>2. buses' = [n \in keep |-> buses[n]]
      BY <2>2 DEF Shape, tree
    <3>3. clients' \subseteq {c \in clients : HangsOn(c, buses')}
      BY <2>2 DEF Shape, HangsOn, tree
    <3>4. drivers' = drivers
      BY <2>2 DEF tree
    <3> HIDE DEF keep
    <3> QED BY <3>1, <3>2, <3>3, <3>4 DEF Shrunk
  <2> QED BY <1>3, <1>7, <2>1, <2>2 DEF Fault
<1>8. CASE Kill
  <2>1. PICK n \in Current.on : Do([Current EXCEPT !.on = {m \in Current.on : m < n}])
    BY <1>8 DEF Kill
  <2>2. /\ {m \in Current.on : m < n} \in SUBSET Current.on
        /\ Current.op = "unload" => {m \in Current.on : m < n} = {}
    BY <1>6, <2>1
  <2> QED BY <1>5, <2>1, <2>2
<1> QED BY <1>4, <1>7, <1>8

(* Loading the mux driver gives channels to the muxes that are left.       *)
LEMMA StartInitShape ==
    ASSUME Shape, StartInit
    PROVE  Shape'
<1>1. UNCHANGED machine /\ clients' = clients /\ (buses' = buses \/ ProbeMuxes(clients))
  BY DEF StartInit
<1>2. IsFiniteSet({}) /\ Placed({}) /\ clients' = clients \cup {}
  BY <1>1, FS_EmptySet DEF Placed
<1>3. IsFiniteSet(clients) /\ clients \subseteq clients'
  BY <1>1 DEF Shape
<1>4. \/ buses' = buses
      \/ \E devices : /\ devices \subseteq clients' /\ IsFiniteSet(devices)
                      /\ ProbeMuxes(devices)
  BY <1>1, <1>3
<1> QED BY <1>1, <1>2, <1>4, GrownShape, Zenon

(* Every step keeps the shape and the types.                               *)
LEMMA ShapeStep ==
    ASSUME TypeOK, Shape, [Next]_vars
    PROVE  Shape'
<1>1. CASE StartInit
  BY <1>1, StartInitShape
<1>2. CASE StartDeinit \/ FinishInit \/ FinishDeinit \/ UNCHANGED vars
  <2>1. UNCHANGED <<machine, buses, clients>>
    BY <1>2 DEF StartDeinit, FinishInit, FinishDeinit, vars, tree
  <2> QED BY <2>1, SameTree
<1>3. CASE Execute \/ Fault \/ Kill
  <2>1. Running /\ UNCHANGED machine
    BY <1>3 DEF Execute, Fault, Kill
  <2>2. CASE script = "init"
    BY <1>3, <2>2, InitLineStep
  <2>3. CASE script = "deinit"
    <3>1. Shrunk
      BY <1>3, <2>3, DeinitLineStep
    <3> QED BY <2>1, <3>1, ShrunkShape
  <2> QED BY <2>1, <2>2, <2>3, CurrentLine
<1> QED BY <1>1, <1>2, <1>3 DEF Next

LEMMA TypeStep ==
    ASSUME TypeOK, Shape, Shape', [Next]_vars
    PROVE  TypeOK'
<1>1. platform' = platform /\ devnum' = devnum /\ missing' = missing
  BY DEF Next, StartInit, StartDeinit, Execute, Fault, Kill, FinishInit, FinishDeinit,
     vars, machine
<1>2. DOMAIN buses' \subseteq (0 .. MaxBus) \cup RootBuses'
  BY DEF Shape
<1>3. \A c \in clients' : c.at \in {buses'[n] : n \in DOMAIN buses'}
  BY DEF Shape
<1>4. /\ drivers' \subseteq {"mux", "cpld"} /\ script' \in {"none", "init", "deinit"}
      /\ line' \in 1 .. 20 /\ faults' \in 0 .. MaxFaults /\ spoiled' \in BOOLEAN
      /\ last' \in {"down", "up", "undone", "redone", "unknown"}
  <2>1. CASE StartInit
    BY <2>1 DEF StartInit, TypeOK
  <2>2. CASE StartDeinit
    <3>1. spoiled' \in BOOLEAN
      BY <2>2, Zenon DEF StartDeinit
    <3> QED BY <2>2, <3>1 DEF StartDeinit, TypeOK, tree
  <2>3. CASE Execute \/ Fault \/ Kill
    <3>1. Running
      BY <2>3 DEF Execute, Fault, Kill
    <3>2. drivers' \subseteq drivers
      BY <2>3, <3>1, InitLineStep, DeinitLineStep, CurrentLine
    <3>3. line + 1 \in 1 .. 20
      BY <3>1, CurrentLine
    <3>4. CASE Execute
      BY <3>2, <3>3, <3>4 DEF Execute, TypeOK
    <3>5. CASE Fault
      <4>1. faults' \in 0 .. MaxFaults
        BY <3>5, PlatformsAssumption DEF Fault, TypeOK
      <4> QED BY <3>2, <3>3, <3>5, <4>1 DEF Fault, TypeOK
    <3>6. CASE Kill
      <4>1. faults' \in 0 .. MaxFaults
        BY <3>6, PlatformsAssumption DEF Kill, TypeOK
      <4> QED BY <3>2, <3>6, <4>1 DEF Kill, TypeOK
    <3> QED BY <2>3, <3>4, <3>5, <3>6
  <2>4. CASE FinishInit
    BY <2>4 DEF FinishInit, TypeOK, tree
  <2>5. CASE FinishDeinit
    BY <2>5 DEF FinishDeinit, TypeOK, tree
  <2>6. CASE UNCHANGED vars
    BY <2>6 DEF TypeOK, vars, tree, run
  <2> QED BY <2>1, <2>2, <2>3, <2>4, <2>5, <2>6 DEF Next
<1>5. platform' \in Platforms /\ devnum' \in {0, 1} /\ missing' \subseteq 6 .. 9
  BY <1>1 DEF TypeOK
<1> QED BY <1>2, <1>3, <1>4, <1>5 DEF TypeOK

LEMMA InitialTree ==
    ASSUME Init
    PROVE  TypeOK /\ Shape
<1>1. RootBuses \subseteq Nat /\ \A n \in RootBuses : Root(n) \in Seq(Nat \X Nat)
  <2>1. RootBuses \subseteq Nat
    BY DEF RootBuses
  <2>2. \A n \in Nat : Root(n) \in Seq(Nat \X Nat)
    BY DEF Root
  <2> QED BY <2>1, <2>2
<1>2. \A n : Len(Root(n)) = 1
  BY DEF Root
<1>3. /\ buses = [n \in RootBuses |-> Root(n)] /\ clients = {}
      /\ DOMAIN buses = RootBuses /\ \A n \in RootBuses : buses[n] = Root(n)
  BY DEF Init
<1>4. Shape
  <2>1. IsFiniteSet(clients) /\ buses = [n \in DOMAIN buses |-> buses[n]]
    BY <1>3, FS_EmptySet
  <2>2. \A n \in DOMAIN buses : buses[n] \in Seq(Nat \X Nat) /\ Len(buses[n]) > 0
    <3>1. \A n : Len(Root(n)) > 0
      BY <1>2
    <3> QED BY <1>1, <1>3, <3>1, Zenon
  <2> QED BY <1>3, <2>1, <2>2 DEF Shape
<1>5. TypeOK
  <2>1. spoiled \in BOOLEAN
    BY Zenon DEF Init
  <2>2. platform \in Platforms /\ devnum \in {0, 1} /\ missing \subseteq 6 .. 9
    BY DEF Init
  <2>3. DOMAIN buses \subseteq (0 .. MaxBus) \cup RootBuses
    BY <1>3
  <2>4. faults \in 0 .. MaxFaults
    BY PlatformsAssumption DEF Init
  <2> QED BY <1>3, <2>1, <2>2, <2>3, <2>4 DEF Init, TypeOK
<1> QED BY <1>4, <1>5

(* Whatever the scripts and their faults did, the buses of boot are in     *)
(* place, every other bus is below one of the muxes that init puts on them *)
(* first, each device is on a bus that is there, and CPLDs are on i2c-14   *)
(* to i2c-17 only: a deletion of those muxes reaches everything.           *)
THEOREM TreeIsRooted == Spec => [](TypeOK /\ Shape)
<1>1. Init => TypeOK /\ Shape
  BY InitialTree
<1>2. TypeOK /\ Shape /\ [Next]_vars => (TypeOK /\ Shape)'
  BY ShapeStep, TypeStep
<1> QED BY <1>1, <1>2, PTL DEF Spec

(* Type correctness, for every bound on bus numbers and on faults; part of *)
(* it is that no device outlives the bus it is on.                         *)
THEOREM TypeCorrect == Spec => []TypeOK
BY TreeIsRooted, PTL

-----------------------------------------------------------------------------
(* A deinit without a fault takes the tree down *)

(* What is gone stays gone while the tree shrinks.                         *)
LEMMA ShrunkGone ==
    ASSUME Shrunk, NEW r, NEW a, Gone(r, a)
    PROVE  Gone(r, a)'
<1>1. /\ clients' \subseteq clients
      /\ DOMAIN buses' \subseteq DOMAIN buses /\ \A n \in DOMAIN buses' : buses'[n] = buses[n]
  BY DEF Shrunk
<1> QED BY <1>1 DEF Gone

(* The part of a sequence that has one element.                            *)
LEMMA OneOf ==
    ASSUME NEW S, NEW q, NEW m \in Int, NEW n \in Int, n = m, \A i \in m .. n : q[i] \in S
    PROVE  SubSeq(q, m, n) = << q[m] >>
<1>0. \A i \in m .. n : q[i] \in S
  OBVIOUS
<1>1. /\ SubSeq(q, m, n) \in Seq(S)
      /\ Len(SubSeq(q, m, n)) = IF m <= n THEN n - m + 1 ELSE 0
      /\ \A i \in 1 .. n - m + 1 : SubSeq(q, m, n)[i] = q[m + i - 1]
  <2>1. SubSeq(q, m, n) \in Seq(S)
    BY ONLY <1>0, m \in Int, n \in Int, SubSeqProperties, SMTT(30)
  <2>2. Len(SubSeq(q, m, n)) = IF m <= n THEN n - m + 1 ELSE 0
    BY ONLY <1>0, m \in Int, n \in Int, SubSeqProperties, SMTT(30)
  <2>3. \A i \in 1 .. n - m + 1 : SubSeq(q, m, n)[i] = q[m + i - 1]
    BY ONLY <1>0, m \in Int, n \in Int, SubSeqProperties, SMTT(30)
  <2> QED BY <2>1, <2>2, <2>3
<1>4. /\ m <= n /\ n - m + 1 = 1 /\ m + 1 - 1 = m /\ m \in m .. n
      /\ 1 \in 1 .. n - m + 1
  OBVIOUS
<1> DEFINE s == SubSeq(q, m, n)
           t == << q[m] >>
<1>5. s \in Seq(S) /\ Len(s) = 1 /\ s[1] = q[m]
  <2>1. Len(s) = 1
    BY <1>1, <1>4, Zenon
  <2>2. s[1] = q[m]
    BY <1>1, <1>4
  <2> QED BY <1>1, <2>1, <2>2, Zenon
<1>6. t \in Seq(S) /\ Len(t) = 1 /\ t[1] = q[m]
  BY <1>4
<1> HIDE DEF s, t
<1>7. Len(s) = Len(t) /\ \A i \in 1 .. Len(s) : s[i] = t[i]
  BY <1>5, <1>6
<1>8. s = t
  BY <1>5, <1>6, <1>7, SeqEqual, Zenon
<1> QED BY <1>8 DEF s, t

(* The part of a place that is on the bus of boot.                         *)
LEMMA HeadOf ==
    ASSUME NEW q \in Seq(Nat \X Nat), Len(q) > 0
    PROVE  SubSeq(q, 1, 1) = << q[1] >>
<1>1. PICK m \in Int, k \in Int : m = 1 /\ k = 1
  OBVIOUS
<1>2. \A i \in m .. k : q[i] \in Nat \X Nat
  BY <1>1, ElementOfSeq, LenProperties
<1>3. SubSeq(q, m, k) = << q[m] >>
  <2>1. k = m
    BY <1>1
  <2> QED BY ONLY <1>2, <2>1, m \in Int, k \in Int, OneOf, ZenonT(60)
<1> QED BY <1>1, <1>3

(* What is below a device on a bus of boot, by its first two parts.        *)
LEMMA BelowRoot ==
    ASSUME NEW q \in Seq(Nat \X Nat), NEW r, NEW a
    PROVE  Below(q, Root(r), a) <=> Len(q) > 1 /\ q[1] = <<r, 0>> /\ q[2][1] = a
<1>1. Len(Root(r)) = 1 /\ Root(r) = << <<r, 0>> >>
  BY DEF Root
<1>2. Len(q) > 1 => SubSeq(q, 1, 1) = << q[1] >>
  BY HeadOf
<1> QED BY <1>1, <1>2 DEF Below

(* The line that deletes a device on a bus of boot takes it away, with all *)
(* that hangs off it.                                                      *)
LEMMA DeletionTakes ==
    ASSUME Shape, NEW l, NEW r \in RootBuses, NEW a, DeletesOnly(l, r, a), Take(l)
    PROVE  Gone(r, a)'
<1>1. r \in DOMAIN buses /\ buses[r] = Root(r)
  BY DEF Shape
<1>2. PathExists(l, r)
  BY <1>1 DEF PathExists, DeletesOnly
<1>3. Targets(l) = {Root(r)}
  BY <1>1, <1>2 DEF Targets, DeletesOnly
<1>4. l.addr = a
  BY DEF DeletesOnly
<1>5. /\ DOMAIN buses' = {n \in DOMAIN buses : ~ Below(buses[n], Root(r), a)}
      /\ \A n \in DOMAIN buses' : buses'[n] = buses[n]
      /\ \A c \in clients' : ~ (c.addr = a /\ c.at = Root(r))
  BY <1>3, <1>4 DEF Take
<1>6. ASSUME NEW n \in DOMAIN buses', Len(buses'[n]) > 1,
             buses'[n][1] = <<r, 0>>, buses'[n][2][1] = a
      PROVE  FALSE
  <2> DEFINE q == buses[n]
  <2>1. q \in Seq(Nat \X Nat) /\ Len(q) > 1 /\ q[1] = <<r, 0>> /\ q[2][1] = a
    BY <1>5, <1>6 DEF Shape
  <2>2. ~ Below(q, Root(r), a)
    BY <1>5
  <2> HIDE DEF q
  <2> QED BY <2>1, <2>2, BelowRoot
<1> QED BY <1>5, <1>6 DEF Gone

(* A line that has been carried out stays carried out until deinit ends.   *)
LEMMA TakenDownStep ==
    ASSUME TypeOK, Shape, TakenDown, [Next]_vars
    PROVE  TakenDown'
<1>1. CASE StartInit \/ StartDeinit \/ Fault \/ Kill \/ FinishInit \/ FinishDeinit
  <2>1. script' # "deinit" \/ spoiled' \/ line' = 1
    BY <1>1 DEF StartInit, StartDeinit, Fault, Kill, FinishInit, FinishDeinit
  <2> QED BY <2>1 DEF TakenDown
<1>2. CASE Execute
  <2>1. Running /\ UNCHANGED machine /\ script' = script /\ spoiled' = spoiled /\ line' = line + 1
    BY <1>2 DEF Execute
  <2>2. SUFFICES ASSUME script = "deinit", ~ spoiled,
                        NEW k \in 1 .. Len(DeinitLines), NEW r \in RootBuses, NEW a \in Nat,
                        k < line + 1, DeletesOnly(DeinitLines[k], r, a)
                 PROVE  Gone(r, a)'
    BY <2>1, SameMachine DEF TakenDown, DeletesOnly
  <2>3. Current = DeinitLines[line] /\ line \in 1 .. Len(DeinitLines)
    BY <2>1, <2>2, CurrentLine
  <2>4. CASE k < line
    <3>1. Gone(r, a)
      BY <2>2, <2>4 DEF TakenDown
    <3>2. Shrunk
      BY <1>2, <2>2, DeinitLineStep
    <3> QED BY <3>1, <3>2, ShrunkGone
  <2>5. CASE k = line
    <3>1. DeletesOnly(Current, r, a) /\ Do(Current)
      BY <1>2, <2>2, <2>3, <2>5 DEF Execute
    <3>2. Take(Current)
      BY <3>1 DEF Do, Add, Drop, DeletesOnly
    <3> QED BY <3>1, <3>2, DeletionTakes
  <2>6. k < line \/ k = line
    <3>1. line \in 1 .. 20
      BY DEF TypeOK
    <3> QED BY <2>2, <3>1
  <2> QED BY <2>4, <2>5, <2>6
<1>3. CASE UNCHANGED vars
  <2>1. /\ UNCHANGED machine /\ clients' = clients /\ buses' = buses
        /\ script' = script /\ spoiled' = spoiled /\ line' = line
    BY <1>3 DEF vars, tree, run
  <2>2. ASSUME NEW r, NEW a, Gone(r, a) PROVE Gone(r, a)'
    BY <2>1, <2>2, Zenon DEF Gone
  <2> QED BY <2>1, <2>2, SameMachine, Zenon DEF TakenDown, DeletesOnly
<1> QED BY <1>1, <1>2, <1>3 DEF Next

(* When every line has been carried out nothing is left but the buses of   *)
(* boot.                                                                   *)
LEMMA NothingLeft ==
    ASSUME TypeOK, Shape, TakenDown, script = "deinit", ~ spoiled, line > Len(DeinitLines)
    PROVE  buses = [n \in RootBuses |-> Root(n)] /\ clients = {}
<1>0. Supported /\ line \in Nat
  BY SupportedMachine DEF TypeOK
<1>1. ASSUME NEW r, NEW a, <<r, a>> \in RootMuxes \/ (platform = "z9264f" /\ r = 0 /\ a = \h53)
      PROVE  Gone(r, a)
  <2>1. PICK k \in 1 .. Len(DeinitLines) : DeletesOnly(DeinitLines[k], r, a)
    BY <1>0, <1>1, DeinitDeletesEach
  <2>2. r \in RootBuses /\ a \in Nat
    BY <1>0, <1>1, DeinitDeletesEach
  <2>3. k < line
    <3>1. DeinitLines \in Seq(Removing) /\ Len(DeinitLines) \in Nat
      BY <1>0, DeinitLinesRemove
    <3> QED BY <1>0, <3>1
  <2> QED BY <2>1, <2>2, <2>3 DEF TakenDown
<1>2. ASSUME NEW n \in DOMAIN buses PROVE n \in RootBuses
  <2>1. SUFFICES ASSUME BelowRootMux(buses[n]) PROVE FALSE
    BY DEF Shape
  <2>2. PICK x \in RootMuxes : buses[n][1] = <<x[1], 0>> /\ buses[n][2][1] = x[2]
    BY <2>1 DEF BelowRootMux
  <2>3. x = <<x[1], x[2]>>
    BY <2>2 DEF RootMuxes
  <2>4. Gone(x[1], x[2])
    BY <1>1, <2>2, <2>3
  <2> QED BY <2>1, <2>2, <2>4 DEF Gone, BelowRootMux
<1>3. buses = [n \in RootBuses |-> Root(n)]
  <2>1. DOMAIN buses = RootBuses /\ \A n \in RootBuses : buses[n] = Root(n)
    BY <1>2 DEF Shape
  <2> QED BY <2>1 DEF Shape
<1>4. ASSUME NEW c \in clients PROVE FALSE
  <2>1. PICK n \in DOMAIN buses : c.at = buses[n] /\ MayBeOn(n, c.addr, c.chip)
    BY DEF Shape
  <2>2. n \in RootBuses /\ c.at = Root(n)
    BY <1>2, <2>1 DEF Shape
  <2>3. <<n, c.addr>> \in RootMuxes \/ (platform = "z9264f" /\ n = 0 /\ c.addr = \h53)
    BY <2>1, <2>2 DEF MayBeOn
  <2>4. Gone(n, c.addr)
    BY <1>1, <2>3
  <2> QED BY <2>2, <2>4 DEF Gone
<1> QED BY <1>3, <1>4

LEMMA RestoresStep ==
    ASSUME TypeOK, Shape, TakenDown, DeinitRestores, [Next]_vars
    PROVE  DeinitRestores'
<1>1. CASE StartInit \/ StartDeinit \/ Execute \/ Fault \/ Kill \/ FinishInit
  <2>1. script' # "none" \/ last' # "down"
    BY <1>1 DEF StartInit, StartDeinit, Execute, Fault, Kill, FinishInit, Running
  <2> QED BY <2>1 DEF DeinitRestores
<1>2. CASE FinishDeinit
  <2>1. SUFFICES ASSUME ~ spoiled
                 PROVE  buses' = [n \in RootBuses' |-> Root(n)] /\ clients' = {}
    BY <1>2 DEF FinishDeinit, DeinitRestores
  <2>2. script = "deinit" /\ line > Len(DeinitLines) /\ UNCHANGED <<machine, tree>>
    BY <1>2 DEF FinishDeinit, Lines
  <2>3. buses' = buses /\ clients' = clients /\ RootBuses' = RootBuses
    BY <2>2, SameMachine DEF tree
  <2> QED BY <2>1, <2>2, <2>3, NothingLeft
<1>3. CASE UNCHANGED vars
  <2>1. /\ RootBuses' = RootBuses /\ clients' = clients /\ buses' = buses
        /\ script' = script /\ last' = last
    BY <1>3, SameMachine DEF vars, tree, run
  <2> QED BY <2>1 DEF DeinitRestores
<1> QED BY <1>1, <1>2, <1>3 DEF Next

(* A deinit that meets no fault leaves the tree as it was at boot, however *)
(* many commands failed and scripts were killed before it: its lines name  *)
(* every device that can be on a bus of boot, and the rest goes with them. *)
THEOREM DeinitCleans == Spec => []DeinitRestores
<1>1. Init => TypeOK /\ Shape /\ TakenDown /\ DeinitRestores
  <2>1. Init => TakenDown /\ DeinitRestores
    BY DEF Init, TakenDown, DeinitRestores
  <2> QED BY <2>1, InitialTree
<1>2. TypeOK /\ Shape /\ TakenDown /\ DeinitRestores /\ [Next]_vars
         => (TypeOK /\ Shape /\ TakenDown /\ DeinitRestores)'
  BY ShapeStep, TypeStep, TakenDownStep, RestoresStep
<1> QED BY <1>1, <1>2, PTL DEF Spec

-----------------------------------------------------------------------------
(* The numbers of a CPU board *)

(* A sequence of two, written out.                                         *)
LEMMA AppendToOne ==
    ASSUME NEW e \in Nat \X Nat, NEW f \in Nat \X Nat
    PROVE  Append(<<e>>, f) = <<e, f>>
<1> DEFINE q == Append(<<e>>, f)
           t == <<e, f>>
<1> DEFINE S == Nat \X Nat
<1>1. /\ <<e>> \in Seq(S) /\ Len(<<e>>) = 1 /\ <<e>>[1] = e
      /\ t \in Seq(S) /\ Len(t) = 2 /\ t[1] = e /\ t[2] = f
  OBVIOUS
<1>2. q \in Seq(S) /\ Len(q) = 2 /\ q[1] = e /\ q[2] = f
  BY <1>1, AppendProperties
<1> HIDE DEF q, t
<1>3. Len(q) = Len(t) /\ \A i \in 1 .. Len(q) : q[i] = t[i]
  BY <1>1, <1>2
<1>4. q = t
  BY <1>1, <1>2, <1>3, SeqEqual, Zenon
<1> QED BY <1>4 DEF q, t

(* Probing the CPU board's mux, or nothing, when there are no buses but    *)
(* those of boot.                                                           *)
LEMMA FirstProbing ==
    ASSUME Supported, NEW devices, IsFiniteSet(devices), ProbeMuxes(devices), DOMAIN buses = {0, 1},
           \A c \in devices : c.chip = "mux" =>
               c = [at |-> Root(devnum), addr |-> \h70, chip |-> "mux"]
    PROVE  \A n \in DOMAIN buses' \ {0, 1} :
              /\ n \in 2 .. 9 /\ buses'[n] = CpuPlace(n)
              /\ (2 .. 9) \cap (0 .. MaxBus) \subseteq DOMAIN buses'
              /\ [at |-> Root(devnum), addr |-> \h70, chip |-> "mux"] \in devices
<1> DEFINE M == {c \in devices : c.chip = "mux" /\ Answers(c.at)}
           cpu == [at |-> Root(devnum), addr |-> \h70, chip |-> "mux"]
           free    == (0 .. MaxBus) \ DOMAIN buses
           rank(n) == Cardinality({m \in free : m < n})
<1>1. PICK muxes \in SetToSeqs(M) : buses' = WithChannels(buses, muxes)
  BY DEF ProbeMuxes
<1> DEFINE new     == {n \in free : rank(n) < 8 * Len(muxes)}
           mux(n)  == muxes[(rank(n) \div 8) + 1]
<1>2. buses' = [n \in DOMAIN buses \cup new |->
                  IF n \in new THEN Append(mux(n).at, <<mux(n).addr, (rank(n) % 8) + 1>>)
                               ELSE buses[n]]
  BY <1>1, Zenon DEF WithChannels
<1>3. ASSUME NEW n \in free PROVE n \in 2 .. MaxBus /\ rank(n) = n - 2
  <2>1. n \in 2 .. MaxBus /\ n - 1 \in Int /\ 2 \in Int
    BY PlatformsAssumption
  <2>2. {m \in free : m < n} = 2 .. (n - 1)
    BY <2>1, PlatformsAssumption
  <2>3. Cardinality(2 .. (n - 1)) = IF 2 > n - 1 THEN 0 ELSE (n - 1) - 2 + 1
    BY <2>1, FS_Interval
  <2>4. Cardinality(2 .. (n - 1)) = n - 2
    BY <2>1, <2>3
  <2>5. rank(n) = Cardinality(2 .. (n - 1))
    BY <2>2, Zenon
  <2> QED BY <2>1, <2>4, <2>5
<1>4. M \subseteq {cpu}
  OBVIOUS
<1>5. CASE M = {}
  <2>1. Cardinality(M) = 0
    BY <1>5, FS_EmptySet
  <2>2. muxes \in [1 .. 0 -> M]
    BY <1>1, <2>1, Zenon DEF SetToSeqs
  <2>3. muxes \in Seq(M) /\ Len(muxes) = 0
    BY <2>2, SeqDef, LenProperties
  <2>4. new = {}
    BY <1>3, <2>3
  <2>5. DOMAIN buses' = {0, 1}
    BY <1>2, <2>4
  <2> QED BY <2>5
<1>6. CASE M = {cpu}
  <2>1. Cardinality(M) = 1
    BY <1>6, FS_Singleton
  <2>2. muxes \in [1 .. 1 -> M]
    BY <1>1, <2>1, Zenon DEF SetToSeqs
  <2>3. muxes \in Seq(M)
    BY <2>2, SeqDef
  <2>4. Len(muxes) = 1 /\ muxes[1] = cpu
    BY <1>6, <2>2, <2>3, LenProperties
  <2>5. new = (2 .. 9) \cap (0 .. MaxBus)
    BY <1>3, <2>4, PlatformsAssumption
  <2>6. DOMAIN buses' = {0, 1} \cup ((2 .. 9) \cap (0 .. MaxBus))
    BY <1>2, <2>5
  <2>7. ASSUME NEW n \in DOMAIN buses' \ {0, 1} PROVE n \in 2 .. 9 /\ buses'[n] = CpuPlace(n)
    <3>1. n \in 2 .. 9 /\ n \in new /\ n \in free
      BY <2>5, <2>6
    <3>2. rank(n) = n - 2
      BY <1>3, <3>1
    <3> HIDE DEF rank
    <3>3. (rank(n) \div 8) + 1 = 1 /\ (rank(n) % 8) + 1 = n - 1
      BY <3>1, <3>2
    <3>4. mux(n) = cpu
      BY <2>4, <3>3
    <3> HIDE DEF mux, new, cpu
    <3>5. buses'[n] = Append(cpu.at, <<cpu.addr, n - 1>>)
      BY <1>2, <3>1, <3>3, <3>4
    <3>6. cpu.at = << <<devnum, 0>> >> /\ cpu.addr = \h70
      BY DEF cpu, Root
    <3>7. Append(<< <<devnum, 0>> >>, <<\h70, n - 1>>) = CpuPlace(n)
      <4>1. <<devnum, 0>> \in Nat \X Nat /\ <<\h70, n - 1>> \in Nat \X Nat
        BY <3>1 DEF Supported
      <4> QED BY <4>1, AppendToOne, Zenon DEF CpuPlace
    <3> QED BY <3>1, <3>5, <3>6, <3>7, Zenon
  <2>8. cpu \in devices
    BY <1>6
  <2> QED BY <2>6, <2>7, <2>8
<1> QED BY <1>4, <1>5, <1>6

(* A place has one part or more. *)
LEMMA PlaceLength ==
    ASSUME Shape, NEW n \in DOMAIN buses
    PROVE  Len(buses[n]) \in Nat /\ (Len(buses[n]) > 1 <=> Len(buses[n]) # 1)
<1>1. Len(buses[n]) \in Nat /\ Len(buses[n]) > 0
  BY LenProperties DEF Shape
<1>2. \A k \in Nat : k > 0 => (k > 1 <=> k # 1)
  OBVIOUS
<1> QED BY <1>1, <1>2, Zenon

(* What a deletion leaves of a CPU board's tree: its mux with all its      *)
(* channels, or no channels at all.                                         *)
Cut ==
    \E keep \in SUBSET DOMAIN buses :
        /\ buses' = [n \in keep |-> buses[n]]
        /\ clients' \subseteq clients
        /\ \/ \A n \in keep : Len(buses[n]) = 1
           \/ /\ DOMAIN buses \cap (2 .. 9) \subseteq keep
              /\ \A c \in clients : c.at = Root(devnum) /\ c.addr = \h70 => c \in clients'
              /\ "mux" \in drivers => "mux" \in drivers'

LEMMA CutNumbered ==
    ASSUME Shape, Numbered, Cut, UNCHANGED machine, script' # "init"
    PROVE  Numbered'
<1>1. PICK keep \in SUBSET DOMAIN buses :
        /\ buses' = [n \in keep |-> buses[n]]
        /\ clients' \subseteq clients
        /\ \/ \A n \in keep : Len(buses[n]) = 1
           \/ /\ DOMAIN buses \cap (2 .. 9) \subseteq keep
              /\ \A c \in clients : c.at = Root(devnum) /\ c.addr = \h70 => c \in clients'
              /\ "mux" \in drivers => "mux" \in drivers'
  BY DEF Cut
<1>2. platform' = platform /\ devnum' = devnum /\ BoardMuxes' = BoardMuxes
  BY SameMachine DEF machine
<1>3. DOMAIN buses' = keep /\ \A n \in keep : n \in DOMAIN buses /\ buses'[n] = buses[n]
  BY <1>1
<1> SUFFICES ASSUME platform # "z9264f" PROVE Numbered'
  BY <1>2 DEF Numbered
<1>4. \A c \in clients' : c = [at |-> c.at, addr |-> c.addr, chip |-> c.chip]
  BY <1>1 DEF Numbered
<1>5. ASSUME NEW n \in DOMAIN buses', Len(buses'[n]) > 1
      PROVE  /\ CpuMuxAttached' /\ "mux" \in drivers'
             /\ (2 .. 9) \cap (0 .. MaxBus) \subseteq DOMAIN buses'
  <2>1. n \in keep /\ Len(buses[n]) > 1
    BY <1>3, <1>5
  <2>2. /\ DOMAIN buses \cap (2 .. 9) \subseteq keep
        /\ \A c \in clients : c.at = Root(devnum) /\ c.addr = \h70 => c \in clients'
        /\ "mux" \in drivers => "mux" \in drivers'
    <3>1. ~ \A m \in keep : Len(buses[m]) = 1
      <4>1. Len(buses[n]) # 1
        BY <2>1, PlaceLength, Zenon
      <4> QED BY <2>1, <4>1, Zenon
    <3> QED BY <1>1, <3>1, Zenon
  <2>3. /\ CpuMuxAttached /\ "mux" \in drivers
        /\ (2 .. 9) \cap (0 .. MaxBus) \subseteq DOMAIN buses
    BY <2>1 DEF Numbered
  <2>4. CpuMuxAttached'
    BY <1>2, <2>2, <2>3 DEF CpuMuxAttached, Root
  <2> QED BY <1>3, <2>2, <2>3, <2>4
<1>6. \A n \in DOMAIN buses' \cap (2 .. 9) : buses'[n] = CpuPlace(n)
  BY <1>3 DEF Numbered
<1>7. \A n \in DOMAIN buses' \ (0 .. 9) :
         \E x \in BoardMuxes, k \in Nat : buses'[n] = SwitchPlace(x, k)
  BY <1>3 DEF Numbered
<1>8. \A n, x, k : CpuPlace(n)' = CpuPlace(n) /\ SwitchPlace(x, k)' = SwitchPlace(x, k)
  BY <1>2 DEF CpuPlace, SwitchPlace
<1> QED BY <1>2, <1>4, <1>5, <1>6, <1>7, <1>8 DEF Numbered

(* The buses of boot are not what a line of deinit takes away.             *)
LEMMA RootsStay ==
    ASSUME Shape, NEW l
    PROVE  \A r \in RootBuses :
              /\ r \in DOMAIN buses /\ buses[r] = Root(r) /\ Len(buses[r]) = 1
              /\ \A p \in Targets(l) : ~ Below(buses[r], p, l.addr)
<1>1. \A n : Len(Root(n)) = 1
  BY DEF Root
<1>2. \A p \in Targets(l) : Len(p) > 0 /\ Len(p) \in Nat
  BY DEF Targets, PathExists, Shape
<1> QED BY <1>1, <1>2 DEF Shape, Below

(* Deleting devices and unloading a driver cuts a tree.                    *)
LEMMA DoCuts ==
    ASSUME Supported, platform # "z9264f", Shape, Numbered, NEW l, l.op # "new", Do(l)
    PROVE  Cut
<1>1. devnum \in RootBuses /\ RootMuxes = {<<devnum, \h70>>}
  BY DEF Supported, RootBuses, RootMuxes
<1>2. \A n \in DOMAIN buses : Len(buses[n]) > 1 => Below(buses[n], Root(devnum), \h70)
  <2>1. ASSUME NEW n \in DOMAIN buses, Len(buses[n]) > 1
        PROVE  Below(buses[n], Root(devnum), \h70)
    <3>1. n \notin RootBuses
      <4>1. Len(buses[n]) # 1
        BY <2>1, PlaceLength, Zenon
      <4>2. \A r \in RootBuses : Len(buses[r]) = 1
        BY RootsStay
      <4> QED BY <4>1, <4>2, Zenon
    <3>2. buses[n] \in Seq(Nat \X Nat) /\ BelowRootMux(buses[n])
      BY <3>1 DEF Shape
    <3>3. Len(buses[n]) > 1 /\ buses[n][1] = <<devnum, 0>> /\ buses[n][2][1] = \h70
      BY <1>1, <3>2 DEF BelowRootMux
    <3> QED BY <3>2, <3>3, BelowRoot
  <2> QED BY <2>1
<1>3. CASE Take(l) /\ UNCHANGED drivers
  <2> DEFINE keep == {n \in DOMAIN buses : \A p \in Targets(l) : ~ Below(buses[n], p, l.addr)}
  <2>1. /\ keep \in SUBSET DOMAIN buses
        /\ buses' = [n \in keep |-> buses[n]]
        /\ clients' = {c \in clients : ~ (c.addr = l.addr /\ c.at \in Targets(l))
                                       /\ HangsOn(c, buses')}
    BY <1>3 DEF Take
  <2>3. CASE Root(devnum) \in Targets(l) /\ l.addr = \h70
    <3>1. ASSUME NEW n \in keep PROVE Len(buses[n]) = 1
      <4>1. n \in DOMAIN buses /\ ~ Below(buses[n], Root(devnum), \h70)
        BY <2>3
      <4> HIDE DEF keep
      <4> QED BY <1>2, <4>1, PlaceLength, Zenon
    <3> HIDE DEF keep
    <3> QED BY <2>1, <3>1 DEF Cut
  <2>4. CASE ~ (Root(devnum) \in Targets(l) /\ l.addr = \h70)
    <3>1. ASSUME NEW n \in DOMAIN buses \cap (2 .. 9) PROVE n \in keep
      <4>1. ASSUME NEW p \in Targets(l), Below(CpuPlace(n), p, l.addr) PROVE FALSE
        <5>1. p \in Seq(Nat \X Nat) /\ Len(p) > 0
          BY DEF Targets, PathExists, Shape
        <5>2. Len(CpuPlace(n)) = 2 /\ CpuPlace(n)[2][1] = \h70
          BY DEF CpuPlace
        <5>3. Len(p) = 1 /\ SubSeq(CpuPlace(n), 1, 1) = p /\ l.addr = \h70
          <6>1. Len(p) \in Nat /\ 2 > Len(p)
            BY <4>1, <5>1, <5>2, LenProperties DEF Below
          <6>5. \A k \in Nat : k > 0 /\ 2 > k => k = 1
            OBVIOUS
          <6>2. Len(p) = 1
            BY <5>1, <6>1, <6>5, Zenon
          <6>3. SubSeq(CpuPlace(n), 1, Len(p)) = p /\ CpuPlace(n)[Len(p) + 1][1] = l.addr
            BY <4>1, Zenon DEF Below
          <6>4. Len(p) + 1 = 2
            BY <6>2
          <6> QED BY <5>2, <6>2, <6>3, <6>4, Zenon
        <5>4. CpuPlace(n) \in Seq(Nat \X Nat) /\ CpuPlace(n)[1] = <<devnum, 0>>
          <6>1. <<devnum, 0>> \in Nat \X Nat /\ <<\h70, n - 1>> \in Nat \X Nat
            BY DEF Supported
          <6> QED BY <6>1 DEF CpuPlace
        <5>5. SubSeq(CpuPlace(n), 1, 1) = Root(devnum)
          <6>1. \A q \in Seq(Nat \X Nat) : Len(q) = 2 => SubSeq(q, 1, 1) = << q[1] >>
            BY HeadOf
          <6>2. SubSeq(CpuPlace(n), 1, 1) = << CpuPlace(n)[1] >>
            BY <5>2, <5>4, <6>1, Zenon
          <6> QED BY <5>4, <6>2, Zenon DEF Root
        <5> QED BY <2>4, <5>3, <5>5
      <4>2. buses[n] = CpuPlace(n)
        BY DEF Numbered
      <4> QED BY <4>1, <4>2
    <3>2. ASSUME NEW c \in clients, c.at = Root(devnum), c.addr = \h70
          PROVE  c \in clients'
      <4>1. devnum \in keep /\ buses[devnum] = Root(devnum)
        BY <1>1, RootsStay
      <4>2. buses'[devnum] = Root(devnum) /\ devnum \in DOMAIN buses'
        BY <2>1, <4>1
      <4>3. HangsOn(c, buses')
        BY <3>2, <4>2 DEF HangsOn
      <4> QED BY <2>1, <2>4, <3>2, <4>3
    <3> HIDE DEF keep
    <3> QED BY <1>3, <2>1, <3>1, <3>2 DEF Cut
  <2> QED BY <2>3, <2>4
<1>4. CASE Drop(l)
  <2> DEFINE keep == IF "mux" \in drivers' THEN DOMAIN buses
                     ELSE {n \in DOMAIN buses : Len(buses[n]) = 1}
  <2>1. buses = [n \in DOMAIN buses |-> buses[n]]
    BY DEF Shape
  <2>2. /\ keep \in SUBSET DOMAIN buses /\ buses' = [n \in keep |-> buses[n]]
        /\ clients' = {c \in clients : HangsOn(c, buses')}
    BY <1>4, <2>1 DEF Drop
  <2>3. CASE "mux" \notin drivers'
    <3>1. \A n \in keep : Len(buses[n]) = 1
      BY <2>3
    <3> HIDE DEF keep
    <3> QED BY <2>2, <3>1 DEF Cut
  <2>4. CASE "mux" \in drivers'
    <3>1. DOMAIN buses \cap (2 .. 9) \subseteq keep /\ devnum \in keep
      BY <1>1, <2>4, RootsStay
    <3>2. "mux" \in drivers => "mux" \in drivers'
      BY <2>4
    <3> HIDE DEF keep
    <3>3. ASSUME NEW c \in clients, c.at = Root(devnum), c.addr = \h70
          PROVE  c \in clients'
      <4>1. devnum \in DOMAIN buses' /\ buses'[devnum] = Root(devnum)
        BY <1>1, <2>2, <3>1, RootsStay
      <4> QED BY <2>2, <3>3, <4>1 DEF HangsOn
    <3> QED BY <2>2, <3>1, <3>2, <3>3 DEF Cut
  <2> QED BY <2>3, <2>4
<1> QED BY <1>3, <1>4 DEF Do, Add

(* Where a new bus comes from.                                             *)
LEMMA ProbedMux ==
    ASSUME NEW devices, IsFiniteSet(devices), ProbeMuxes(devices),
           NEW n \in DOMAIN buses' \ DOMAIN buses
    PROVE  \E c \in devices, k \in Nat :
              c.chip = "mux" /\ buses'[n] = Append(c.at, <<c.addr, k>>)
BY Probed

(* Probing further muxes, when the CPU board's mux has its channels.       *)
LEMMA LaterProbing ==
    ASSUME Supported, platform # "z9264f", Shape, Numbered,
           NEW devices, IsFiniteSet(devices), ProbeMuxes(devices), Placed(devices),
           \A c \in devices : ~ (c.at = Root(devnum) /\ c.addr = \h70),
           NEW t \in DOMAIN buses, Len(buses[t]) > 1,
           NEW n \in DOMAIN buses' \ DOMAIN buses
    PROVE  /\ n \notin 0 .. 9
           /\ \E x \in BoardMuxes, k \in Nat : buses'[n] = SwitchPlace(x, k)
<1>1. RootBuses = {0, 1} /\ RootMuxes = {<<devnum, \h70>>}
  BY DEF RootBuses, RootMuxes
<1>2. n \notin 0 .. 9
  <2>1. (2 .. 9) \cap (0 .. MaxBus) \subseteq DOMAIN buses
    BY DEF Numbered
  <2>2. 0 \in DOMAIN buses /\ 1 \in DOMAIN buses
    BY <1>1 DEF Shape
  <2>3. DOMAIN buses' \subseteq DOMAIN buses \cup (0 .. MaxBus)
    BY Probed
  <2> QED BY <2>1, <2>2, <2>3, PlatformsAssumption
<1>3. PICK c \in devices, k \in Nat :
          c.chip = "mux" /\ buses'[n] = Append(c.at, <<c.addr, k>>)
  BY ONLY IsFiniteSet(devices), ProbeMuxes(devices), n \in DOMAIN buses' \ DOMAIN buses,
          ProbedMux, Zenon
<1>4. PICK m \in DOMAIN buses : c.at = buses[m] /\ MayBeOn(m, c.addr, "mux")
  BY <1>3 DEF Placed
<1>5. <<m, c.addr>> \notin RootMuxes
  <2>1. m = devnum => buses[m] = Root(devnum)
    BY <1>1 DEF Shape, Supported
  <2> QED BY <1>1, <1>4, <2>1
<1>6. <<m, c.addr>> \in BoardMuxes
  BY <1>4, <1>5 DEF MayBeOn
<1>7. m \in 2 .. 9
  BY <1>6 DEF BoardMuxes
<1>8. c.at = CpuPlace(m)
  BY <1>4, <1>7 DEF Numbered
<1>9. buses'[n] = SwitchPlace(<<m, c.addr>>, k)
  BY <1>3, <1>8 DEF SwitchPlace
<1> QED BY <1>2, <1>6, <1>9, Zenon

(* New devices and channels of muxes go on from the numbers there are.     *)
LEMMA GrownNumbered ==
    ASSUME Supported, platform # "z9264f", Shape, Numbered, UNCHANGED machine,
           NEW new, Placed(new),
           \A c \in new : c = [at |-> c.at, addr |-> c.addr, chip |-> c.chip],
           clients' = clients \cup new, "mux" \in drivers', script' = "init" => "cpld" \in drivers',
           \/ buses' = buses
           \/ \E devices :
                 /\ devices \subseteq clients' /\ IsFiniteSet(devices) /\ ProbeMuxes(devices)
                 /\ \/ \A n \in DOMAIN buses : Len(buses[n]) = 1
                    \/ \A c \in devices : ~ (c.at = Root(devnum) /\ c.addr = \h70)
    PROVE  Numbered'
<1>1. platform' = platform /\ devnum' = devnum /\ BoardMuxes' = BoardMuxes
  BY SameMachine DEF machine
<1>2. \A n, x, k : CpuPlace(n)' = CpuPlace(n) /\ SwitchPlace(x, k)' = SwitchPlace(x, k)
  BY <1>1 DEF CpuPlace, SwitchPlace
<1>3. /\ Placed(clients')
      /\ \A c \in clients' : c = [at |-> c.at, addr |-> c.addr, chip |-> c.chip]
  BY DEF Shape, Placed, Numbered
<1>4. CpuMuxAttached => CpuMuxAttached'
  BY <1>1 DEF CpuMuxAttached, Root
<1>5. RootBuses = {0, 1} /\ RootMuxes = {<<devnum, \h70>>}
  BY DEF RootBuses, RootMuxes
<1>6. ASSUME \A n \in DOMAIN buses' : Len(buses'[n]) > 1 =>
                 CpuMuxAttached' /\ (2 .. 9) \cap (0 .. MaxBus) \subseteq DOMAIN buses',
             \A n \in DOMAIN buses' \cap (2 .. 9) : buses'[n] = CpuPlace(n),
             \A n \in DOMAIN buses' \ (0 .. 9) :
                 \E x \in BoardMuxes, k \in Nat : buses'[n] = SwitchPlace(x, k)
      PROVE  Numbered'
  <2>1. script' = "init" => {"mux", "cpld"} \subseteq drivers'
    OBVIOUS
  <2> QED BY <1>1, <1>2, <1>3, <1>6, <2>1 DEF Numbered
<1>7. CASE buses' = buses
  BY <1>4, <1>6, <1>7 DEF Numbered
<1>8. ASSUME NEW devices, devices \subseteq clients', IsFiniteSet(devices), ProbeMuxes(devices),
             \A n \in DOMAIN buses : Len(buses[n]) = 1
      PROVE  Numbered'
  <2>1. DOMAIN buses = {0, 1}
    <3>1. \A n \in DOMAIN buses : ~ BelowRootMux(buses[n])
      BY <1>8, PlaceLength, Zenon DEF BelowRootMux
    <3> QED BY <1>5, <3>1 DEF Shape
  <2>2. ASSUME NEW c \in devices, c.chip = "mux"
        PROVE  c = [at |-> Root(devnum), addr |-> \h70, chip |-> "mux"]
    <3>1. PICK n \in DOMAIN buses : c.at = buses[n] /\ MayBeOn(n, c.addr, "mux")
      BY <1>3, <1>8, <2>2 DEF Placed
    <3>2. n = devnum /\ c.addr = \h70
      BY <1>5, <2>1, <3>1 DEF MayBeOn
    <3>3. c.at = Root(devnum)
      BY <1>5, <2>1, <3>1, <3>2 DEF Shape
    <3>4. c = [at |-> c.at, addr |-> c.addr, chip |-> c.chip]
      BY <1>3, <1>8
    <3> QED BY <2>2, <3>2, <3>3, <3>4
  <2>3. \A n \in DOMAIN buses' \ {0, 1} :
           /\ n \in 2 .. 9 /\ buses'[n] = CpuPlace(n)
           /\ (2 .. 9) \cap (0 .. MaxBus) \subseteq DOMAIN buses'
           /\ [at |-> Root(devnum), addr |-> \h70, chip |-> "mux"] \in devices
    BY <1>8, <2>1, <2>2, FirstProbing
  <2>4. ASSUME NEW n \in DOMAIN buses', Len(buses'[n]) > 1
        PROVE  CpuMuxAttached' /\ (2 .. 9) \cap (0 .. MaxBus) \subseteq DOMAIN buses'
    <3>1. n \notin {0, 1}
      <4>1. n \in {0, 1} => buses'[n] = buses[n] /\ Len(buses[n]) = 1
        BY <1>8, <2>1, Probed
      <4>2. ~ (1 > 1)
        OBVIOUS
      <4> QED BY <2>4, <4>1, <4>2, Zenon
    <3>2. [at |-> Root(devnum), addr |-> \h70, chip |-> "mux"] \in clients'
      BY <1>8, <2>3, <3>1
    <3>3. CpuMuxAttached'
      BY <1>1, <3>2 DEF CpuMuxAttached, Root
    <3> QED BY <2>3, <3>1, <3>3
  <2>5. \A n \in DOMAIN buses' \cap (2 .. 9) : buses'[n] = CpuPlace(n)
    BY <2>3
  <2>6. \A n \in DOMAIN buses' \ (0 .. 9) : FALSE
    BY <2>3
  <2> QED BY <1>6, <2>4, <2>5, <2>6
<1>9. ASSUME NEW found, found \subseteq clients', IsFiniteSet(found), ProbeMuxes(found),
             NEW t \in DOMAIN buses, Len(buses[t]) > 1,
             \A c \in found : ~ (c.at = Root(devnum) /\ c.addr = \h70)
      PROVE  Numbered'
  <2>1. CpuMuxAttached /\ (2 .. 9) \cap (0 .. MaxBus) \subseteq DOMAIN buses
    BY <1>9 DEF Numbered
  <2>2. /\ DOMAIN buses \subseteq DOMAIN buses'
        /\ \A n \in DOMAIN buses : buses'[n] = buses[n]
    BY <1>9, Probed
  <2>3. Placed(found)
    BY <1>3, <1>9 DEF Placed
  <2>4. ASSUME NEW n \in DOMAIN buses' \ DOMAIN buses
        PROVE  /\ n \notin 0 .. 9
               /\ \E x \in BoardMuxes, k \in Nat : buses'[n] = SwitchPlace(x, k)
    BY <1>9, <2>3, LaterProbing
  <2>5. CpuMuxAttached' /\ (2 .. 9) \cap (0 .. MaxBus) \subseteq DOMAIN buses'
    BY <1>4, <2>1, <2>2
  <2>6. \A n \in DOMAIN buses' \cap (2 .. 9) : buses'[n] = CpuPlace(n)
    BY <2>2, <2>4 DEF Numbered
  <2>7. \A n \in DOMAIN buses' \ (0 .. 9) :
           \E x \in BoardMuxes, k \in Nat : buses'[n] = SwitchPlace(x, k)
    <3>1. \A n \in DOMAIN buses \ (0 .. 9) :
           \E x \in BoardMuxes, k \in Nat : buses'[n] = SwitchPlace(x, k)
      BY <2>2 DEF Numbered
    <3> QED BY <2>4, <3>1, Zenon
  <2> QED BY <1>6, <2>5, <2>6, <2>7
<1>10. (\A n \in DOMAIN buses : Len(buses[n]) = 1) \/ (\E n \in DOMAIN buses : Len(buses[n]) > 1)
  BY PlaceLength, Zenon
<1> QED BY <1>7, <1>8, <1>9, <1>10, Zenon

(* The mux of the CPU board is not added twice.                            *)
LEMMA RefusedTwice ==
    ASSUME Supported, CpuMuxAttached, NEW l
    PROVE  \A c \in NewDevices(l) : ~ (c.at = Root(devnum) /\ c.addr = \h70)
<1>1. Len(Root(devnum)) = 1 /\ SubSeq(Root(devnum), 1, 1) = Root(devnum)
  <2>1. /\ Root(devnum) = << <<devnum, 0>> >> /\ Len(Root(devnum)) = 1
        /\ Root(devnum)[1] = <<devnum, 0>> /\ Root(devnum) \in Seq(Nat \X Nat)
    BY DEF Root, Supported
  <2>2. \A q \in Seq(Nat \X Nat) : Len(q) = 1 => SubSeq(q, 1, 1) = << q[1] >>
    BY HeadOf
  <2> QED BY <2>1, <2>2, Zenon
<1>2. Root(devnum) \in Above(Root(devnum))
  <2>1. PICK k \in 1 .. 1 : k = 1
    OBVIOUS
  <2> QED BY <1>1, <2>1, Zenon DEF Above
<1>3. ASSUME l.addr = \h70 PROVE Root(devnum) \notin FreeAt(Targets(l), l.addr)
  <2>1. PICK c \in clients : c.at = Root(devnum) /\ c.addr = l.addr
    BY <1>3 DEF CpuMuxAttached
  <2> QED BY <1>2, <2>1 DEF FreeAt
<1> QED BY <1>3 DEF NewDevices

LEMMA NewTyped == \A l : \A c \in NewDevices(l) : c = [at |-> c.at, addr |-> c.addr, chip |-> c.chip]
BY DEF NewDevices

(* A line of init.                                                          *)
LEMMA AddNumbered ==
    ASSUME Supported, platform # "z9264f", Shape, Numbered, UNCHANGED machine, UNCHANGED drivers,
           {"mux", "cpld"} \subseteq drivers, NEW l, Fits(l), Add(l)
    PROVE  Numbered'
<1> DEFINE new == NewDevices(l)
<1>1. IsFiniteSet(new) /\ Placed(new)
  BY NewPlaced
<1>2. clients' = clients \cup new /\ ProbeMuxes(new)
  BY DEF Add
<1>3. \/ \A n \in DOMAIN buses : Len(buses[n]) = 1
      \/ \A c \in new : ~ (c.at = Root(devnum) /\ c.addr = \h70)
  <2>1. ASSUME NEW n \in DOMAIN buses, Len(buses[n]) # 1 PROVE CpuMuxAttached
    BY <2>1, PlaceLength DEF Numbered
  <2> QED BY <2>1, RefusedTwice
<1>4. \A c \in new : c = [at |-> c.at, addr |-> c.addr, chip |-> c.chip]
  BY NewTyped
<1>5. "mux" \in drivers' /\ "cpld" \in drivers' /\ new \subseteq clients'
  BY <1>2
<1> HIDE DEF new
<1>6. \E devices :
         /\ devices \subseteq clients' /\ IsFiniteSet(devices) /\ ProbeMuxes(devices)
         /\ \/ \A n \in DOMAIN buses : Len(buses[n]) = 1
            \/ \A c \in devices : ~ (c.at = Root(devnum) /\ c.addr = \h70)
  BY <1>1, <1>2, <1>3, <1>5, Zenon
<1> QED BY <1>1, <1>2, <1>4, <1>5, <1>6, GrownNumbered, Zenon

(* A step that leaves buses and drivers alone.                             *)
LEMMA SameNumbers ==
    ASSUME Numbered, UNCHANGED <<machine, tree>>, script' = "init" => script = "init"
    PROVE  Numbered'
<1>1. platform' = platform /\ devnum' = devnum /\ BoardMuxes' = BoardMuxes
  BY SameMachine DEF machine
<1>2. \A n, x, k : CpuPlace(n)' = CpuPlace(n) /\ SwitchPlace(x, k)' = SwitchPlace(x, k)
  BY <1>1 DEF CpuPlace, SwitchPlace
<1>3. buses' = buses /\ clients' = clients /\ drivers' = drivers
  BY DEF tree
<1>4. CpuMuxAttached => CpuMuxAttached'
  BY <1>1, <1>3 DEF CpuMuxAttached, Root
<1> QED BY <1>1, <1>2, <1>3, <1>4 DEF Numbered

(* A line of the scripts, with or without a fault.                         *)
LEMMA InitLineNumbered ==
    ASSUME TypeOK, Shape, Numbered, platform # "z9264f", script = "init", Execute \/ Fault \/ Kill
    PROVE  Numbered'
<1>1. Supported /\ UNCHANGED machine /\ Running
  BY SupportedMachine DEF Execute, Fault, Kill
<1>2. Current \in Adding /\ {"mux", "cpld"} \subseteq drivers
  BY <1>1, CurrentLine DEF Numbered
<1>3. ASSUME NEW l, Fits(l), l.op = "new", Do(l) PROVE Numbered'
  <2>1. Add(l) /\ UNCHANGED drivers
    BY <1>3 DEF Do, Take, Drop
  <2> QED BY <1>1, <1>2, <1>3, <2>1, AddNumbered
<1>4. ASSUME NEW on \in SUBSET Current.on, Do([Current EXCEPT !.on = on]) PROVE Numbered'
  BY <1>2, <1>3, <1>4, CutShort
<1>5. CASE Execute
  BY <1>2, <1>3, <1>5 DEF Execute, Adding
<1>6. CASE Fault
  <2>1. CASE \E n \in Current.on : Do([Current EXCEPT !.on = @ \ {n}])
    <3>1. PICK n \in Current.on : Do([Current EXCEPT !.on = Current.on \ {n}])
      BY <2>1
    <3>2. Current.on \ {n} \in SUBSET Current.on
      OBVIOUS
    <3> QED BY <1>4, <3>1, <3>2
  <2>2. CASE UNCHANGED tree
    BY <1>1, <2>2, SameNumbers
  <2>3. CASE clients' = clients \cup NewDevices(Current) /\ UNCHANGED <<buses, drivers>>
    <3>1. Placed(NewDevices(Current))
      BY <1>1, <1>2, NewPlaced DEF Adding
    <3>2. "mux" \in drivers' /\ "cpld" \in drivers' /\ buses' = buses
      BY <1>2, <2>3
    <3> QED BY <1>1, <2>3, <3>1, <3>2, NewTyped, GrownNumbered
  <2> QED BY <1>6, <2>1, <2>2, <2>3 DEF Fault
<1>7. CASE Kill
  <2>1. PICK n \in Current.on : Do([Current EXCEPT !.on = {m \in Current.on : m < n}])
    BY <1>7 DEF Kill
  <2>2. {m \in Current.on : m < n} \in SUBSET Current.on
    OBVIOUS
  <2> QED BY <1>4, <2>1, <2>2
<1> QED BY <1>5, <1>6, <1>7

LEMMA DeinitLineNumbered ==
    ASSUME TypeOK, Shape, Numbered, platform # "z9264f", script = "deinit", Execute \/ Fault \/ Kill
    PROVE  Numbered'
<1>1. /\ Supported /\ UNCHANGED machine /\ Running /\ script' # "init"
  BY SupportedMachine DEF Execute, Fault, Kill
<1>2. Current \in Removing /\ Current.op # "new"
  BY <1>1, CurrentLine DEF Removing
<1>3. ASSUME NEW l, l.op # "new", Do(l) PROVE Numbered'
  BY <1>1, <1>3, DoCuts, CutNumbered
<1>4. ASSUME NEW on \in SUBSET Current.on, Do([Current EXCEPT !.on = on]) PROVE Numbered'
  BY <1>2, <1>3, <1>4, CutShort
<1>5. CASE Execute
  BY <1>2, <1>3, <1>5 DEF Execute
<1>6. CASE Fault
  <2>1. CASE \E n \in Current.on : Do([Current EXCEPT !.on = @ \ {n}])
    <3>1. PICK n \in Current.on : Do([Current EXCEPT !.on = Current.on \ {n}])
      BY <2>1
    <3>2. Current.on \ {n} \in SUBSET Current.on
      OBVIOUS
    <3> QED BY <1>4, <3>1, <3>2
  <2>2. CASE UNCHANGED tree
    BY <1>1, <2>2, SameNumbers
  <2> QED BY <1>2, <1>6, <2>1, <2>2 DEF Fault
<1>7. CASE Kill
  <2>1. PICK n \in Current.on : Do([Current EXCEPT !.on = {m \in Current.on : m < n}])
    BY <1>7 DEF Kill
  <2>2. {m \in Current.on : m < n} \in SUBSET Current.on
    OBVIOUS
  <2> QED BY <1>4, <2>1, <2>2
<1> QED BY <1>5, <1>6, <1>7

LEMMA NumberedStep ==
    ASSUME TypeOK, Shape, Numbered, [Next]_vars
    PROVE  Numbered'
<1>1. UNCHANGED machine
  BY DEF Next, StartInit, StartDeinit, Execute, Fault, Kill, FinishInit, FinishDeinit, vars
<1> SUFFICES ASSUME platform # "z9264f" PROVE Numbered'
  BY <1>1 DEF machine, Numbered
<1>2. CASE StartInit
  <2>1. /\ clients' = clients \cup {} /\ "mux" \in drivers' /\ "cpld" \in drivers'
        /\ Supported /\ IsFiniteSet(clients) /\ clients \subseteq clients'
    BY <1>2, SupportedMachine DEF StartInit, Shape
  <2>2. CASE buses' = buses
    <3>1. Placed({}) /\ \A c \in {} : c = [at |-> c.at, addr |-> c.addr, chip |-> c.chip]
      BY DEF Placed
    <3> QED BY <1>1, <2>1, <2>2, <3>1, GrownNumbered, Zenon
  <2>3. CASE ProbeMuxes(clients) /\ "mux" \notin drivers
    <3>1. \A n \in DOMAIN buses : Len(buses[n]) = 1
      BY <2>3, PlaceLength DEF Numbered
    <3>2. \E devices :
             /\ devices \subseteq clients' /\ IsFiniteSet(devices) /\ ProbeMuxes(devices)
             /\ \/ \A n \in DOMAIN buses : Len(buses[n]) = 1
                \/ \A c \in devices : ~ (c.at = Root(devnum) /\ c.addr = \h70)
      BY <2>1, <2>3, <3>1, Zenon
    <3>3. Placed({}) /\ \A c \in {} : c = [at |-> c.at, addr |-> c.addr, chip |-> c.chip]
      BY DEF Placed
    <3> QED BY <1>1, <2>1, <3>2, <3>3, GrownNumbered, Zenon
  <2> QED BY <1>2, <2>2, <2>3 DEF StartInit
<1>3. CASE StartDeinit \/ FinishInit \/ FinishDeinit \/ UNCHANGED vars
  <2>1. UNCHANGED <<machine, tree>> /\ (script' = "init" => script = "init")
    BY <1>3 DEF StartDeinit, FinishInit, FinishDeinit, vars, run
  <2> QED BY <2>1, SameNumbers
<1>4. CASE Execute \/ Fault \/ Kill
  <2>1. Running
    BY <1>4 DEF Execute, Fault, Kill
  <2> QED BY <1>4, <2>1, CurrentLine, InitLineNumbered, DeinitLineNumbered
<1> QED BY <1>2, <1>3, <1>4 DEF Next

LEMMA InitNumbered ==
    ASSUME Init
    PROVE  Numbered
<1>1. ASSUME platform # "z9264f" PROVE DOMAIN buses = {0, 1}
  BY <1>1 DEF Init, RootBuses
<1>2. \A n \in DOMAIN buses : ~ (Len(buses[n]) > 1)
  <2>1. \A n : Len(Root(n)) = 1
    BY DEF Root
  <2>2. ~ (1 > 1)
    OBVIOUS
  <2>3. \A n \in DOMAIN buses : buses[n] = Root(n)
    BY DEF Init
  <2> QED BY <2>1, <2>2, <2>3, Zenon
<1>3. clients = {} /\ script # "init"
  BY DEF Init
<1> QED BY <1>1, <1>2, <1>3 DEF Numbered

-----------------------------------------------------------------------------
(* CPLDs and their driver *)

(* deinit has a line for each mux on a channel of the CPU board's mux.     *)
LEMMA DeinitDeletesBoard ==
    ASSUME Supported, platform # "z9264f", NEW x \in BoardMuxes
    PROVE  \E i \in 3 .. Len(DeinitLines) - 3 : DeletesMux(DeinitLines[i], x)
<1>1. DeinitLines = BoardDeinit
  BY DEF DeinitLines
<1>2. PICK l \in {SwitchMuxLine} \cup
              {Through(devnum, QsfpMuxLines[j]) : j \in 1 .. Len(QsfpMuxLines)} :
          DeletesMux(Delete(l), x)
  <2>1. CASE x = <<4, \h71>>
    <3>1. \A n, a : x = <<n, a>> => DeletesMux(Delete(NewMux(n, a)), x)
      BY DEF DeletesMux, Delete, NewMux, New
    <3>2. DeletesMux(Delete(SwitchMuxLine), x)
      BY <2>1, <3>1, Zenon DEF SwitchMuxLine
    <3> QED BY <3>2
  <2>2. CASE x \in (6 .. 9) \X (IF platform = "s6100" THEN {\h71, \h72} ELSE {\h71})
    <3>1. PICK n \in 6 .. 9, a \in {\h71, \h72} :
              x = <<n, a>> /\ (platform # "s6100" => a = \h71)
      BY <2>2
    <3> DEFINE each == IF platform = "s6100" THEN 2 ELSE 1
    <3>2. PICK j \in 1 .. 4 * each : j = each * (9 - n) + (a - \h70)
      BY <3>1
    <3>3. QsfpMuxLines[j] = NewMux(n, a)
      <4>1. Len(QsfpMuxAddresses) = each
        BY DEF QsfpMuxAddresses
      <4>2. QsfpMuxLines[j] = NewMux(NineToSix[((j - 1) \div each) + 1],
                                     QsfpMuxAddresses[((j - 1) % each) + 1])
        BY <4>1 DEF QsfpMuxLines
      <4>3. ((j - 1) \div each) + 1 = 10 - n /\ ((j - 1) % each) + 1 = a - \h70
        <5>1. CASE platform = "s6100"
          BY <3>1, <3>2, <5>1
        <5>2. CASE platform # "s6100"
          BY <3>1, <3>2, <5>2
        <5> QED BY <5>1, <5>2
      <4>4. NineToSix[10 - n] = n
        BY DEF NineToSix
      <4>5. QsfpMuxAddresses[a - \h70] = a
        BY <3>1 DEF QsfpMuxAddresses
      <4> QED BY <4>2, <4>3, <4>4, <4>5
    <3>4. j \in 1 .. Len(QsfpMuxLines)
      <4>1. Len(QsfpMuxLines) = 4 * each
        BY QsfpMuxLinesFit
      <4> QED BY <4>1
    <3>5. DeletesMux(Delete(Through(devnum, NewMux(n, a))), x)
      BY <3>1 DEF DeletesMux, Delete, Through, NewMux, New
    <3> QED BY <3>3, <3>4, <3>5
  <2> QED BY <2>1, <2>2 DEF BoardMuxes
<1>3. PICK i \in 3 .. Len(BoardDeinit) - 3 : BoardDeinit[i] = Delete(l)
  BY BoardDeinitLines
<1> QED BY <1>1, <1>2, <1>3

(* A sequence with one element more begins with what it was.               *)
LEMMA FrontOf ==
    ASSUME NEW S, NEW s \in Seq(S), NEW e \in S
    PROVE  SubSeq(Append(s, e), 1, Len(s)) = s
<1> DEFINE q == Append(s, e)
           m == Len(s)
           f == SubSeq(q, 1, m)
<1>1. /\ m \in Nat /\ q \in Seq(S) /\ Len(q) = m + 1
      /\ \A i \in 1 .. m : q[i] = s[i]
  BY AppendProperties, LenProperties
<1> HIDE DEF q, m
<1>2. \A i \in 1 .. m : q[i] \in S
  BY <1>1, ElementOfSeq
<1>3. f \in Seq(S) /\ Len(f) = m /\ \A i \in 1 .. m : f[i] = q[i]
  BY <1>1, <1>2, SubSeqProperties
<1> HIDE DEF f
<1>4. f = s
  BY <1>1, <1>3, SeqEqual DEF m
<1> QED BY <1>4 DEF f, q, m

(* Channels of a mux are below it. *)
LEMMA ChannelBelow ==
    ASSUME NEW p \in Seq(Nat \X Nat), NEW a \in Nat, NEW k \in Nat
    PROVE  /\ Below(Append(p, <<a, k>>), p, a)
           /\ Len(Append(p, <<a, k>>)) = Len(p) + 1
<1>1. <<a, k>> \in Nat \X Nat
  OBVIOUS
<1>2. SubSeq(Append(p, <<a, k>>), 1, Len(p)) = p
  BY <1>1, FrontOf
<1>3. Len(Append(p, <<a, k>>)) > Len(p) /\ Append(p, <<a, k>>)[Len(p) + 1] = <<a, k>>
  BY <1>1, AppendProperties, LenProperties
<1>4. Len(Append(p, <<a, k>>)) = Len(p) + 1
  BY <1>1, AppendProperties
<1> QED BY <1>2, <1>3, <1>4 DEF Below

LEMMA BoardPlaces ==
    ASSUME Supported, platform # "z9264f"
    PROVE  /\ \A n \in 2 .. 9 : /\ CpuPlace(n) \in Seq(Nat \X Nat)
                                /\ CpuPlace(n) = Root(devnum) \o << <<\h70, n - 1>> >>
           /\ \A x \in BoardMuxes : x[1] \in 2 .. 9 /\ x[2] \in Nat
<1>1. ASSUME NEW n \in 2 .. 9
      PROVE  /\ CpuPlace(n) \in Seq(Nat \X Nat)
             /\ CpuPlace(n) = Root(devnum) \o << <<\h70, n - 1>> >>
  <2>1. <<devnum, 0>> \in Nat \X Nat /\ <<\h70, n - 1>> \in Nat \X Nat
    BY DEF Supported
  <2>2. Append(Root(devnum), <<\h70, n - 1>>) = CpuPlace(n)
    BY <2>1, AppendToOne, Zenon DEF CpuPlace, Root
  <2>3. Root(devnum) \in Seq(Nat \X Nat)
    BY <2>1 DEF Root
  <2>4. Append(Root(devnum), <<\h70, n - 1>>) = Root(devnum) \o << <<\h70, n - 1>> >>
    BY ONLY <2>1, <2>3, AppendIsConcat, ZenonT(60)
  <2>5. Append(Root(devnum), <<\h70, n - 1>>) \in Seq(Nat \X Nat)
    BY ONLY <2>1, <2>3, AppendProperties, ZenonT(60)
  <2> QED BY <2>2, <2>4, <2>5, Zenon
<1>2. \A x \in BoardMuxes : x[1] \in 2 .. 9 /\ x[2] \in Nat
  BY DEF BoardMuxes
<1> QED BY <1>1, <1>2

(* Where the line for a mux is carried out, no device is left on its       *)
(* channels.                                                                *)
LEMMA MuxLineTakes ==
    ASSUME Supported, platform # "z9264f", Shape, Numbered,
           NEW x \in BoardMuxes, NEW l, DeletesMux(l, x), Do(l),
           NEW c \in clients', NEW k \in Nat, c.at = SwitchPlace(x, k),
           NEW b \in DOMAIN buses \ (0 .. 9), c.at = buses[b]
    PROVE  FALSE
<1>1. Take(l)
  <2>1. l.op = "delete"
    BY DEF DeletesMux
  <2> QED BY <2>1 DEF Do, Add, Drop
<1> DEFINE r == x[1]
           p == CpuPlace(r)
<1>2. /\ r \in 2 .. 9 /\ x[2] \in Nat /\ p \in Seq(Nat \X Nat)
      /\ p = Root(devnum) \o << <<\h70, r - 1>> >>
  BY BoardPlaces
<1>3. r \in DOMAIN buses /\ buses[r] = p
  <2>1. Len(buses[b]) > 1
    <3>1. Len(buses[b]) \in Nat /\ Len(p) = 2
      BY PlaceLength DEF CpuPlace
    <3>2. Len(buses[b]) = Len(p) + 1
      <4>1. buses[b] = Append(p, <<x[2], k>>)
        BY DEF SwitchPlace
      <4>2. Len(Append(p, <<x[2], k>>)) = Len(p) + 1
        BY <1>2, ChannelBelow
      <4> QED BY <4>1, <4>2
    <3> QED BY <3>1, <3>2
  <2>2. b \in 0 .. MaxBus /\ b > 9
    <3>1. RootBuses = {0, 1}
      BY DEF RootBuses
    <3>2. b \in 0 .. MaxBus
      BY <3>1 DEF Shape
    <3> QED BY <3>2, PlatformsAssumption
  <2>3. r \in (2 .. 9) \cap (0 .. MaxBus)
    BY <1>2, <2>2, PlatformsAssumption
  <2>4. r \in DOMAIN buses
    BY <2>1, <2>3 DEF Numbered
  <2> QED BY <1>2, <2>4 DEF Numbered
<1>4. p \in Targets(l)
  <2>1. r - 1 \in Channels
    BY <1>2 DEF Channels
  <2>2. PathExists(l, r)
    BY <1>2, <1>3, <2>1 DEF PathExists, DeletesMux
  <2> QED BY <1>3, <2>2 DEF Targets, DeletesMux
<1>5. Below(c.at, p, l.addr)
  BY <1>2, ChannelBelow DEF SwitchPlace, DeletesMux
<1>6. HangsOn(c, buses')
  BY <1>1 DEF Take
<1> HIDE DEF p, r
<1> QED BY <1>1, <1>4, <1>5, <1>6 DEF Take, HangsOn

(* Where the CPLD line of deinit is carried out, no CPLD is left.          *)
LEMMA CpldLineTakes ==
    ASSUME Shape, platform # "z9264f", Do(Delete(CpldLine)),
           NEW c \in clients', c.chip = "cpld"
    PROVE  FALSE
<1> DEFINE l == Delete(CpldLine)
<1>1. l.op = "delete" /\ l.on = 14 .. 17 /\ l.addr = \h3e /\ l.poll = {} /\ l.under = {}
  BY DEF Delete, CpldLine, New
<1> HIDE DEF l
<1>2. Take(l)
  <2>1. Do(l)
    BY DEF l
  <2> QED BY <1>1, <2>1 DEF Do, Add, Drop
<1>3. c \in clients /\ ~ (c.addr = l.addr /\ c.at \in Targets(l))
  BY <1>2 DEF Take
<1>4. PICK n \in DOMAIN buses : c.at = buses[n] /\ n \in 14 .. 17 /\ c.addr = \h3e
  BY <1>3 DEF Shape, MayBeOn
<1>5. PathExists(l, n)
  BY <1>1, <1>4 DEF PathExists
<1>6. buses[n] \in Targets(l)
  BY <1>1, <1>4, <1>5 DEF Targets
<1> QED BY <1>1, <1>3, <1>4, <1>6

(* The deletion of the CPU board's mux takes it away, with all below it.   *)
LEMMA CpuMuxTaken ==
    ASSUME Supported, UNCHANGED machine, Shape, platform # "z9264f", Do(Delete(CpuMuxLine))
    PROVE  /\ \A d \in clients' : ~ (d.at = Root(devnum) /\ d.addr = \h70)
           /\ \A n \in DOMAIN buses' : ~ (/\ Len(buses'[n]) > 1
                                /\ buses'[n][1] = <<devnum, 0>> /\ buses'[n][2][1] = \h70)
<1> DEFINE l == Delete(CpuMuxLine)
<1>1. DeletesOnly(l, devnum, \h70)
  BY DEF DeletesOnly, Delete, CpuMuxLine, NewMux, New
<1>2. Take(l)
  <2>1. Do(l) /\ l.op = "delete"
    BY <1>1 DEF DeletesOnly
  <2> HIDE DEF l
  <2> QED BY <2>1 DEF Do, Add, Drop
<1>3. devnum \in RootBuses
  BY DEF Supported, RootBuses
<1>4. \A r \in RootBuses : \A a : DeletesOnly(l, r, a) /\ Take(l)
          => /\ \A d \in clients' : ~ (d.at = Root(r) /\ d.addr = a)
             /\ \A n \in DOMAIN buses' : ~ (/\ Len(buses'[n]) > 1
                                  /\ buses'[n][1] = <<r, 0>> /\ buses'[n][2][1] = a)
  BY DeletionTakes DEF Gone
<1> HIDE DEF l
<1> QED BY <1>1, <1>2, <1>3, <1>4

(* So where it is deleted no CPLD is left either.                          *)
LEMMA CpuMuxLineTakes ==
    ASSUME Supported, UNCHANGED machine, Shape, Shape', platform # "z9264f",
           Do(Delete(CpuMuxLine)), NEW c \in clients', c.chip = "cpld"
    PROVE  FALSE
<1>1. devnum \in RootBuses /\ devnum' = devnum /\ platform' = platform
  BY DEF Supported, RootBuses, machine
<1>2. \A n \in DOMAIN buses' : ~ (/\ Len(buses'[n]) > 1
                              /\ buses'[n][1] = <<devnum, 0>> /\ buses'[n][2][1] = \h70)
  BY CpuMuxTaken
<1>5. PICK n \in DOMAIN buses' : c.at = buses'[n] /\ n \in 14 .. 17
  BY DEF Shape, MayBeOn
<1>6. n \notin RootBuses'
  BY <1>1, <1>5 DEF RootBuses
<1>7. BelowRootMux(buses[n])'
  BY <1>5, <1>6 DEF Shape
<1>8. Len(buses'[n]) > 1 /\ buses'[n][1] = <<devnum, 0>> /\ buses'[n][2][1] = \h70
  BY <1>1, <1>7 DEF BelowRootMux, RootMuxes
<1> QED BY <1>2, <1>5, <1>8

(* The line of deinit for the mux a CPLD is on.                            *)
LEMMA CpldOnMux ==
    ASSUME Supported, platform # "z9264f", Shape, Numbered, NEW c \in clients, c.chip = "cpld"
    PROVE  \E x \in BoardMuxes, i \in 3 .. Len(DeinitLines) - 3 :
              /\ DeletesMux(DeinitLines[i], x)
              /\ \E k \in Nat : c.at = SwitchPlace(x, k)
<1>1. PICK n \in DOMAIN buses : c.at = buses[n] /\ n \in 14 .. 17
  BY DEF Shape, MayBeOn
<1>2. PICK x \in BoardMuxes, k \in Nat : buses[n] = SwitchPlace(x, k)
  BY <1>1 DEF Numbered
<1> QED BY <1>1, <1>2, DeinitDeletesBoard

(* A line of deinit, carried out: it was none of the three.                *)
LEMMA CpldExecute ==
    ASSUME TypeOK, Shape, Shape', Numbered, UNCHANGED machine, platform # "z9264f",
           Running, script = "deinit", Do(Current),
           NEW c \in clients', c \in clients, c.chip = "cpld"
    PROVE  /\ line # 2 /\ line # Len(DeinitLines) - 2
           /\ \A x \in BoardMuxes, k \in Nat :
                 c.at = SwitchPlace(x, k) => ~ DeletesMux(DeinitLines[line], x)
<1>1. Supported /\ Current = BoardDeinit[line] /\ DeinitLines = BoardDeinit
  BY CurrentLine, SupportedMachine DEF DeinitLines
<1>2. /\ BoardDeinit[2] = Delete(CpldLine)
      /\ BoardDeinit[Len(BoardDeinit) - 2] = Delete(CpuMuxLine)
  BY <1>1, BoardDeinitLines
<1>3. line # 2
  BY <1>1, <1>2, CpldLineTakes
<1>4. line # Len(DeinitLines) - 2
  BY <1>1, <1>2, CpuMuxLineTakes
<1>5. ASSUME NEW x \in BoardMuxes, NEW k \in Nat, c.at = SwitchPlace(x, k),
             DeletesMux(Current, x)
      PROVE  FALSE
  <2>1. PICK b \in DOMAIN buses : c.at = buses[b] /\ b \in 14 .. 17
    BY DEF Shape, MayBeOn
  <2>2. b \in DOMAIN buses \ (0 .. 9)
    BY <2>1
  <2> QED BY <1>1, <1>5, <2>1, <2>2, MuxLineTakes
<1> QED BY <1>1, <1>3, <1>4, <1>5

(* What a CPLD has survived depends on the machine only by the scripts.    *)
LEMMA SurvivesNext ==
    ASSUME UNCHANGED machine, NEW c
    PROVE  Survives(c)' <=>
              /\ script' = "deinit" =>
                    /\ line' > 2 => faults' >= 1
                    /\ \A x \in BoardMuxes, i \in 3 .. Len(DeinitLines) - 3 :
                          /\ DeletesMux(DeinitLines[i], x)
                          /\ \E k \in Nat : c.at = SwitchPlace(x, k)
                          /\ line' > i
                          => faults' >= 2
                    /\ line' > Len(DeinitLines) - 2 => faults' >= 3
              /\ "cpld" \notin drivers' => faults' >= 3
<1>1. DeinitLines' = DeinitLines /\ BoardMuxes' = BoardMuxes /\ devnum' = devnum
  BY SameMachine DEF machine
<1>2. \A x, k : SwitchPlace(x, k)' = SwitchPlace(x, k)
  BY <1>1 DEF SwitchPlace, CpuPlace
<1>3. \A l, x : DeletesMux(l, x)' <=> DeletesMux(l, x)
  BY <1>1, Zenon DEF DeletesMux
<1> QED BY <1>1, <1>2, <1>3, Zenon DEF Survives

(* Each line of deinit that a CPLD survives costs a fault.                 *)
LEMMA DeinitLineSurvived ==
    ASSUME TypeOK, Shape, Shape', Numbered, UNCHANGED machine, platform # "z9264f",
           script = "deinit", Execute \/ Fault \/ Kill,
           NEW c \in clients', c \in clients, c.chip = "cpld", Survives(c)
    PROVE  Survives(c)'
<1> DEFINE n == Len(DeinitLines)
           On(x) == x \in BoardMuxes /\ \E k \in Nat : c.at = SwitchPlace(x, k)
           Cuts(i) == i \in 3 .. n - 3 /\ \E x : On(x) /\ DeletesMux(DeinitLines[i], x)
<1>1. /\ Supported /\ n \in 5 .. 19 /\ faults \in Nat /\ line \in 1 .. n /\ Running
      /\ Current = BoardDeinit[line] /\ Current \in Removing
  <2>1. Running
    BY DEF Execute, Fault, Kill
  <2> QED
    BY <2>1, SupportedMachine, DeinitLinesRemove, PlatformsAssumption, CurrentLine
    DEF TypeOK, DeinitLines
<1>2. Current.op = "unload" => line > n - 2
  BY <1>1, BoardDeinitLines DEF DeinitLines
<1>3. Fault \/ Kill \/ Current.op = "delete" => drivers' = drivers
  BY DeinitLineStep
<1>5. PICK m : Cuts(m)
  BY <1>1, CpldOnMux
<1>6. /\ line > 2 => faults >= 1
      /\ \A i : Cuts(i) /\ line > i => faults >= 2
      /\ line > n - 2 => faults >= 3
      /\ "cpld" \notin drivers => faults >= 3
  BY DEF Survives
<1>7. ASSUME script' = "deinit" =>
                /\ line' > 2 => faults' >= 1
                /\ \A i : Cuts(i) /\ line' > i => faults' >= 2
                /\ line' > n - 2 => faults' >= 3,
             "cpld" \notin drivers' => faults' >= 3
      PROVE  Survives(c)'
  BY <1>7, SurvivesNext
<1>8. \A i : Cuts(i) => i \in 3 .. n - 3
  OBVIOUS
<1>9. CASE Execute
  <2>1. Do(Current) /\ faults' = faults /\ line' = line + 1
    BY <1>9 DEF Execute
  <2>2. /\ line # 2 /\ line # n - 2
        /\ \A x \in BoardMuxes, k \in Nat :
              c.at = SwitchPlace(x, k) => ~ DeletesMux(DeinitLines[line], x)
    BY <1>1, <2>1, CpldExecute
  <2>3. ~ Cuts(line)
    BY <2>2
  <2>4. Current.op = "unload" \/ drivers' = drivers
    BY <1>1, <1>3 DEF Removing
  <2> HIDE DEF n, Cuts
  <2>5. line' > 2 => faults' >= 1
    BY <1>1, <1>6, <2>1, <2>2
  <2>6. ASSUME NEW i, Cuts(i), line' > i PROVE faults' >= 2
    BY <1>1, <1>6, <1>8, <2>1, <2>3, <2>6
  <2>7. line' > n - 2 => faults' >= 3
    BY <1>1, <1>6, <2>1, <2>2
  <2>8. "cpld" \notin drivers' => faults' >= 3
    BY <1>2, <1>6, <2>1, <2>4
  <2> QED BY <1>7, <2>5, <2>6, <2>7, <2>8
<1>10. CASE Fault
  <2>1. faults' = faults + 1 /\ line' = line + 1 /\ drivers' = drivers
    BY <1>3, <1>10 DEF Fault
  <2> HIDE DEF n, Cuts
  <2>2. line' > 2 => faults' >= 1
    BY <1>1, <2>1
  <2>3. ASSUME NEW i, Cuts(i), line' > i PROVE faults' >= 2
    BY <1>1, <1>6, <1>8, <2>1, <2>3
  <2>4. line' > n - 2 => faults' >= 3
    BY <1>1, <1>5, <1>6, <1>8, <2>1
  <2>5. "cpld" \notin drivers' => faults' >= 3
    BY <1>1, <1>6, <2>1
  <2> QED BY <1>7, <2>2, <2>3, <2>4, <2>5
<1>11. CASE Kill
  <2>1. faults' = faults + 1 /\ script' = "none" /\ drivers' = drivers
    BY <1>3, <1>11 DEF Kill
  <2>2. "cpld" \notin drivers' => faults' >= 3
    BY <1>1, <1>6, <2>1
  <2> QED BY <1>7, <2>1, <2>2
<1> QED BY <1>9, <1>10, <1>11

LEMMA SurvivingStep ==
    ASSUME TypeOK, Shape, Shape', Numbered, Surviving, [Next]_vars
    PROVE  Surviving'
<1>1. Supported /\ faults \in Nat /\ UNCHANGED machine
  <2>1. UNCHANGED machine
    BY DEF Next, StartInit, StartDeinit, Execute, Fault, Kill, FinishInit, FinishDeinit, vars
  <2> QED BY <2>1, SupportedMachine, PlatformsAssumption DEF TypeOK
<1> SUFFICES ASSUME NEW c \in clients', c.chip = "cpld" PROVE Survives(c)'
  BY DEF Surviving
<1>2. platform # "z9264f"
  BY <1>1 DEF Shape, MayBeOn, machine
<1>3. c \in clients => Survives(c)
  BY DEF Surviving
<1>5. CASE StartInit
  BY <1>2, <1>5 DEF StartInit, Survives
<1>6. CASE StartDeinit
  <2>1. c \in clients /\ drivers' = drivers /\ faults' = faults /\ line' = 1
    BY <1>6 DEF StartDeinit, tree
  <2> DEFINE n == Len(DeinitLines)
  <2>2. n \in 5 .. 19
    BY <1>1, DeinitLinesRemove
  <2> HIDE DEF n
  <2>3. ~ (line' > 2) /\ ~ (line' > n - 2) /\ \A i \in 3 .. n - 3 : ~ (line' > i)
    BY <2>1, <2>2
  <2>4. "cpld" \notin drivers' => faults' >= 3
    BY <1>3, <2>1 DEF Survives
  <2> QED BY <1>1, <2>3, <2>4, SurvivesNext DEF n
<1>7. CASE FinishInit \/ FinishDeinit
  <2>1. c \in clients /\ drivers' = drivers /\ faults' = faults /\ script' = "none"
    BY <1>7 DEF FinishInit, FinishDeinit, tree
  <2> QED BY <1>3, <2>1 DEF Survives
<1>8. CASE UNCHANGED vars
  <2>1. /\ c \in clients /\ drivers' = drivers /\ faults' = faults
        /\ script' = script /\ line' = line
    BY <1>8 DEF vars, run, tree
  <2> QED BY <1>1, <1>3, <2>1, SurvivesNext DEF Survives
<1>9. CASE Execute \/ Fault \/ Kill
  <2>1. Running
    BY <1>9 DEF Execute, Fault, Kill
  <2>2. CASE script = "init"
    <3>1. drivers' = drivers /\ "cpld" \in drivers /\ script' # "deinit"
      BY <1>2, <1>9, <2>2, InitLineStep DEF Numbered, Execute, Fault, Kill
    <3> QED BY <3>1 DEF Survives
  <2>3. CASE script = "deinit"
    <3>1. c \in clients
      BY <1>9, <2>3, DeinitLineStep DEF Shrunk
    <3> QED BY <1>1, <1>2, <1>3, <1>9, <2>3, <3>1, DeinitLineSurvived
  <2> QED BY <2>1, <2>2, <2>3, CurrentLine
<1> QED BY <1>5, <1>6, <1>7, <1>8, <1>9 DEF Next

(* Whatever the scripts and their faults did, the mux of a CPU board has   *)
(* i2c-2 to i2c-9 for as long as there are channels, and every other bus   *)
(* belongs to a mux on these that a line of deinit names: the fixed        *)
(* numbers of the scripts find the muxes.                                   *)
THEOREM NumbersHold == Spec => []Numbered
<1>1. Init => TypeOK /\ Shape /\ Numbered
  BY InitialTree, InitNumbered
<1>2. TypeOK /\ Shape /\ Numbered /\ [Next]_vars => (TypeOK /\ Shape /\ Numbered)'
  BY ShapeStep, TypeStep, NumberedStep
<1> QED BY <1>1, <1>2, PTL DEF Spec

(* It takes three faults to leave a CPLD without its driver: one at the    *)
(* line of deinit that deletes the CPLDs, one at the mux it is on and one  *)
(* at the mux above that, before "modprobe -r dell_s6100_iom_cpld", whose  *)
(* remove frees what the attributes of a CPLD that is left would use.      *)
THEOREM ThreeFaultsNeeded == Spec => [](faults <= 2 => NoCpldWithoutDriver)
<1>1. Init => TypeOK /\ Shape /\ Numbered /\ Surviving
  <2>1. Init => Surviving
    BY DEF Init, Surviving
  <2> QED BY <2>1, InitialTree, InitNumbered
<1>2. TypeOK /\ Shape /\ Numbered /\ Surviving /\ [Next]_vars
         => (TypeOK /\ Shape /\ Numbered /\ Surviving)'
  BY ShapeStep, TypeStep, NumberedStep, SurvivingStep
<1>3. TypeOK /\ Surviving => (faults <= 2 => NoCpldWithoutDriver)
  <2>1. SUFFICES ASSUME TypeOK, Surviving, faults <= 2, At("cpld") # {}
                 PROVE  "cpld" \in drivers
    BY DEF NoCpldWithoutDriver
  <2>2. PICK c \in clients : c.chip = "cpld"
    BY <2>1 DEF At
  <2>3. "cpld" \notin drivers => faults >= 3
    BY <2>1, <2>2 DEF Surviving, Survives
  <2> QED BY <2>1, <2>3, PlatformsAssumption DEF TypeOK
<1> QED BY <1>1, <1>2, <1>3, PTL DEF Spec

(* So where at most two commands fail or scripts are killed, a CPLD that   *)
(* is there has its driver.                                                *)
THEOREM CpldsDriven == MaxFaults <= 2 => (Spec => []NoCpldWithoutDriver)
<1> SUFFICES ASSUME MaxFaults <= 2 PROVE Spec => []NoCpldWithoutDriver
  OBVIOUS
<1>1. TypeOK => faults <= 2
  BY PlatformsAssumption DEF TypeOK
<1> QED BY <1>1, TypeCorrect, ThreeFaultsNeeded, PTL

-----------------------------------------------------------------------------
(* Every device in its place *)

(* The muxes, each with the bus it is on, its address and the first of the *)
(* eight numbers that are meant for its channels.                           *)
IomAddresses == IF platform = "s6100" THEN {\h71, \h72} ELSE {\h71}
IomMux(n, a) == [on |-> n, addr |-> a, first |-> FirstBus(n) + 8 * (a - \h71)]
FpgaMux(k)   == [on |-> IF k <= 4 THEN 604 ELSE 603, addr |-> \h74 + ((k - 1) % 4),
                 first |-> 8 * k - 6]
CpuHome      == [on |-> devnum, addr |-> \h70, first |-> 2]
SwitchHome   == [on |-> 4, addr |-> \h71, first |-> 10]

HomeMuxes ==
    IF platform = "z9264f"
      THEN {FpgaMux(k) : k \in 1 .. 8}
      ELSE {CpuHome, SwitchHome} \cup {IomMux(n, a) : n \in (6 .. 9) \ missing, a \in IomAddresses}

Owns(x, n) == n \in x.first .. x.first + 7

BoardQsfps == IF platform = "s6100" THEN 18 .. 81 ELSE 18 .. 49

(* What the lines of init put on bus number n.                             *)
Meant(n, addr, chip) ==
    \/ /\ chip = "mux"
       /\ <<n, addr>> \in RootMuxes \cup (IF platform = "z9264f" THEN {} ELSE BoardMuxes)
    \/ chip = "24c02" /\ <<n, addr>> = IF platform = "z9264f" THEN <<0, \h53>> ELSE <<2, \h50>>
    \/ chip = "cpld" /\ platform # "z9264f" /\ n \in 14 .. 17 /\ addr = \h3e
    \/ /\ chip = "sff8436" /\ addr = \h50
       /\ n \in IF platform = "z9264f" THEN 2 .. 65 ELSE {11, 12} \cup BoardQsfps

Has(n, addr, chip) ==
    n \in DOMAIN buses /\ [at |-> buses[n], addr |-> addr, chip |-> chip] \in clients

(* The place of the bus that a mux is on.                                  *)
Place(x) == IF x.on \in RootBuses THEN Root(x.on) ELSE CpuPlace(x.on)

(* Channel k of a mux.                                                     *)
ChannelOf(x, k) == Append(Place(x), <<x.addr, k>>)

HasMux(x) == Has(x.on, x.addr, "mux")

(* Every mux that is there has its numbers and no other, and every device  *)
(* is where the lines of init put it.                                       *)
Channelled ==
    "mux" \in drivers =>
        \A x \in HomeMuxes : HasMux(x) =>
            \A n \in x.first .. x.first + 7 :
                n \in DOMAIN buses /\ buses[n] = ChannelOf(x, n - x.first + 1)
Owned ==
    \A n \in DOMAIN buses \ RootBuses :
        "mux" \in drivers /\ \E x \in HomeMuxes : Owns(x, n) /\ HasMux(x)
Intended ==
    \A c \in clients : \E n \in DOMAIN buses :
        c = [at |-> buses[n], addr |-> c.addr, chip |-> c.chip] /\ Meant(n, c.addr, c.chip)
Rightful == Channelled /\ Owned /\ Intended

(* What the first k lines of init put on buses that are there is there.    *)
Present(k) ==
    /\ "mux" \in drivers
    /\ \A i \in 1 .. k : \A n \in InitLines[i].on \cap DOMAIN buses :
          Has(n, InitLines[i].addr, InitLines[i].chip)

(* From here on the three CPU boards' modules are plugged or not.          *)
Plugged == Supported /\ missing \in SUBSET (6 .. 9)

-----------------------------------------------------------------------------
(* The numbers of the muxes *)

LEMMA Addresses71 ==
    ASSUME Supported, platform # "z9264f"
    PROVE  /\ Len(QsfpMuxAddresses) = IF platform = "s6100" THEN 2 ELSE 1
           /\ ToSet(QsfpMuxAddresses) = IomAddresses
BY DEF QsfpMuxAddresses, IomAddresses, ToSet

(* The numbers of an I/O module come after those of the modules before it. *)
LEMMA FirstBuses ==
    ASSUME Plugged, platform # "z9264f"
    PROVE  \E w \in {8, 16} :
              /\ w = IF platform = "s6100" THEN 16 ELSE 8
              /\ FirstBus(9) = 18
              /\ \A n \in 6 .. 8 : /\ FirstBus(n) \in Nat
                                   /\ FirstBus(n) = FirstBus(n + 1) + IF n + 1 \in missing THEN 0 ELSE w
<1> DEFINE S(n) == ((n + 1) .. 9) \ missing
           card(n) == Cardinality(S(n))
           w == IF platform = "s6100" THEN 16 ELSE 8
<1>1. \A n \in 6 .. 9 : FirstBus(n) = 18 + w * card(n)
  <2>0. Len(QsfpMuxAddresses) = IF platform = "s6100" THEN 2 ELSE 1
    BY Addresses71, Zenon DEF Plugged
  <2>1. 8 * Len(QsfpMuxAddresses) = w
    BY <2>0
  <2>2. \A n : FirstBus(n) = 18 + 8 * Len(QsfpMuxAddresses) * card(n)
    BY Zenon DEF FirstBus
  <2> HIDE DEF w, card
  <2> QED BY <2>1, <2>2
<1>2. S(9) = {}
  OBVIOUS
<1>3. card(9) = 0
  BY <1>2, FS_EmptySet, Zenon
<1>4. ASSUME NEW n \in 6 .. 8
      PROVE  card(n) \in Nat /\ card(n) = card(n + 1) + IF n + 1 \in missing THEN 0 ELSE 1
  <2>1. S(n + 1) \in SUBSET (6 .. 9) /\ S(n) \in SUBSET (6 .. 9) /\ n + 1 \notin S(n + 1)
    OBVIOUS
  <2>2. IsFiniteSet(6 .. 9)
    <3>1. PICK a \in Int, b \in Int : a = 6 /\ b = 9
      OBVIOUS
    <3>2. IsFiniteSet(a .. b)
      BY FS_Interval
    <3> QED BY <3>1, <3>2
  <2>3. /\ IsFiniteSet(S(n + 1)) /\ card(n + 1) \in Nat
        /\ IsFiniteSet(S(n)) /\ card(n) \in Nat
    BY <2>1, <2>2, FS_Subset, FS_CardinalityType
  <2>4. CASE n + 1 \in missing
    <3>1. S(n) = S(n + 1)
      BY <2>4
    <3> QED BY <2>3, <2>4, <3>1
  <2>5. CASE n + 1 \notin missing
    <3>1. S(n) = S(n + 1) \cup {n + 1}
      BY <2>5
    <3>2. Cardinality(S(n + 1) \cup {n + 1}) = Cardinality(S(n + 1)) + 1
      BY <2>1, <2>3, FS_AddElement, Zenon
    <3> QED BY <2>3, <2>5, <3>1, <3>2
  <2> QED BY <2>4, <2>5
<1> HIDE DEF card
<1>5. \A n \in 6 .. 8 : n + 1 \in 6 .. 9 /\ n \in 6 .. 9
  OBVIOUS
<1>6. \A n \in 6 .. 9 : card(n) \in Nat
  BY <1>3, <1>4
<1>7. FirstBus(9) = 18
  BY <1>1, <1>3
<1>8. ASSUME NEW n \in 6 .. 8
      PROVE  /\ FirstBus(n) \in Nat
             /\ FirstBus(n) = FirstBus(n + 1) + IF n + 1 \in missing THEN 0 ELSE w
  <2>1. FirstBus(n) = 18 + w * card(n) /\ FirstBus(n + 1) = 18 + w * card(n + 1)
    BY <1>1, <1>5
  <2>2. card(n) \in Nat /\ card(n + 1) \in Nat
    BY <1>5, <1>6
  <2>3. card(n) = card(n + 1) + IF n + 1 \in missing THEN 0 ELSE 1
    BY <1>4
  <2> QED BY <2>1, <2>2, <2>3
<1> QED BY <1>7, <1>8

LEMMA IomNumbers ==
    ASSUME Plugged, platform # "z9264f"
    PROVE  \E w \in {8, 16} :
              /\ w = IF platform = "s6100" THEN 16 ELSE 8
              /\ \A a \in IomAddresses : 8 * (a - \h71) \in {0, w - 8} /\ a \in Nat
              /\ FirstBus(9) = 18
              /\ \A n \in 6 .. 9 : FirstBus(n) \in 18 .. 18 + (9 - n) * w
              /\ \A n, m \in 6 .. 9 : (m < n /\ n \notin missing) => FirstBus(m) >= FirstBus(n) + w
              /\ \A n \in 6 .. 8 : \E d \in {0, w} :
                    (n + 1 \in missing <=> d = 0) /\ FirstBus(n) = FirstBus(n + 1) + d
<1>1. PICK w \in {8, 16} :
              /\ w = IF platform = "s6100" THEN 16 ELSE 8
              /\ FirstBus(9) = 18
              /\ \A n \in 6 .. 8 : /\ FirstBus(n) \in Nat
                                   /\ FirstBus(n) = FirstBus(n + 1) + IF n + 1 \in missing THEN 0 ELSE w
  BY FirstBuses
<1>2. \A a \in IomAddresses : 8 * (a - \h71) \in {0, w - 8} /\ a \in Nat
  BY <1>1 DEF IomAddresses
<1>3. \A n \in 6 .. 8 : \E d \in {0, w} :
         (n + 1 \in missing <=> d = 0) /\ FirstBus(n) = FirstBus(n + 1) + d
  BY <1>1
<1>4. PICK d7 \in {0, w}, d8 \in {0, w}, d9 \in {0, w} :
         /\ 7 \in missing <=> d7 = 0
         /\ 8 \in missing <=> d8 = 0
         /\ 9 \in missing <=> d9 = 0
         /\ FirstBus(9) = 18
         /\ FirstBus(8) = FirstBus(9) + d9
         /\ FirstBus(7) = FirstBus(8) + d8
         /\ FirstBus(6) = FirstBus(7) + d7
  <2>1. 6 \in 6 .. 8 /\ 7 \in 6 .. 8 /\ 8 \in 6 .. 8 /\ 6 + 1 = 7 /\ 7 + 1 = 8 /\ 8 + 1 = 9
    OBVIOUS
  <2>2. FirstBus(9) = 18
    BY <1>1
  <2> QED BY <1>3, <2>1, <2>2
<1>5. PICK f6 \in Int, f7 \in Int, f8 \in Int, f9 \in Int :
         /\ f6 = FirstBus(6) /\ f7 = FirstBus(7) /\ f8 = FirstBus(8) /\ f9 = FirstBus(9)
         /\ f9 = 18 /\ f8 = f9 + d9 /\ f7 = f8 + d8 /\ f6 = f7 + d7
  BY <1>1, <1>4
<1>6. \A n \in 6 .. 9 : n = 6 \/ n = 7 \/ n = 8 \/ n = 9
  OBVIOUS
<1>7. ASSUME NEW n \in 6 .. 9
      PROVE  FirstBus(n) \in 18 .. 18 + (9 - n) * w
  <2>1. CASE w = 8
    <3>1. f9 \in 18 .. 18 /\ f8 \in 18 .. 26 /\ f7 \in 18 .. 34 /\ f6 \in 18 .. 42
      BY <1>4, <1>5, <2>1
    <3> QED BY <1>5, <1>6, <2>1, <3>1
  <2>2. CASE w = 16
    <3>1. f9 \in 18 .. 18 /\ f8 \in 18 .. 34 /\ f7 \in 18 .. 50 /\ f6 \in 18 .. 66
      BY <1>4, <1>5, <2>2
    <3> QED BY <1>5, <1>6, <2>2, <3>1
  <2> QED BY <2>1, <2>2
<1>8. ASSUME NEW n \in 6 .. 9, NEW m \in 6 .. 9, m < n, n \notin missing
      PROVE  FirstBus(m) >= FirstBus(n) + w
  <2>1. /\ f8 >= f9 /\ f7 >= f8 /\ f6 >= f7
        /\ 9 \notin missing => f8 >= f9 + w
        /\ 8 \notin missing => f7 >= f8 + w
        /\ 7 \notin missing => f6 >= f7 + w
    BY <1>4, <1>5
  <2>2. CASE n = 9
    BY <1>5, <1>6, <1>8, <2>1, <2>2
  <2>3. CASE n = 8
    BY <1>5, <1>6, <1>8, <2>1, <2>3
  <2>4. CASE n = 7
    BY <1>5, <1>6, <1>8, <2>1, <2>4
  <2>5. n # 6
    BY <1>8
  <2> QED BY <1>6, <2>2, <2>3, <2>4, <2>5
<1> QED BY <1>1, <1>2, <1>3, <1>4, <1>7, <1>8

(* The numbers of two muxes are apart, and a bus and an address make one.  *)
LEMMA HomeNumbers ==
    ASSUME Plugged
    PROVE  /\ \A x \in HomeMuxes :
                 /\ x.on \in Nat /\ x.addr \in Nat /\ x.first \in 2 .. 74
                 /\ \/ x.on \in RootBuses
                    \/ platform # "z9264f" /\ x.on \in {4, 6, 7, 8, 9} /\ x.first >= 10
                 /\ x.on \notin missing
                 /\ Meant(x.on, x.addr, "mux")
           /\ \A x, y \in HomeMuxes :
                 \/ x = y
                 \/ /\ x.first + 7 < y.first \/ y.first + 7 < x.first
                    /\ ~ (x.on = y.on /\ x.addr = y.addr)
<1>1. CASE platform = "z9264f"
  <2>1. \A x \in HomeMuxes : \E k \in 1 .. 8 : x = FpgaMux(k)
    BY <1>1 DEF HomeMuxes
  <2>2. \A k \in 1 .. 8 :
           LET x == FpgaMux(k)
           IN  /\ x.on \in {603, 604} /\ x.addr \in \h74 .. \h77 /\ x.first = 8 * k - 6
               /\ x.on = (IF k <= 4 THEN 604 ELSE 603)
               /\ x.addr = (IF k <= 4 THEN \h73 + k ELSE \h6f + k)
    BY DEF FpgaMux
  <2>3. ASSUME NEW x \in HomeMuxes
        PROVE  /\ x.on \in Nat /\ x.addr \in Nat /\ x.first \in 2 .. 74
               /\ x.on \in RootBuses /\ x.on \notin missing /\ Meant(x.on, x.addr, "mux")
    <3>1. PICK k \in 1 .. 8 : x = FpgaMux(k)
      BY <2>1
    <3> QED BY <1>1, <2>2, <3>1 DEF RootBuses, Meant, RootMuxes, Plugged
  <2>4. ASSUME NEW x \in HomeMuxes, NEW y \in HomeMuxes, x # y
        PROVE  /\ x.first + 7 < y.first \/ y.first + 7 < x.first
               /\ ~ (x.on = y.on /\ x.addr = y.addr)
    <3>1. PICK k \in 1 .. 8, j \in 1 .. 8 : x = FpgaMux(k) /\ y = FpgaMux(j)
      BY <2>1
    <3>2. k # j
      BY <2>4, <3>1
    <3> QED BY <2>2, <3>1, <3>2
  <2> QED BY <2>3, <2>4
<1>2. CASE platform # "z9264f"
  <2>0. PICK w \in {8, 16} :
              /\ w = IF platform = "s6100" THEN 16 ELSE 8
              /\ \A a \in IomAddresses : 8 * (a - \h71) \in {0, w - 8} /\ a \in Nat
              /\ FirstBus(9) = 18
              /\ \A n \in 6 .. 9 : FirstBus(n) \in 18 .. 18 + (9 - n) * w
              /\ \A n, m \in 6 .. 9 : (m < n /\ n \notin missing) => FirstBus(m) >= FirstBus(n) + w
    BY <1>2, IomNumbers
  <2>1. \A x \in HomeMuxes : \/ x = CpuHome \/ x = SwitchHome
                            \/ \E n \in (6 .. 9) \ missing, a \in IomAddresses : x = IomMux(n, a)
    BY <1>2 DEF HomeMuxes
  <2>2. ASSUME NEW n \in (6 .. 9) \ missing, NEW a \in IomAddresses
        PROVE  /\ IomMux(n, a).on = n /\ IomMux(n, a).addr = a
               /\ IomMux(n, a).first = FirstBus(n) + 8 * (a - \h71)
               /\ IomMux(n, a).first \in 18 .. 74
    <3>1. FirstBus(n) + 8 * (a - \h71) \in 18 .. 74
      <4>1. FirstBus(n) \in 18 .. 18 + (9 - n) * w /\ 8 * (a - \h71) \in {0, w - 8} /\ n \in 6 .. 9
        BY <2>0
      <4>2. PICK f \in Int, d \in Int : f = FirstBus(n) /\ d = 8 * (a - \h71)
        BY <4>1
      <4> QED BY <4>1, <4>2
    <3> QED BY <3>1 DEF IomMux
  <2>3. /\ CpuHome.on = devnum /\ CpuHome.addr = \h70 /\ CpuHome.first = 2
        /\ SwitchHome.on = 4 /\ SwitchHome.addr = \h71 /\ SwitchHome.first = 10
    BY DEF CpuHome, SwitchHome
  <2>4. RootBuses = {0, 1} /\ devnum \in {0, 1} /\ RootMuxes = {<<devnum, \h70>>} /\ missing \subseteq 6 .. 9
    BY <1>2 DEF RootBuses, Plugged, Supported, RootMuxes
  <2>5. /\ BoardMuxes = {<<4, \h71>>} \cup ((6 .. 9) \X IomAddresses)
        /\ IomAddresses \subseteq {\h71, \h72}
    BY DEF BoardMuxes, IomAddresses
  <2>6. ASSUME NEW x \in HomeMuxes
        PROVE  /\ x.on \in Nat /\ x.addr \in Nat /\ x.first \in 2 .. 74
               /\ x.on \in RootBuses \/ (x.on \in {4, 6, 7, 8, 9} /\ x.first >= 10)
               /\ x.on \notin missing
               /\ Meant(x.on, x.addr, "mux")
    <3>1. CASE x = CpuHome
      BY <1>2, <2>3, <2>4, <3>1 DEF Meant
    <3>2. CASE x = SwitchHome
      <4>1. <<4, \h71>> \in BoardMuxes
        BY <2>5
      <4>2. Meant(4, \h71, "mux")
        BY <1>2, <4>1 DEF Meant
      <4>3. x.on = 4 /\ x.addr = \h71 /\ x.first = 10
        BY <2>3, <3>2
      <4> QED BY <2>4, <4>2, <4>3
    <3>3. ASSUME NEW n \in (6 .. 9) \ missing, NEW a \in IomAddresses, x = IomMux(n, a)
          PROVE  /\ x.on \in Nat /\ x.addr \in Nat /\ x.first \in 2 .. 74
                 /\ x.on \in RootBuses \/ (x.on \in {4, 6, 7, 8, 9} /\ x.first >= 10)
                 /\ x.on \notin missing
                 /\ Meant(x.on, x.addr, "mux")
      <4>1. x.on = n /\ x.addr = a /\ x.first \in 18 .. 74 /\ a \in Nat
        BY <2>0, <2>2, <3>3
      <4>2. <<n, a>> \in BoardMuxes
        BY <2>5
      <4>3. Meant(n, a, "mux")
        BY <1>2, <4>2 DEF Meant
      <4> QED BY <4>1, <4>3
    <3> QED BY <2>1, <3>1, <3>2, <3>3, Zenon
  <2>7. ASSUME NEW x \in HomeMuxes, NEW y \in HomeMuxes, x # y
        PROVE  /\ x.first + 7 < y.first \/ y.first + 7 < x.first
               /\ ~ (x.on = y.on /\ x.addr = y.addr)
    <3>1. ASSUME NEW n \in (6 .. 9) \ missing, NEW a \in IomAddresses, x = IomMux(n, a),
                 NEW m \in (6 .. 9) \ missing, NEW b \in IomAddresses, y = IomMux(m, b)
          PROVE  /\ x.first + 7 < y.first \/ y.first + 7 < x.first
                 /\ ~ (x.on = y.on /\ x.addr = y.addr)
      <4>1. n # m \/ a # b
        BY <2>7, <3>1
      <4>2. /\ x.on = n /\ x.addr = a /\ x.first = FirstBus(n) + 8 * (a - \h71)
            /\ y.on = m /\ y.addr = b /\ y.first = FirstBus(m) + 8 * (b - \h71)
        BY <2>2, <3>1
      <4>3. PICK f \in Nat, g \in Nat, d \in {0, w - 8}, e \in {0, w - 8} :
               f = FirstBus(n) /\ g = FirstBus(m) /\ d = 8 * (a - \h71) /\ e = 8 * (b - \h71)
        BY <2>0
      <4>4. x.first = f + d /\ y.first = g + e
        BY <4>2, <4>3
      <4>5. CASE n = m
        <5>1. a \in {\h71, \h72} /\ b \in {\h71, \h72} /\ a # b
          BY <2>5, <4>1, <4>5
        <5>2. f = g /\ (e = d + 8 \/ d = e + 8)
          BY <4>3, <4>5, <5>1
        <5> QED BY <4>1, <4>2, <4>4, <4>5, <5>2
      <4>6. CASE n # m
        <5>1. f >= g + w \/ g >= f + w
          BY <2>0, <4>3, <4>6
        <5> QED BY <4>2, <4>4, <4>6, <5>1
      <4> QED BY <4>5, <4>6
    <3>2. ASSUME NEW n \in (6 .. 9) \ missing, NEW a \in IomAddresses, NEW z \in {CpuHome, SwitchHome}
          PROVE  /\ z.first + 7 < IomMux(n, a).first
                 /\ z.on # IomMux(n, a).on
      BY <2>2, <2>3, <2>4
    <3>3. /\ CpuHome.first + 7 < SwitchHome.first
          /\ CpuHome.on # SwitchHome.on
      BY <2>3, <2>4
    <3>4. CASE x \in {CpuHome, SwitchHome} /\ y \in {CpuHome, SwitchHome}
      BY <2>7, <3>3, <3>4
    <3>5. CASE x \in {CpuHome, SwitchHome} /\ y \notin {CpuHome, SwitchHome}
      BY <2>1, <3>2, <3>5
    <3>6. CASE x \notin {CpuHome, SwitchHome} /\ y \in {CpuHome, SwitchHome}
      BY <2>1, <3>2, <3>6
    <3>7. CASE x \notin {CpuHome, SwitchHome} /\ y \notin {CpuHome, SwitchHome}
      BY <2>1, <3>1, <3>7
    <3> QED BY <3>4, <3>5, <3>6, <3>7
  <2> QED BY <1>2, <2>6, <2>7
<1> QED BY <1>1, <1>2

LEMMA FirstNumber ==
    ASSUME Plugged, NEW x \in HomeMuxes
    PROVE  \E f \in Nat : f = x.first /\ f >= 2 /\ f <= 74
<1>1. x.first \in 2 .. 74
  BY HomeNumbers, Zenon
<1> DEFINE f == x.first
<1> HIDE DEF f
<1>2. f \in 2 .. 74
  BY <1>1 DEF f
<1>3. f \in Nat /\ f >= 2 /\ f <= 74
  BY <1>2
<1> QED BY <1>3, Zenon DEF f

(* Every number before those of a mux is one of another mux.               *)
LEMMA Covered ==
    ASSUME Plugged, NEW x \in HomeMuxes, NEW n \in 2 .. x.first - 1
    PROVE  \E y \in HomeMuxes : Owns(y, n) /\ y.first < x.first
<1>1. CASE platform = "z9264f"
  <2>1. PICK k \in 1 .. 8 : x = FpgaMux(k)
    BY <1>1 DEF HomeMuxes
  <2>2. x.first = 8 * k - 6
    BY <2>1 DEF FpgaMux
  <2>3. PICK j \in 1 .. 8 : n \in 8 * j - 6 .. 8 * j + 1
    <3>1. \A j \in 1 .. 7 : n \in 8 * j - 6 .. 8 * j + 1 \/ n < 8 * j - 6 \/ n >= 8 * (j + 1) - 6
      OBVIOUS
    <3>2. n >= 2 /\ n < 58
      BY <2>2
    <3>3. \/ n \in 2 .. 9 \/ n \in 10 .. 17 \/ n \in 18 .. 25 \/ n \in 26 .. 33
          \/ n \in 34 .. 41 \/ n \in 42 .. 49 \/ n \in 50 .. 57
      BY <3>2
    <3> QED BY <3>3
  <2>4. FpgaMux(j) \in HomeMuxes /\ FpgaMux(j).first = 8 * j - 6
    BY <1>1 DEF HomeMuxes, FpgaMux
  <2> QED BY <2>2, <2>3, <2>4 DEF Owns
<1>2. CASE platform # "z9264f"
  <2>0. PICK w \in {8, 16} :
              /\ w = IF platform = "s6100" THEN 16 ELSE 8
              /\ FirstBus(9) = 18
              /\ \A m \in 6 .. 9 : FirstBus(m) \in 18 .. 18 + (9 - m) * w
              /\ \A m \in 6 .. 8 : \E d \in {0, w} :
                    (m + 1 \in missing <=> d = 0) /\ FirstBus(m) = FirstBus(m + 1) + d
              /\ \A a \in IomAddresses : 8 * (a - \h71) \in {0, w - 8} /\ a \in Nat
    BY <1>2, IomNumbers
  <2>1. \/ x = CpuHome \/ x = SwitchHome
        \/ \E m \in (6 .. 9) \ missing, a \in IomAddresses : x = IomMux(m, a)
    BY <1>2 DEF HomeMuxes
  <2>2. /\ CpuHome \in HomeMuxes /\ CpuHome.first = 2
        /\ SwitchHome \in HomeMuxes /\ SwitchHome.first = 10
        /\ \A m \in (6 .. 9) \ missing, a \in IomAddresses :
              /\ IomMux(m, a) \in HomeMuxes
              /\ IomMux(m, a).first = FirstBus(m) + 8 * (a - \h71)
    BY <1>2 DEF HomeMuxes, CpuHome, SwitchHome, IomMux
  <2>3. CASE n < 18
    <3>0. PICK f \in 2 .. 74 : f = x.first
      BY HomeNumbers
    <3>1. CASE n < 10
      <4>1. n \in 2 .. 9 /\ 2 < f
        BY <3>0, <3>1
      <4> QED BY <2>2, <3>0, <4>1 DEF Owns
    <3>2. CASE n >= 10
      <4>1. n \in 10 .. 17 /\ 10 < f
        BY <2>3, <3>0, <3>2
      <4> QED BY <2>2, <3>0, <4>1 DEF Owns
    <3> QED BY <3>1, <3>2
  <2>4. CASE n >= 18
    <3> DEFINE Mine(m) == m \notin missing /\ n \in FirstBus(m) .. FirstBus(m) + w - 1
    <3>1. PICK m \in (6 .. 9) \ missing : n < FirstBus(m) + w
      <4>1. PICK m \in (6 .. 9) \ missing, a \in IomAddresses : x = IomMux(m, a)
        BY <2>1, <2>2, <2>4
      <4>2. FirstBus(m) \in Nat /\ 8 * (a - \h71) \in {0, w - 8}
        BY <2>0
      <4> QED BY <2>2, <4>1, <4>2
    <3>2. \A j \in 6 .. 8 :
             n < FirstBus(j) => \/ n < FirstBus(j + 1)
                               \/ Mine(j + 1)
      BY <2>0
    <3>3. PICK j \in 6 .. 9 : Mine(j)
      <4>1. \A j \in 6 .. 9 : FirstBus(j) \in Int
        BY <2>0
      <4>2. ~ n < FirstBus(9)
        BY <2>0, <2>4
      <4>3. Mine(m) \/ n < FirstBus(m)
        BY <3>1, <4>1
      <4>4. m = 6 \/ m = 7 \/ m = 8 \/ m = 9
        BY <3>1
      <4>5. /\ n < FirstBus(8) => Mine(9)
            /\ n < FirstBus(7) => n < FirstBus(8) \/ Mine(8)
            /\ n < FirstBus(6) => n < FirstBus(7) \/ Mine(7)
        <5>1. 6 \in 6 .. 8 /\ 7 \in 6 .. 8 /\ 8 \in 6 .. 8 /\ 6 + 1 = 7 /\ 7 + 1 = 8 /\ 8 + 1 = 9
          OBVIOUS
        <5> HIDE DEF Mine
        <5> QED BY <3>2, <4>2, <5>1
      <4>6. Mine(6) \/ Mine(7) \/ Mine(8) \/ Mine(9)
        <5> HIDE DEF Mine
        <5> QED BY <4>2, <4>3, <4>4, <4>5
      <4>7. 6 \in 6 .. 9 /\ 7 \in 6 .. 9 /\ 8 \in 6 .. 9 /\ 9 \in 6 .. 9
        OBVIOUS
      <4> HIDE DEF Mine
      <4> QED BY <4>6, <4>7
    <3>4. PICK a \in IomAddresses : n \in FirstBus(j) + 8 * (a - \h71) .. FirstBus(j) + 8 * (a - \h71) + 7
      <4>1. PICK f \in Nat : f = FirstBus(j)
        BY <2>0
      <4>2. n \in f .. f + w - 1
        BY <3>3, <4>1
      <4>3. CASE w = 8
        <5>1. \h71 \in IomAddresses
          BY DEF IomAddresses
        <5> QED BY <4>1, <4>2, <4>3, <5>1
      <4>4. CASE w = 16
        <5>1. \h71 \in IomAddresses /\ \h72 \in IomAddresses
          BY <2>0, <4>4 DEF IomAddresses
        <5>2. n \in f .. f + 7 \/ n \in f + 8 .. f + 15
          BY <4>2, <4>4
        <5> QED BY <4>1, <5>1, <5>2
      <4> QED BY <4>3, <4>4
    <3>5. j \in (6 .. 9) \ missing
      BY <3>3
    <3>6. Owns(IomMux(j, a), n) /\ IomMux(j, a) \in HomeMuxes
      BY <2>2, <3>4, <3>5 DEF Owns
    <3>7. IomMux(j, a).first \in Nat
      BY <2>0, <2>2, <3>5
    <3> QED BY <3>6, <3>7, HomeNumbers DEF Owns
  <2> QED BY <2>3, <2>4
<1> QED BY <1>1, <1>2

(* A mux that the script puts on a bus is one of them, but for those of    *)
(* the I/O modules that are not there.                                     *)
LEMMA MuxHome ==
    ASSUME Plugged, NEW n, NEW a, Meant(n, a, "mux")
    PROVE  n \in missing \/ \E x \in HomeMuxes : x.on = n /\ x.addr = a
<1>1. CASE platform = "z9264f"
  <2>1. n \in {603, 604} /\ a \in \h74 .. \h77
    BY <1>1 DEF Meant, RootMuxes
  <2>2. PICK k \in 1 .. 8 : k = IF n = 604 THEN a - \h73 ELSE a - \h6f
    BY <2>1
  <2>3. FpgaMux(k) \in HomeMuxes
    BY <1>1 DEF HomeMuxes
  <2>4. FpgaMux(k).on = n /\ FpgaMux(k).addr = a
    BY <2>1, <2>2 DEF FpgaMux
  <2> QED BY <2>3, <2>4
<1>2. CASE platform # "z9264f"
  <2>1. <<n, a>> \in {<<devnum, \h70>>, <<4, \h71>>} \cup ((6 .. 9) \X IomAddresses)
    BY <1>2 DEF Meant, RootMuxes, BoardMuxes, IomAddresses
  <2>2. CASE n \in (6 .. 9) \ missing /\ a \in IomAddresses
    <3>1. IomMux(n, a) \in HomeMuxes
      BY <1>2, <2>2 DEF HomeMuxes
    <3>2. IomMux(n, a).on = n /\ IomMux(n, a).addr = a
      BY DEF IomMux
    <3> QED BY <3>1, <3>2
  <2>3. CASE n = devnum /\ a = \h70
    <3>1. CpuHome \in HomeMuxes
      BY <1>2 DEF HomeMuxes
    <3>2. CpuHome.on = devnum /\ CpuHome.addr = \h70
      BY DEF CpuHome
    <3> QED BY <2>3, <3>1, <3>2
  <2>4. CASE n = 4 /\ a = \h71
    <3>1. SwitchHome \in HomeMuxes
      BY <1>2 DEF HomeMuxes
    <3>2. SwitchHome.on = 4 /\ SwitchHome.addr = \h71
      BY DEF SwitchHome
    <3> QED BY <2>4, <3>1, <3>2
  <2>5. \/ n \in 6 .. 9 /\ a \in IomAddresses
        \/ n = devnum /\ a = \h70
        \/ n = 4 /\ a = \h71
    BY <2>1
  <2> QED BY <2>2, <2>3, <2>4, <2>5
<1> QED BY <1>1, <1>2

-----------------------------------------------------------------------------
(* The lines of init, one by one *)

LEMMA FpgaInitIs ==
    ASSUME platform = "z9264f"
    PROVE  /\ Len(InitLines) = 10
           /\ InitLines[1] = FpgaEepromLine
           /\ \A k \in 1 .. 8 : InitLines[k + 1] = NewMux(FpgaMux(k).on, FpgaMux(k).addr)
           /\ InitLines[10] = Sff(2 .. 65)
<1> DEFINE first == << FpgaEepromLine >>
           two   == first \o FpgaMuxLines
<1>1. /\ first \in Seq(Adding) /\ Len(first) = 1 /\ first[1] = FpgaEepromLine
      /\ FpgaMuxLines \in Seq(Adding) /\ Len(FpgaMuxLines) = 8
      /\ Sff(2 .. 65) \in Adding
  BY FpgaLinesFit
<1>2. InitLines = two \o << Sff(2 .. 65) >>
  BY DEF InitLines, FpgaInit
<1>3. \A k \in 1 .. 8 : FpgaMuxLines[k] = NewMux(FpgaMux(k).on, FpgaMux(k).addr)
  BY DEF FpgaMuxLines, FpgaMux
<1> HIDE DEF first
<1>4. two \in Seq(Adding) /\ Len(two) = Len(first) + Len(FpgaMuxLines)
  BY <1>1, Joined, Zenon
<1>5. Len(two) = 9
  BY <1>1, <1>4
<1>6. ASSUME NEW k \in 1 .. 8 PROVE two[k + 1] = FpgaMuxLines[k]
  <2>0. first \in Seq(Adding) /\ FpgaMuxLines \in Seq(Adding)
    BY <1>1
  <2>1. \A i \in 1 .. Len(FpgaMuxLines) : two[Len(first) + i] = FpgaMuxLines[i]
    BY <2>0, JoinedBack, SMT
  <2> HIDE DEF two
  <2> QED BY <1>1, <2>1
<1>7. two[1] = FpgaEepromLine
  <2>1. \A i \in 1 .. Len(first) : two[i] = first[i]
    BY <1>1, JoinedFront, Zenon
  <2> HIDE DEF two
  <2> QED BY <1>1, <2>1
<1> HIDE DEF two
<1>8. << Sff(2 .. 65) >> \in Seq(Adding) /\ Len(<< Sff(2 .. 65) >>) = 1
  BY <1>1
<1>9. Len(InitLines) = Len(two) + Len(<< Sff(2 .. 65) >>)
  BY <1>2, <1>4, <1>8, Joined, Zenon
<1>10. InitLines[Len(two) + 1] = Sff(2 .. 65)
  BY <1>1, <1>2, <1>4, JoinedLast, Zenon
<1>11. \A i \in 1 .. Len(two) : InitLines[i] = two[i]
  BY <1>2, <1>4, <1>8, JoinedFront, Zenon
<1>12. \A i \in 1 .. 9 : InitLines[i] = two[i]
  BY <1>5, <1>11
<1> QED BY <1>3, <1>5, <1>6, <1>7, <1>8, <1>9, <1>10, <1>12

LEMMA BoardInitIs ==
    ASSUME Supported, platform # "z9264f"
    PROVE  \E each \in {1, 2} :
              /\ each = IF platform = "s6100" THEN 2 ELSE 1
              /\ Len(InitLines) = (IF each = 2 THEN 17 ELSE 10)
              /\ InitLines[1] = CpuMuxLine /\ InitLines[2] = SwitchMuxLine
              /\ InitLines[3] = EepromLine /\ InitLines[4] = CpldLine
              /\ \A k \in 1 .. 4 * each :
                    InitLines[4 + k] = NewMux(9 - ((k - 1) \div each), \h71 + ((k - 1) % each))
              /\ InitLines[5 + 4 * each] = SfpLine
              /\ \A k \in 1 .. (IF each = 2 THEN 4 ELSE 1) :
                    InitLines[5 + 4 * each + k] = QsfpSff[k]
<1>0. PICK each \in {1, 2} : each = IF platform = "s6100" THEN 2 ELSE 1
  OBVIOUS
<1> DEFINE first == << CpuMuxLine, SwitchMuxLine, EepromLine, CpldLine >>
           two   == first \o QsfpMuxLines
           three == two \o << SfpLine >>
<1>1. /\ first \in Seq(Adding) /\ Len(first) = 4
      /\ first[1] = CpuMuxLine /\ first[2] = SwitchMuxLine
      /\ first[3] = EepromLine /\ first[4] = CpldLine
  BY BoardLines
<1>2. /\ QsfpMuxLines \in Seq(Adding) /\ Len(QsfpMuxLines) = 4 * each
      /\ QsfpSff \in Seq(Adding) /\ Len(QsfpSff) = (IF each = 2 THEN 4 ELSE 1)
      /\ << SfpLine >> \in Seq(Adding) /\ Len(<< SfpLine >>) = 1
      /\ SfpLine \in Adding
  BY <1>0, QsfpMuxLinesFit, QsfpSffFit, BoardLines
<1>a. QsfpSff \in Seq(Adding) /\ << SfpLine >> \in Seq(Adding)
  BY <1>2
<1>3. InitLines = three \o QsfpSff
  BY DEF InitLines, BoardInit
<1>4. \A k \in 1 .. 4 * each :
         QsfpMuxLines[k] = NewMux(9 - ((k - 1) \div each), \h71 + ((k - 1) % each))
  <2>1. Len(QsfpMuxAddresses) = each
    BY <1>0 DEF QsfpMuxAddresses
  <2>2. QsfpMuxLines = [k \in 1 .. 4 * each |->
            NewMux(NineToSix[((k - 1) \div each) + 1], QsfpMuxAddresses[((k - 1) % each) + 1])]
    BY <2>1, Zenon DEF QsfpMuxLines
  <2>3. ASSUME NEW k \in 1 .. 4 * each
        PROVE  /\ NineToSix[((k - 1) \div each) + 1] = 9 - ((k - 1) \div each)
               /\ QsfpMuxAddresses[((k - 1) % each) + 1] = \h71 + ((k - 1) % each)
    <3>1. CASE each = 1
      BY <1>0, <3>1 DEF NineToSix, QsfpMuxAddresses
    <3>2. CASE each = 2
      <4>1. (k - 1) \div 2 \in 0 .. 3 /\ (k - 1) % 2 \in 0 .. 1
        BY <3>2
      <4>2. \A i \in 0 .. 3 : NineToSix[i + 1] = 9 - i
        BY DEF NineToSix
      <4>3. \A i \in 0 .. 1 : QsfpMuxAddresses[i + 1] = \h71 + i
        BY <1>0, <3>2 DEF QsfpMuxAddresses
      <4> QED BY <3>2, <4>1, <4>2, <4>3
    <3> QED BY <3>1, <3>2
  <2> QED BY <2>2, <2>3
<1> HIDE DEF first
<1>5. two \in Seq(Adding) /\ Len(two) = Len(first) + Len(QsfpMuxLines)
  BY <1>1, <1>2, Joined, Zenon
<1>6. Len(two) = 4 + 4 * each
  BY <1>1, <1>2, <1>5
<1>7. \A k \in 1 .. Len(first) : two[k] = first[k]
  BY <1>1, <1>2, JoinedFront, Zenon
<1>8. ASSUME NEW k \in 1 .. Len(QsfpMuxLines) PROVE two[Len(first) + k] = QsfpMuxLines[k]
  <2>0. first \in Seq(Adding) /\ QsfpMuxLines \in Seq(Adding)
    BY <1>1, <1>2
  <2>1. (first \o QsfpMuxLines)[Len(first) + k] = QsfpMuxLines[k]
    BY <2>0, JoinedBack, SMT
  <2> QED BY <2>1
<1> HIDE DEF two
<1>9. three \in Seq(Adding) /\ Len(three) = Len(two) + Len(<< SfpLine >>)
  BY <1>2, <1>5, Joined, Zenon
<1>10. Len(three) = 5 + 4 * each
  BY <1>2, <1>6, <1>9
<1>b. two \in Seq(Adding) /\ three \in Seq(Adding)
  BY <1>5, <1>9
<1>11. ASSUME NEW k \in 1 .. Len(two) PROVE three[k] = two[k]
  BY <1>a, <1>b, JoinedFront, Zenon
<1>12. three[Len(two) + 1] = SfpLine
  <2>1. (two \o << SfpLine >>)[Len(two) + 1] = SfpLine
    BY <1>2, <1>5, JoinedLast, Zenon
  <2> QED BY <2>1
<1> HIDE DEF three
<1>13. Len(InitLines) = Len(three) + Len(QsfpSff)
  BY <1>2, <1>3, <1>9, Joined, Zenon
<1>14. \A k \in 1 .. Len(three) : InitLines[k] = three[k]
  BY <1>2, <1>3, <1>9, JoinedFront, Zenon
<1>15. ASSUME NEW k \in 1 .. Len(QsfpSff) PROVE InitLines[Len(three) + k] = QsfpSff[k]
  <2>0. three \in Seq(Adding) /\ QsfpSff \in Seq(Adding)
    BY <1>a, <1>b
  <2>1. (three \o QsfpSff)[Len(three) + k] = QsfpSff[k]
    BY <2>0, JoinedBack, SMT
  <2> QED BY <1>3, <2>1
<1> DEFINE n == 4 * each
<1>16. n \in 4 .. 8 /\ Len(two) = 4 + n /\ Len(three) = 5 + n /\ Len(first) = 4
  BY <1>1, <1>6, <1>10
<1>17. \A k \in 1 .. 4 : InitLines[k] = first[k]
  <2> HIDE DEF n
  <2> QED BY <1>7, <1>11, <1>14, <1>16
<1>18. \A k \in 1 .. n : InitLines[4 + k] = QsfpMuxLines[k]
  <2>1. Len(QsfpMuxLines) = n
    BY <1>2
  <2> HIDE DEF n
  <2> QED BY <1>8, <1>11, <1>14, <1>16, <2>1
<1>19. InitLines[5 + n] = SfpLine
  <2> HIDE DEF n
  <2> QED BY <1>12, <1>14, <1>16
<1>20. Len(InitLines) = (IF each = 2 THEN 17 ELSE 10)
  BY <1>2, <1>10, <1>13
<1>21. \A k \in 1 .. (IF each = 2 THEN 4 ELSE 1) : InitLines[5 + n + k] = QsfpSff[k]
  <2>1. \A k \in 1 .. Len(QsfpSff) : InitLines[5 + n + k] = QsfpSff[k]
    BY <1>15, <1>16
  <2> HIDE DEF n
  <2> QED BY <1>2, <2>1
<1>22. /\ InitLines[1] = CpuMuxLine /\ InitLines[2] = SwitchMuxLine
       /\ InitLines[3] = EepromLine /\ InitLines[4] = CpldLine
  BY <1>1, <1>17
<1>23. \A k \in 1 .. n : InitLines[4 + k] = NewMux(9 - ((k - 1) \div each), \h71 + ((k - 1) % each))
  BY <1>4, <1>18, Zenon
<1> QED BY <1>0, <1>19, <1>20, <1>21, <1>22, <1>23, Zenon

(* What a line for QSFP EEPROMs is.                                        *)
IsQsfpLine(l) ==
    /\ l.op = "new" /\ l.addr = \h50 /\ l.chip = "sff8436" /\ l.under = {}
    /\ \/ platform = "s6100" /\ \E r \in {18, 34, 50, 66} : l.poll = {r} /\ l.on = r .. r + 15
       \/ platform # "s6100" /\ l.poll = {} /\ l.on = 18 .. 49

IomLine(each, n, a) == 5 + (9 - n) * each + (a - \h71)

LEMMA QsfpLines ==
    ASSUME Supported, platform # "z9264f"
    PROVE  /\ \A k \in 1 .. (IF platform = "s6100" THEN 4 ELSE 1) : IsQsfpLine(QsfpSff[k])
           /\ \A n \in BoardQsfps : \E k \in 1 .. (IF platform = "s6100" THEN 4 ELSE 1) :
                 n \in QsfpSff[k].on
<1>1. CASE platform = "s6100"
  <2>1. \A k \in 1 .. 4 :
           QsfpSff[k] = IfExists(QsfpRanges[k][1], Sff(QsfpRanges[k][1] .. QsfpRanges[k][2]))
    BY <1>1, Zenon DEF QsfpSff
  <2>2. ASSUME NEW k \in 1 .. 4
        PROVE  QsfpRanges[k][1] = 16 * k + 2 /\ QsfpRanges[k][2] = 16 * k + 17
    BY DEF QsfpRanges
  <2>3. ASSUME NEW k \in 1 .. 4, NEW r \in Int, NEW e \in Int, r = 16 * k + 2, e = 16 * k + 17
        PROVE  IsQsfpLine(QsfpSff[k]) /\ QsfpSff[k].on = r .. e
    <3>1. QsfpSff[k] = IfExists(r, Sff(r .. e))
      BY <2>1, <2>2, <2>3, SMT
    <3>2. r \in {18, 34, 50, 66} /\ e = r + 15
      BY <2>3
    <3>3. /\ IfExists(r, Sff(r .. e)).op = "new" /\ IfExists(r, Sff(r .. e)).addr = \h50
          /\ IfExists(r, Sff(r .. e)).chip = "sff8436" /\ IfExists(r, Sff(r .. e)).under = {}
          /\ IfExists(r, Sff(r .. e)).poll = {r} /\ IfExists(r, Sff(r .. e)).on = r .. e
      BY DEF IfExists, Sff, New
    <3> DEFINE l == QsfpSff[k]
    <3>4. /\ l.op = "new" /\ l.addr = \h50 /\ l.chip = "sff8436" /\ l.under = {}
          /\ l.poll = {r} /\ l.on = r .. e
      BY <3>1, <3>3, Zenon
    <3> HIDE DEF l
    <3>5. l.on = r .. r + 15
      BY <3>2, <3>4
    <3>6. IsQsfpLine(l)
      BY <1>1, <3>2, <3>4, <3>5, Zenon DEF IsQsfpLine
    <3> QED BY <3>4, <3>6 DEF l
  <2>4. ASSUME NEW n \in 18 .. 81 PROVE \E k \in 1 .. 4 : n \in 16 * k + 2 .. 16 * k + 17
    <3>1. n \in 18 .. 33 \/ n \in 34 .. 49 \/ n \in 50 .. 65 \/ n \in 66 .. 81
      OBVIOUS
    <3> QED BY <3>1
  <2>5. \A k \in 1 .. 4 : 16 * k + 2 \in Int /\ 16 * k + 17 \in Int
    OBVIOUS
  <2>6. \A k \in 1 .. 4 : IsQsfpLine(QsfpSff[k]) /\ QsfpSff[k].on = 16 * k + 2 .. 16 * k + 17
    BY <2>3, <2>5
  <2> QED BY <1>1, <2>4, <2>6 DEF BoardQsfps
<1>2. CASE platform # "s6100"
  <2>1. QsfpSff = << Sff(18 .. 49) >>
    BY <1>2 DEF QsfpSff
  <2>2. QsfpSff[1] = Sff(18 .. 49)
    BY <2>1
  <2>3. /\ Sff(18 .. 49).op = "new" /\ Sff(18 .. 49).addr = \h50
        /\ Sff(18 .. 49).chip = "sff8436" /\ Sff(18 .. 49).under = {}
        /\ Sff(18 .. 49).poll = {} /\ Sff(18 .. 49).on = 18 .. 49
    BY DEF Sff, New
  <2>4. IsQsfpLine(QsfpSff[1])
    BY <1>2, <2>2, <2>3 DEF IsQsfpLine
  <2> QED BY <1>2, <2>2, <2>3, <2>4 DEF BoardQsfps
<1> QED BY <1>1, <1>2

LEMMA BoardLineKinds ==
    ASSUME Supported, platform # "z9264f"
    PROVE  \E each \in {1, 2} :
              /\ each = IF platform = "s6100" THEN 2 ELSE 1
              /\ \A i \in 1 .. Len(InitLines) :
                    \/ i = 1 /\ InitLines[i] = CpuMuxLine
                    \/ i = 2 /\ InitLines[i] = SwitchMuxLine
                    \/ i = 3 /\ InitLines[i] = EepromLine
                    \/ i = 4 /\ InitLines[i] = CpldLine
                    \/ \E n \in 6 .. 9, a \in IomAddresses :
                          i = IomLine(each, n, a) /\ InitLines[i] = NewMux(n, a)
                    \/ i = 5 + 4 * each /\ InitLines[i] = SfpLine
                    \/ i > 5 + 4 * each /\ IsQsfpLine(InitLines[i])
              /\ 5 + 4 * each \in 1 .. Len(InitLines) /\ InitLines[5 + 4 * each] = SfpLine
              /\ \A n \in 6 .. 9, a \in IomAddresses :
                    /\ IomLine(each, n, a) \in 5 .. 4 + 4 * each
                    /\ InitLines[IomLine(each, n, a)] = NewMux(n, a)
              /\ \A n \in BoardQsfps : \E i \in 1 .. Len(InitLines) :
                    n \in InitLines[i].on /\ IsQsfpLine(InitLines[i])
<1>1. PICK each \in {1, 2} :
              /\ each = IF platform = "s6100" THEN 2 ELSE 1
              /\ Len(InitLines) = (IF each = 2 THEN 17 ELSE 10)
              /\ InitLines[1] = CpuMuxLine /\ InitLines[2] = SwitchMuxLine
              /\ InitLines[3] = EepromLine /\ InitLines[4] = CpldLine
              /\ \A k \in 1 .. 4 * each :
                    InitLines[4 + k] = NewMux(9 - ((k - 1) \div each), \h71 + ((k - 1) % each))
              /\ InitLines[5 + 4 * each] = SfpLine
              /\ \A k \in 1 .. (IF each = 2 THEN 4 ELSE 1) :
                    InitLines[5 + 4 * each + k] = QsfpSff[k]
  BY BoardInitIs
<1> DEFINE sffs == IF platform = "s6100" THEN 4 ELSE 1
<1>2. /\ Len(InitLines) = 5 + 4 * each + sffs /\ sffs \in 1 .. 4
      /\ IomAddresses = IF each = 2 THEN {\h71, \h72} ELSE {\h71}
  <2>1. IomAddresses = IF each = 2 THEN {\h71, \h72} ELSE {\h71}
    BY <1>1 DEF IomAddresses
  <2>2. CASE each = 1
    BY <1>1, <2>1, <2>2
  <2>3. CASE each = 2
    BY <1>1, <2>1, <2>3
  <2> QED BY <2>2, <2>3
<1>3. \A k \in 1 .. sffs : InitLines[5 + 4 * each + k] = QsfpSff[k]
  BY <1>1
<1>4. /\ \A k \in 1 .. sffs : IsQsfpLine(QsfpSff[k])
      /\ \A n \in BoardQsfps : \E k \in 1 .. sffs : n \in QsfpSff[k].on
  BY QsfpLines
<1> HIDE DEF sffs
<1>5. ASSUME NEW i \in 5 .. 4 + 4 * each
      PROVE  \E n \in 6 .. 9, a \in IomAddresses :
                i = IomLine(each, n, a) /\ InitLines[i] = NewMux(n, a)
  <2>1. PICK k \in 1 .. 4 * each : k = i - 4
    BY <1>1
  <2>2. InitLines[i] = NewMux(9 - ((k - 1) \div each), \h71 + ((k - 1) % each))
    BY <1>1, <2>1
  <2>3. PICK n \in 6 .. 9, a \in IomAddresses :
           /\ n = 9 - ((k - 1) \div each) /\ a = \h71 + ((k - 1) % each)
           /\ k = 1 + (9 - n) * each + (a - \h71)
    <3>1. CASE each = 1
      BY <1>2, <3>1
    <3>2. CASE each = 2
      BY <1>2, <3>2
    <3> QED BY <3>1, <3>2
  <2>4. i = 5 + (9 - n) * each + (a - \h71)
    <3>1. PICK d \in Int, e \in Int : d = (9 - n) * each /\ e = a - \h71
      BY <1>2
    <3> QED BY <2>1, <2>3, <3>1
  <2> QED BY <2>2, <2>3, <2>4 DEF IomLine
<1>6. ASSUME NEW n \in 6 .. 9, NEW a \in IomAddresses
      PROVE  /\ IomLine(each, n, a) \in 5 .. 4 + 4 * each
             /\ InitLines[IomLine(each, n, a)] = NewMux(n, a)
  <2>1. PICK k \in 1 .. 4 * each :
           /\ 4 + k = IomLine(each, n, a)
           /\ n = 9 - ((k - 1) \div each) /\ a = \h71 + ((k - 1) % each)
    <3>1. CASE each = 1
      <4>1. a = \h71 /\ IomLine(each, n, a) = 14 - n
        BY <1>2, <3>1 DEF IomLine
      <4>2. 10 - n \in 1 .. 4 /\ ((10 - n) - 1) \div 1 = 9 - n /\ ((10 - n) - 1) % 1 = 0
        OBVIOUS
      <4> QED BY <3>1, <4>1, <4>2
    <3>2. CASE each = 2
      <4>1. a \in {\h71, \h72} /\ IomLine(each, n, a) = 5 + (9 - n) * 2 + (a - \h71)
        BY <1>2, <3>2 DEF IomLine
      <4>2. PICK k \in 1 .. 8 : k = 1 + (9 - n) * 2 + (a - \h71)
        BY <4>1
      <4>3. (k - 1) \div 2 = 9 - n /\ (k - 1) % 2 = a - \h71
        BY <4>1, <4>2
      <4> QED BY <3>2, <4>1, <4>2, <4>3
    <3> QED BY <3>1, <3>2
  <2> QED BY <1>1, <2>1
<1>7. \A i \in 1 .. Len(InitLines) :
         \/ i \in {1, 2, 3, 4} \/ i \in 5 .. 4 + 4 * each \/ i = 5 + 4 * each
         \/ i > 5 + 4 * each /\ \E k \in 1 .. sffs : i = 5 + 4 * each + k
  BY <1>2
<1>8. \A i \in 1 .. Len(InitLines) : i > 5 + 4 * each => IsQsfpLine(InitLines[i])
  BY <1>3, <1>4, <1>7
<1>9. ASSUME NEW n \in BoardQsfps
      PROVE  \E i \in 1 .. Len(InitLines) : n \in InitLines[i].on /\ IsQsfpLine(InitLines[i])
  <2>1. PICK k \in 1 .. sffs : n \in QsfpSff[k].on
    BY <1>4
  <2>2. 5 + 4 * each + k \in 1 .. Len(InitLines)
    BY <1>2
  <2> QED BY <1>3, <1>4, <2>1, <2>2
<1>10. 5 + 4 * each \in 1 .. Len(InitLines)
  BY <1>2
<1>11. ASSUME NEW i \in 1 .. Len(InitLines)
       PROVE  \/ i = 1 /\ InitLines[i] = CpuMuxLine
              \/ i = 2 /\ InitLines[i] = SwitchMuxLine
              \/ i = 3 /\ InitLines[i] = EepromLine
              \/ i = 4 /\ InitLines[i] = CpldLine
              \/ \E n \in 6 .. 9, a \in IomAddresses :
                    i = IomLine(each, n, a) /\ InitLines[i] = NewMux(n, a)
              \/ i = 5 + 4 * each /\ InitLines[i] = SfpLine
              \/ i > 5 + 4 * each /\ IsQsfpLine(InitLines[i])
  <2>1. CASE i \in {1, 2, 3, 4}
    BY <1>1, <2>1
  <2>2. CASE i \in 5 .. 4 + 4 * each
    BY <1>5, <2>2
  <2>3. CASE i = 5 + 4 * each
    BY <1>1, <2>3
  <2>4. CASE i > 5 + 4 * each
    BY <1>8, <2>4
  <2> QED BY <1>7, <2>1, <2>2, <2>3, <2>4
<1>12. each = (IF platform = "s6100" THEN 2 ELSE 1) /\ InitLines[5 + 4 * each] = SfpLine
  BY <1>1
<1> QED BY <1>6, <1>9, <1>10, <1>11, <1>12, Zenon

(* The line of init that adds a mux.                                       *)
HomeLine(x) ==
    IF platform = "z9264f" THEN IF x.on = 604 THEN x.addr - \h72 ELSE x.addr - \h6e
    ELSE IF x.addr = \h70 THEN 1
    ELSE IF x.on = 4 THEN 2
    ELSE IomLine(IF platform = "s6100" THEN 2 ELSE 1, x.on, x.addr)

LEMMA QsfpLineNumbers ==
    ASSUME NEW l, IsQsfpLine(l), NEW n \in l.on
    PROVE  n \in Nat /\ n \in BoardQsfps
<1>1. CASE platform = "s6100"
  <2>1. PICK r \in {18, 34, 50, 66} : n \in r .. r + 15
    BY <1>1 DEF IsQsfpLine
  <2> DEFINE m == n
  <2>2. m \in Int /\ m >= 18 /\ m <= 81
    BY <2>1
  <2> HIDE DEF m
  <2>3. m \in Nat /\ m \in 18 .. 81
    BY ONLY <2>2
  <2>4. BoardQsfps = 18 .. 81
    BY <1>1, Zenon DEF BoardQsfps
  <2>5. m \in Nat /\ m \in BoardQsfps
    BY <2>3, <2>4, Zenon
  <2> QED BY <2>5, Zenon DEF m
<1>2. CASE platform # "s6100"
  <2>1. n \in 18 .. 49
    BY <1>2, Zenon DEF IsQsfpLine
  <2>2. BoardQsfps = 18 .. 49
    BY <1>2, Zenon DEF BoardQsfps
  <2>3. n \in BoardQsfps
    BY <2>1, <2>2, Zenon
  <2>4. \A m \in 18 .. 49 : m \in Nat
    OBVIOUS
  <2> QED BY <2>1, <2>3, <2>4, Zenon
<1> QED BY <1>1, <1>2

LEMMA NewFields ==
    /\ \A bs, a, c : /\ New(bs, a, c).op = "new" /\ New(bs, a, c).on = bs
                     /\ New(bs, a, c).addr = a /\ New(bs, a, c).chip = c
                     /\ New(bs, a, c).poll = {} /\ New(bs, a, c).under = {}
    /\ \A n, a : /\ NewMux(n, a).op = "new" /\ NewMux(n, a).on = {n}
                 /\ NewMux(n, a).addr = a /\ NewMux(n, a).chip = "mux"
                 /\ NewMux(n, a).poll = {} /\ NewMux(n, a).under = {}
BY DEF New, NewMux

LEMMA BoardFields ==
    ASSUME Plugged, platform # "z9264f"
    PROVE  /\ RootBuses = {0, 1} /\ devnum \in {0, 1}
           /\ \A n \in 6 .. 9, a \in IomAddresses : Meant(n, a, "mux") /\ a \in {\h71, \h72}
           /\ Meant(devnum, \h70, "mux") /\ Meant(4, \h71, "mux") /\ Meant(2, \h50, "24c02")
           /\ \A n \in 14 .. 17 : Meant(n, \h3e, "cpld")
           /\ \A n \in {11, 12} \cup BoardQsfps : Meant(n, \h50, "sff8436")
           /\ \A n \in BoardQsfps : n \in 18 .. 81
<1>1. /\ RootBuses = {0, 1} /\ devnum \in {0, 1}
      /\ \A n \in BoardQsfps : n \in 18 .. 81
  BY DEF RootBuses, Plugged, Supported, BoardQsfps
<1>2. Meant(devnum, \h70, "mux")
  BY DEF Meant, RootMuxes
<1>3. BoardMuxes = {<<4, \h71>>} \cup ((6 .. 9) \X IomAddresses)
  BY DEF BoardMuxes, IomAddresses
<1>4. Meant(4, \h71, "mux")
  <2>1. <<4, \h71>> \in BoardMuxes
    BY <1>3
  <2> QED BY <2>1 DEF Meant
<1>5. ASSUME NEW n \in 6 .. 9, NEW a \in IomAddresses
      PROVE  Meant(n, a, "mux") /\ a \in {\h71, \h72}
  <2>1. <<n, a>> \in BoardMuxes
    BY <1>3
  <2>2. a \in {\h71, \h72}
    BY DEF IomAddresses
  <2> QED BY <2>1, <2>2 DEF Meant
<1>6. /\ Meant(2, \h50, "24c02")
      /\ \A n \in 14 .. 17 : Meant(n, \h3e, "cpld")
      /\ \A n \in {11, 12} \cup BoardQsfps : Meant(n, \h50, "sff8436")
  BY DEF Meant
<1> QED BY <1>1, <1>2, <1>4, <1>5, <1>6

(* A line puts a chip at an address of each of its buses, as it is meant.  *)
Lawful(l) ==
    /\ l.op = "new" /\ l.under = {} /\ l.addr \in Nat
    /\ \A n \in l.on : n \in Nat /\ Meant(n, l.addr, l.chip)
    /\ l.chip = "mux" => \E n : l.on = {n} /\ l.poll = {}
    /\ \/ l.poll = {}
       \/ /\ platform = "s6100" /\ l.chip # "mux"
          /\ \E r \in {18, 34, 50, 66} : l.poll = {r} /\ l.on = r .. r + 15

LEMMA PlainLine ==
    ASSUME NEW bs, NEW a, NEW c, NEW l, l = New(bs, a, c), a \in Nat,
           \A n \in bs : n \in Nat /\ Meant(n, a, c),
           c = "mux" => \E n : bs = {n}
    PROVE  Lawful(l)
<1>1. /\ l.op = "new" /\ l.on = bs /\ l.addr = a /\ l.chip = c
      /\ l.poll = {} /\ l.under = {}
  BY NewFields
<1> QED BY <1>1, Zenon DEF Lawful

LEMMA LineIsMeant ==
    ASSUME Plugged, NEW i \in 1 .. Len(InitLines)
    PROVE  Lawful(InitLines[i])
<1> DEFINE l == InitLines[i]
<1> SUFFICES Lawful(l)
  OBVIOUS
<1>0. "mux" # "24c02" /\ "mux" # "cpld" /\ "mux" # "sff8436"
  OBVIOUS
<1>3. ASSUME NEW s \in SUBSET Nat, NEW a \in Nat, NEW c, l = New(s, a, c),
             \A n \in s : Meant(n, a, c), c = "mux" => \E n : s = {n}
      PROVE  Lawful(l)
  <2> HIDE DEF l
  <2>1. \A n \in s : n \in Nat /\ Meant(n, a, c)
    BY <1>3
  <2> QED BY <1>3, <2>1, PlainLine, Zenon
<1>1. CASE platform = "z9264f"
  <2>1. \/ l = FpgaEepromLine \/ l = Sff(2 .. 65)
        \/ \E k \in 1 .. 8 : l = NewMux(FpgaMux(k).on, FpgaMux(k).addr)
    <3>1. \A j \in 1 .. 10 : j = 1 \/ j = 10 \/ \E k \in 1 .. 8 : j = k + 1
      OBVIOUS
    <3> QED BY <1>1, <3>1, FpgaInitIs
  <2> HIDE DEF l
  <2>2. CASE l = FpgaEepromLine
    <3>1. \A n \in {0} : Meant(n, \h53, "24c02")
      BY <1>1 DEF Meant
    <3>2. l = New({0}, \h53, "24c02") /\ \h53 \in Nat /\ {0} \in SUBSET Nat
      BY <2>2 DEF FpgaEepromLine
    <3> QED BY <1>0, <1>3, <3>1, <3>2, Zenon
  <2>3. CASE l = Sff(2 .. 65)
    <3>1. PICK s : s = 2 .. 65
      BY Zenon
    <3>2. \A n \in s : n \in Nat /\ Meant(n, \h50, "sff8436")
      BY <1>1, <3>1 DEF Meant
    <3>4. s \in SUBSET Nat
      BY <3>2, Zenon
    <3>3. \h50 \in Nat /\ l = New(s, \h50, "sff8436")
      BY <2>3, <3>1 DEF Sff
    <3> QED BY <1>0, <1>3, <3>2, <3>3, <3>4, Zenon
  <2>4. ASSUME NEW k \in 1 .. 8, l = NewMux(FpgaMux(k).on, FpgaMux(k).addr)
        PROVE  Lawful(l)
    <3>1. FpgaMux(k) \in HomeMuxes
      BY <1>1 DEF HomeMuxes
    <3>2. PICK n \in Nat, a \in Nat : n = FpgaMux(k).on /\ a = FpgaMux(k).addr /\ Meant(n, a, "mux")
      BY <3>1, HomeNumbers
    <3>3. l = New({n}, a, "mux") /\ \A m \in {n} : Meant(m, a, "mux")
      BY <2>4, <3>2 DEF NewMux
    <3>4. {n} \in SUBSET Nat
      BY <3>2
    <3> QED BY <1>3, <3>2, <3>3, <3>4, Zenon
  <2> QED BY <2>1, <2>2, <2>3, <2>4
<1>2. CASE platform # "z9264f"
  <2>1. \/ l \in {CpuMuxLine, SwitchMuxLine, EepromLine, CpldLine, SfpLine}
        \/ \E n \in 6 .. 9, a \in IomAddresses : l = NewMux(n, a)
        \/ IsQsfpLine(l)
    BY <1>2, BoardLineKinds DEF Plugged
  <2> HIDE DEF l
  <2>3. CASE l = CpuMuxLine
    <3>1. devnum \in Nat /\ Meant(devnum, \h70, "mux") /\ \h70 \in Nat
      BY <1>2, BoardFields
    <3>2. l = New({devnum}, \h70, "mux") /\ {devnum} \in SUBSET Nat
      BY <2>3, <3>1 DEF CpuMuxLine, NewMux
    <3>3. \A n \in {devnum} : Meant(n, \h70, "mux")
      BY <3>1
    <3> QED BY <1>3, <3>1, <3>2, <3>3, Zenon
  <2>4. CASE l = SwitchMuxLine
    <3>1. l = New({4}, \h71, "mux") /\ {4} \in SUBSET Nat /\ \h71 \in Nat
      BY <2>4 DEF SwitchMuxLine, NewMux
    <3>2. \A n \in {4} : Meant(n, \h71, "mux")
      BY <1>2, BoardFields
    <3> QED BY <1>3, <3>1, <3>2, Zenon
  <2>5. CASE l = EepromLine
    <3>1. l = New({2}, \h50, "24c02") /\ {2} \in SUBSET Nat /\ \h50 \in Nat
      BY <2>5 DEF EepromLine
    <3>2. \A n \in {2} : Meant(n, \h50, "24c02")
      BY <1>2, BoardFields
    <3> QED BY <1>3, <3>1, <3>2, Zenon
  <2>6. CASE l = CpldLine
    <3>1. PICK s : s = 14 .. 17
      BY Zenon
    <3>4. s \in SUBSET Nat
      BY <3>1
    <3>2. l = New(s, \h3e, "cpld") /\ \h3e \in Nat
      BY <2>6, <3>1 DEF CpldLine
    <3>3. \A n \in s : Meant(n, \h3e, "cpld")
      BY <1>2, <3>1, BoardFields
    <3> QED BY <1>0, <1>3, <3>2, <3>3, <3>4, Zenon
  <2>7. CASE l = SfpLine
    <3>1. l = New({11, 12}, \h50, "sff8436") /\ {11, 12} \in SUBSET Nat /\ \h50 \in Nat
      BY <2>7 DEF SfpLine, Sff
    <3>2. \A n \in {11, 12} : Meant(n, \h50, "sff8436")
      BY <1>2, BoardFields
    <3> QED BY <1>0, <1>3, <3>1, <3>2, Zenon
  <2>8. ASSUME NEW n \in 6 .. 9, NEW a \in IomAddresses, l = NewMux(n, a)
        PROVE  Lawful(l)
    <3>1. a \in Nat /\ Meant(n, a, "mux") /\ {n} \in SUBSET Nat
      BY <1>2, BoardFields
    <3>2. l = New({n}, a, "mux") /\ \A m \in {n} : Meant(m, a, "mux")
      BY <2>8, <3>1 DEF NewMux
    <3> QED BY <1>3, <3>1, <3>2, Zenon
  <2>9. CASE IsQsfpLine(l)
    <3>1. l.op = "new" /\ l.addr = \h50 /\ l.chip = "sff8436" /\ l.under = {}
      BY <2>9 DEF IsQsfpLine
    <3>2. \/ l.poll = {}
          \/ /\ platform = "s6100"
             /\ \E r \in {18, 34, 50, 66} : l.poll = {r} /\ l.on = r .. r + 15
      BY <2>9 DEF IsQsfpLine
    <3>3. ASSUME NEW n \in l.on PROVE n \in Nat /\ Meant(n, \h50, "sff8436")
      <4>1. n \in Nat /\ n \in BoardQsfps
        BY <1>2, <2>9, QsfpLineNumbers, Zenon
      <4>2. Meant(n, \h50, "sff8436")
        BY <1>2, <4>1, BoardFields, Zenon
      <4> QED BY <4>1, <4>2
    <3>4. \A n \in l.on : n \in Nat /\ Meant(n, l.addr, l.chip)
      BY <3>1, <3>3
    <3>5. \h50 \in Nat
      OBVIOUS
    <3> QED BY <1>0, <3>1, <3>2, <3>4, <3>5, Zenon DEF Lawful
  <2> QED BY <2>1, <2>3, <2>4, <2>5, <2>6, <2>7, <2>8, <2>9
<1> QED BY <1>1, <1>2

(* Each mux has a line, which comes after those of the muxes before it and *)
(* before those that look for its channels or put something there.         *)
LEMMA HomeLines ==
    ASSUME Plugged, NEW x \in HomeMuxes
    PROVE  /\ HomeLine(x) \in 1 .. Len(InitLines)
           /\ InitLines[HomeLine(x)] = NewMux(x.on, x.addr)
           /\ \A i \in 1 .. Len(InitLines) :
                 /\ InitLines[i].chip = "mux" /\ x.on \in InitLines[i].on /\ InitLines[i].addr = x.addr
                       => i = HomeLine(x)
                 /\ i <= HomeLine(x) => \A n \in InitLines[i].on : ~ Owns(x, n)
                 /\ InitLines[i].poll # {} => HomeLine(x) < i
<1>0. "mux" # "24c02" /\ "mux" # "cpld" /\ "mux" # "sff8436"
  OBVIOUS
<1>3. PICK f \in Nat : f = x.first /\ f <= 74
  BY HomeNumbers
<1>1. CASE platform = "z9264f"
  <2>1. PICK k \in 1 .. 8 : x = FpgaMux(k)
    BY <1>1 DEF HomeMuxes
  <2>2. \A j \in 1 .. 8 :
           /\ j <= 4 => FpgaMux(j).on = 604 /\ FpgaMux(j).addr = \h73 + j
           /\ j > 4  => FpgaMux(j).on = 603 /\ FpgaMux(j).addr = \h6f + j
           /\ FpgaMux(j).first = 8 * j - 6
    BY DEF FpgaMux
  <2>7. \A j \in 1 .. 8 : \E p \in {603, 604}, q \in \h74 .. \h77 :
           /\ FpgaMux(j).on = p /\ FpgaMux(j).addr = q
           /\ p = 604 => j = q - \h73
           /\ p = 603 => j = q - \h6f
    BY <2>2
  <2>3. HomeLine(x) = k + 1
    BY <1>1, <2>1, <2>2 DEF HomeLine
  <2>4. /\ Len(InitLines) = 10 /\ InitLines[1] = FpgaEepromLine /\ InitLines[10] = Sff(2 .. 65)
        /\ \A j \in 1 .. 8 : InitLines[j + 1] = NewMux(FpgaMux(j).on, FpgaMux(j).addr)
    BY <1>1, FpgaInitIs
  <2>5. HomeLine(x) \in 1 .. Len(InitLines) /\ InitLines[HomeLine(x)] = NewMux(x.on, x.addr)
    BY <2>1, <2>3, <2>4
  <2>6. ASSUME NEW i \in 1 .. Len(InitLines)
        PROVE  /\ InitLines[i].chip = "mux" /\ x.on \in InitLines[i].on /\ InitLines[i].addr = x.addr
                     => i = k + 1
               /\ i <= k + 1 => \A n \in InitLines[i].on : ~ Owns(x, n)
               /\ InitLines[i].poll = {}
    <3>1. i = 1 \/ i = 10 \/ \E j \in 1 .. 8 : i = j + 1
      BY <2>4
    <3>2. CASE i = 1
      <4>1. InitLines[i].on = {0} /\ InitLines[i].chip = "24c02" /\ InitLines[i].poll = {}
        BY <2>4, <3>2, NewFields DEF FpgaEepromLine
      <4>2. ~ Owns(x, 0)
        <5>1. PICK g \in Nat : g = x.first /\ g >= 2 /\ g <= 74
          BY FirstNumber
        <5> QED BY <5>1 DEF Owns
      <4> QED BY <1>0, <4>1, <4>2
    <3>3. CASE i = 10
      <4>1. InitLines[i].chip = "sff8436" /\ InitLines[i].poll = {}
        BY <2>4, <3>3, NewFields DEF Sff
      <4> QED BY <1>0, <3>3, <4>1
    <3>4. ASSUME NEW j \in 1 .. 8, i = j + 1
          PROVE  /\ x.on \in InitLines[i].on /\ InitLines[i].addr = x.addr => i = k + 1
                 /\ \A n \in InitLines[i].on : ~ Owns(x, n)
                 /\ InitLines[i].poll = {}
      <4>1. /\ InitLines[i].on = {FpgaMux(j).on} /\ InitLines[i].addr = FpgaMux(j).addr
            /\ InitLines[i].poll = {}
        BY <2>4, <3>4, NewFields
      <4>6. PICK p \in {603, 604}, q \in \h74 .. \h77 :
               /\ FpgaMux(j).on = p /\ FpgaMux(j).addr = q
               /\ p = 604 => j = q - \h73
               /\ p = 603 => j = q - \h6f
        BY <2>7
      <4>4. PICK r \in {603, 604}, t \in \h74 .. \h77 :
               /\ x.on = r /\ x.addr = t
               /\ r = 604 => k = t - \h73
               /\ r = 603 => k = t - \h6f
        BY <2>1, <2>7
      <4>2. ~ Owns(x, p)
        BY <1>3 DEF Owns
      <4>3. r = p /\ t = q => k = j
        BY <4>4, <4>6
      <4> QED BY <3>4, <4>1, <4>2, <4>3, <4>4, <4>6
    <3> QED BY <3>1, <3>2, <3>3, <3>4
  <2> QED BY <2>3, <2>5, <2>6
<1>2. CASE platform # "z9264f"
  <2>1. PICK each \in {1, 2} :
           /\ each = IF platform = "s6100" THEN 2 ELSE 1
           /\ \A i \in 1 .. Len(InitLines) :
                 \/ i = 1 /\ InitLines[i] = CpuMuxLine
                 \/ i = 2 /\ InitLines[i] = SwitchMuxLine
                 \/ i = 3 /\ InitLines[i] = EepromLine
                 \/ i = 4 /\ InitLines[i] = CpldLine
                 \/ \E n \in 6 .. 9, a \in IomAddresses :
                       i = IomLine(each, n, a) /\ InitLines[i] = NewMux(n, a)
                 \/ i = 5 + 4 * each /\ InitLines[i] = SfpLine
                 \/ i > 5 + 4 * each /\ IsQsfpLine(InitLines[i])
           /\ 5 + 4 * each \in 1 .. Len(InitLines)
           /\ \A n \in 6 .. 9, a \in IomAddresses :
                 /\ IomLine(each, n, a) \in 5 .. 4 + 4 * each
                 /\ InitLines[IomLine(each, n, a)] = NewMux(n, a)
    BY <1>2, BoardLineKinds DEF Plugged
  <2>2. /\ RootBuses = {0, 1} /\ devnum \in {0, 1}
        /\ IomAddresses \subseteq {\h71, \h72}
    BY <1>2, BoardFields DEF IomAddresses
  <2> DEFINE Line_(i, on, a) ==
               /\ InitLines[i].chip = "mux" /\ InitLines[i].on = {on}
               /\ InitLines[i].addr = a /\ InitLines[i].poll = {}
  <2>3. ASSUME NEW i \in 1 .. Len(InitLines)
        PROVE  \/ i = 1 /\ Line_(i, devnum, \h70)
               \/ i = 2 /\ Line_(i, 4, \h71)
               \/ \E n \in 6 .. 9, a \in IomAddresses : i = IomLine(each, n, a) /\ Line_(i, n, a)
               \/ i = 3 /\ InitLines[i].chip # "mux" /\ InitLines[i].on = {2} /\ InitLines[i].poll = {}
               \/ i = 4 /\ InitLines[i].chip # "mux" /\ InitLines[i].on = 14 .. 17 /\ InitLines[i].poll = {}
               \/ i >= 5 + 4 * each /\ InitLines[i].chip # "mux"
    <3>1. CASE i = 1 /\ InitLines[i] = CpuMuxLine
      BY <3>1, NewFields DEF CpuMuxLine
    <3>2. CASE i = 2 /\ InitLines[i] = SwitchMuxLine
      BY <3>2, NewFields DEF SwitchMuxLine
    <3>3. CASE i = 3 /\ InitLines[i] = EepromLine
      BY <1>0, <3>3, NewFields DEF EepromLine
    <3>4. CASE i = 4 /\ InitLines[i] = CpldLine
      BY <1>0, <3>4, NewFields DEF CpldLine
    <3>5. CASE \E n \in 6 .. 9, a \in IomAddresses :
                  i = IomLine(each, n, a) /\ InitLines[i] = NewMux(n, a)
      <4>1. PICK n \in 6 .. 9, a \in IomAddresses :
                i = IomLine(each, n, a) /\ InitLines[i] = NewMux(n, a)
        BY <3>5
      <4>2. Line_(i, n, a)
        BY <4>1, NewFields
      <4> HIDE DEF Line_
      <4> QED BY <4>1, <4>2
    <3>6. CASE i = 5 + 4 * each /\ InitLines[i] = SfpLine
      <4>1. InitLines[i].chip = "sff8436"
        BY <3>6, NewFields DEF SfpLine, Sff
      <4> QED BY <1>0, <3>6, <4>1
    <3>7. CASE i > 5 + 4 * each /\ IsQsfpLine(InitLines[i])
      <4>1. InitLines[i].chip = "sff8436"
        BY <3>7 DEF IsQsfpLine
      <4> QED BY <1>0, <3>7, <4>1
    <3> HIDE DEF Line_
    <3> QED BY <2>1, <3>1, <3>2, <3>3, <3>4, <3>5, <3>6, <3>7
  <2>4. \A n \in 6 .. 9, a \in IomAddresses :
           IomLine(each, n, a) = 5 + (9 - n) * each + (a - \h71)
    BY DEF IomLine
  <2>5. ASSUME NEW h \in 1 .. Len(InitLines), NEW on \in Nat, NEW a \in Nat,
               x.on = on, x.addr = a, h = HomeLine(x), InitLines[h] = NewMux(on, a),
               h < 5 + 4 * each,
               \/ f = 2 /\ h = 1 /\ on = devnum /\ a = \h70
               \/ f = 10 /\ h = 2 /\ on = 4 /\ a = \h71
               \/ f >= 18 /\ on \in 6 .. 9 /\ a \in IomAddresses /\ h = IomLine(each, on, a)
        PROVE  /\ HomeLine(x) \in 1 .. Len(InitLines)
               /\ InitLines[HomeLine(x)] = NewMux(x.on, x.addr)
               /\ \A i \in 1 .. Len(InitLines) :
                     /\ InitLines[i].chip = "mux" /\ x.on \in InitLines[i].on /\ InitLines[i].addr = x.addr
                           => i = HomeLine(x)
                     /\ i <= HomeLine(x) => \A n \in InitLines[i].on : ~ Owns(x, n)
                     /\ InitLines[i].poll # {} => HomeLine(x) < i
    <3>1. ASSUME NEW i \in 1 .. Len(InitLines)
          PROVE  /\ InitLines[i].chip = "mux" /\ on \in InitLines[i].on /\ InitLines[i].addr = a => i = h
                 /\ i <= h => \A n \in InitLines[i].on : ~ n \in f .. f + 7
                 /\ InitLines[i].poll # {} => h < i
      <4>1. CASE i = 1 /\ Line_(i, devnum, \h70)
        BY <2>2, <2>5, <4>1
      <4>2. CASE i = 2 /\ Line_(i, 4, \h71)
        BY <2>2, <2>5, <4>2
      <4>3. ASSUME NEW n \in 6 .. 9, NEW b \in IomAddresses, i = IomLine(each, n, b), Line_(i, n, b)
            PROVE  /\ on \in InitLines[i].on /\ InitLines[i].addr = a => i = h
                   /\ i <= h => \A m \in InitLines[i].on : ~ m \in f .. f + 7
                   /\ InitLines[i].poll = {}
        <5>1. i >= 5
          BY <2>1, <4>3
        <5> QED BY <2>2, <2>5, <4>3, <5>1
      <4>4. CASE i = 3 /\ InitLines[i].chip # "mux" /\ InitLines[i].on = {2} /\ InitLines[i].poll = {}
        BY <2>1, <2>5, <4>4
      <4>5. CASE i = 4 /\ InitLines[i].chip # "mux" /\ InitLines[i].on = 14 .. 17 /\ InitLines[i].poll = {}
        <5>1. i <= h => f >= 18
          BY <2>5, <4>5
        <5>2. i <= h => \A n \in 14 .. 17 : ~ n \in f .. f + 7
          BY <2>5, <5>1
        <5> QED BY <4>5, <5>2
      <4>6. CASE i >= 5 + 4 * each /\ InitLines[i].chip # "mux"
        BY <2>5, <4>6
      <4> HIDE DEF Line_
      <4> QED BY <2>3, <4>1, <4>2, <4>3, <4>4, <4>5, <4>6
    <3> QED BY <1>3, <2>5, <3>1 DEF Owns
  <2>6. InitLines[1] = CpuMuxLine /\ InitLines[2] = SwitchMuxLine
    BY <1>2, BoardInitIs DEF Plugged
  <2>7. \/ x = CpuHome \/ x = SwitchHome
        \/ \E n \in (6 .. 9) \ missing, a \in IomAddresses : x = IomMux(n, a)
    BY <1>2 DEF HomeMuxes
  <2>8. CASE x = CpuHome
    <3>1. x.on = devnum /\ x.addr = \h70 /\ x.first = 2
      BY <2>8 DEF CpuHome
    <3>2. HomeLine(x) = 1
      BY <1>2, <3>1 DEF HomeLine
    <3>3. 1 \in 1 .. Len(InitLines) /\ 1 < 5 + 4 * each
      BY <2>1
    <3>4. InitLines[1] = NewMux(devnum, \h70) /\ devnum \in Nat /\ \h70 \in Nat
      BY <2>2, <2>6 DEF CpuMuxLine
    <3> QED BY <1>3, <2>5, <3>1, <3>2, <3>3, <3>4
  <2>9. CASE x = SwitchHome
    <3>1. x.on = 4 /\ x.addr = \h71 /\ x.first = 10
      BY <2>9 DEF SwitchHome
    <3>2. HomeLine(x) = 2
      BY <1>2, <3>1 DEF HomeLine
    <3>3. 2 \in 1 .. Len(InitLines) /\ 2 < 5 + 4 * each
      BY <2>1
    <3>4. InitLines[2] = NewMux(4, \h71) /\ 4 \in Nat /\ \h71 \in Nat
      BY <2>6 DEF SwitchMuxLine
    <3> QED BY <1>3, <2>5, <3>1, <3>2, <3>3, <3>4
  <2>10. ASSUME NEW n \in (6 .. 9) \ missing, NEW a \in IomAddresses, x = IomMux(n, a)
         PROVE  /\ x.on = n /\ x.addr = a /\ f >= 18 /\ a \in {\h71, \h72}
                /\ HomeLine(x) = IomLine(each, n, a)
    <3>1. x.on = n /\ x.addr = a /\ f = FirstBus(n) + 8 * (a - \h71)
      BY <1>3, <2>10 DEF IomMux
    <3>2. FirstBus(n) \in Nat /\ FirstBus(n) >= 18
      BY <1>2, IomNumbers
    <3>3. a = \h71 \/ a = \h72
      BY <2>2
    <3>4. f >= 18
      BY <3>1, <3>2, <3>3
    <3>5. HomeLine(x) = IomLine(each, n, a)
      <4>1. x.addr # \h70 /\ x.on # 4
        BY <3>1, <3>3
      <4>2. each = IF platform = "s6100" THEN 2 ELSE 1
        BY <2>1
      <4> QED BY <1>2, <3>1, <4>1, <4>2, Zenon DEF HomeLine
    <3> QED BY <3>1, <3>3, <3>4, <3>5
  <2>11. CASE \E n \in (6 .. 9) \ missing, a \in IomAddresses : x = IomMux(n, a)
    <3>1. PICK n \in (6 .. 9) \ missing, a \in IomAddresses : x = IomMux(n, a)
      BY <2>11
    <3>2. /\ x.on = n /\ x.addr = a /\ f >= 18 /\ n \in Nat /\ a \in Nat
          /\ HomeLine(x) = IomLine(each, n, a)
      BY <2>10, <3>1
    <3>3. IomLine(each, n, a) \in 1 .. Len(InitLines) /\ IomLine(each, n, a) < 5 + 4 * each
      BY <2>1
    <3>4. InitLines[IomLine(each, n, a)] = NewMux(n, a)
      BY <2>1
    <3> QED BY <1>3, <2>5, <3>1, <3>2, <3>3, <3>4
  <2> QED BY <2>7, <2>8, <2>9, <2>11
<1> QED BY <1>1, <1>2

(* The muxes are added in the order of their numbers.                      *)
LEMMA HomeOrder ==
    ASSUME Plugged, NEW x \in HomeMuxes, NEW y \in HomeMuxes, y.first < x.first
    PROVE  HomeLine(y) < HomeLine(x)
<1>1. CASE platform = "z9264f"
  <2>1. \A z \in HomeMuxes : \E k \in 1 .. 8 : z.first = 8 * k - 6 /\ HomeLine(z) = k + 1
    <3>1. ASSUME NEW k \in 1 .. 8
          PROVE  FpgaMux(k).first = 8 * k - 6 /\ HomeLine(FpgaMux(k)) = k + 1
      BY <1>1 DEF FpgaMux, HomeLine
    <3> QED BY <1>1, <3>1 DEF HomeMuxes
  <2> QED BY <2>1
<1>2. CASE platform # "z9264f"
  <2>0. PICK w \in {8, 16} :
              /\ w = IF platform = "s6100" THEN 16 ELSE 8
              /\ \A n \in 6 .. 9 : FirstBus(n) \in 18 .. 18 + (9 - n) * w
              /\ \A n, m \in 6 .. 9 : (m < n /\ n \notin missing) => FirstBus(m) >= FirstBus(n) + w
    BY <1>2, IomNumbers
  <2>1. PICK each \in {1, 2} : each = IF platform = "s6100" THEN 2 ELSE 1
    OBVIOUS
  <2>2. IomAddresses = (IF each = 2 THEN {\h71, \h72} ELSE {\h71}) /\ w = 8 * each
    BY <2>0, <2>1 DEF IomAddresses
  <2>3. \A z \in HomeMuxes :
           \/ z.first = 2 /\ HomeLine(z) = 1
           \/ z.first = 10 /\ HomeLine(z) = 2
           \/ \E n \in (6 .. 9) \ missing, a \in IomAddresses :
                 /\ z.first = FirstBus(n) + 8 * (a - \h71)
                 /\ HomeLine(z) = 5 + (9 - n) * each + (a - \h71)
    <3>1. CpuHome.first = 2 /\ HomeLine(CpuHome) = 1
      BY <1>2 DEF CpuHome, HomeLine
    <3>2. SwitchHome.first = 10 /\ HomeLine(SwitchHome) = 2
      BY <1>2 DEF SwitchHome, HomeLine
    <3>3. ASSUME NEW n \in (6 .. 9) \ missing, NEW a \in IomAddresses
          PROVE  /\ IomMux(n, a).first = FirstBus(n) + 8 * (a - \h71)
                 /\ HomeLine(IomMux(n, a)) = 5 + (9 - n) * each + (a - \h71)
      <4>1. a = \h71 \/ a = \h72
        BY <2>2
      <4> QED BY <1>2, <2>1, <4>1 DEF IomMux, HomeLine, IomLine
    <3> QED BY <1>2, <3>1, <3>2, <3>3 DEF HomeMuxes
  <2>4. ASSUME NEW n \in (6 .. 9) \ missing, NEW a \in IomAddresses
        PROVE  /\ FirstBus(n) + 8 * (a - \h71) >= 18
               /\ 5 + (9 - n) * each + (a - \h71) >= 5
    <3>1. a \in {\h71, \h72} /\ FirstBus(n) \in Nat /\ FirstBus(n) >= 18
      BY <2>0, <2>2
    <3> QED BY <2>1, <3>1
  <2>5. ASSUME NEW n \in (6 .. 9) \ missing, NEW a \in IomAddresses,
               NEW m \in (6 .. 9) \ missing, NEW b \in IomAddresses,
               FirstBus(m) + 8 * (b - \h71) < FirstBus(n) + 8 * (a - \h71)
        PROVE  5 + (9 - m) * each + (b - \h71) < 5 + (9 - n) * each + (a - \h71)
    <3>1. PICK p \in Nat, q \in Nat : p = FirstBus(n) /\ q = FirstBus(m)
      BY <2>0
    <3>2. /\ m < n => q >= p + 8 * each
          /\ n < m => p >= q + 8 * each
      BY <2>0, <2>2, <3>1
    <3>3. PICK d \in 0 .. each - 1, e \in 0 .. each - 1 : d = a - \h71 /\ e = b - \h71
      BY <2>2
    <3>4. q + 8 * e < p + 8 * d
      BY <2>5, <3>1, <3>3
    <3>5. ~ m < n
      BY <3>1, <3>2, <3>3, <3>4
    <3>6. CASE m = n
      BY <3>1, <3>3, <3>4, <3>6
    <3>7. CASE n < m
      <4>1. CASE each = 1
        BY <3>3, <3>7, <4>1
      <4>2. CASE each = 2
        BY <3>3, <3>7, <4>2
      <4> QED BY <4>1, <4>2
    <3> QED BY <3>5, <3>6, <3>7
  <2> DEFINE IsIom(z, n, a) == /\ z.first = FirstBus(n) + 8 * (a - \h71)
                               /\ HomeLine(z) = 5 + (9 - n) * each + (a - \h71)
  <2>6. ASSUME NEW z \in HomeMuxes
        PROVE  \/ z.first = 2 /\ HomeLine(z) = 1
               \/ z.first = 10 /\ HomeLine(z) = 2
               \/ /\ z.first >= 18 /\ HomeLine(z) \in Nat /\ HomeLine(z) >= 5
                  /\ \E n \in (6 .. 9) \ missing, a \in IomAddresses : IsIom(z, n, a)
    <3>1. ASSUME NEW n \in (6 .. 9) \ missing, NEW a \in IomAddresses, IsIom(z, n, a)
          PROVE  z.first >= 18 /\ HomeLine(z) \in Nat /\ HomeLine(z) >= 5
      <4>1. 5 + (9 - n) * each + (a - \h71) \in Nat
        <5>1. a \in {\h71, \h72}
          BY <2>2
        <5> QED BY <2>1, <5>1
      <4> QED BY <2>4, <3>1, <4>1
    <3> QED BY <2>3, <3>1
  <2>7. ASSUME NEW n \in (6 .. 9) \ missing, NEW a \in IomAddresses, IsIom(x, n, a),
               NEW m \in (6 .. 9) \ missing, NEW b \in IomAddresses, IsIom(y, m, b)
        PROVE  HomeLine(y) < HomeLine(x)
    BY <2>5, <2>7
  <2> HIDE DEF IsIom
  <2>8. x.first \in Nat /\ y.first \in Nat
    BY HomeNumbers
  <2>11. ASSUME NEW z, NEW n \in (6 .. 9) \ missing, NEW a \in IomAddresses, IsIom(z, n, a)
         PROVE  HomeLine(z) \in Nat /\ HomeLine(z) >= 5
    <3>1. a \in {\h71, \h72}
      BY <2>2
    <3>2. 5 + (9 - n) * each + (a - \h71) \in Nat /\ 5 + (9 - n) * each + (a - \h71) >= 5
      BY <2>1, <3>1
    <3> QED BY <2>11, <3>2 DEF IsIom
  <2>9. CASE \E n \in (6 .. 9) \ missing, a \in IomAddresses : IsIom(x, n, a)
    <3>1. CASE \E m \in (6 .. 9) \ missing, b \in IomAddresses : IsIom(y, m, b)
      BY <2>7, <2>9, <3>1, Zenon
    <3>2. CASE ~ \E m \in (6 .. 9) \ missing, b \in IomAddresses : IsIom(y, m, b)
      <4>1. HomeLine(y) \in {1, 2} /\ y.first \in {2, 10}
        BY <2>6, <3>2
      <4>2. HomeLine(x) \in Nat /\ HomeLine(x) >= 5
        BY <2>6, <2>9, <2>11, Zenon
      <4> QED BY <4>1, <4>2
    <3> QED BY <3>1, <3>2
  <2>10. CASE ~ \E n \in (6 .. 9) \ missing, a \in IomAddresses : IsIom(x, n, a)
    <3>1. (x.first = 2 /\ HomeLine(x) = 1) \/ (x.first = 10 /\ HomeLine(x) = 2)
      BY <2>6, <2>10
    <3>2. \/ y.first = 2 /\ HomeLine(y) = 1
          \/ y.first = 10 /\ HomeLine(y) = 2
          \/ y.first >= 18
      BY <2>6
    <3> QED BY <2>8, <3>1, <3>2
  <2> QED BY <2>9, <2>10
<1> QED BY <1>1, <1>2

-----------------------------------------------------------------------------
(* Buses in their places *)

LEMMA Places ==
    ASSUME Plugged
    PROVE  /\ \A r \in Nat : Root(r) \in Seq(Nat \X Nat) /\ Len(Root(r)) = 1
           /\ \A n \in Nat : n >= 1 => /\ CpuPlace(n) \in Seq(Nat \X Nat) /\ Len(CpuPlace(n)) = 2
                                       /\ CpuPlace(n) = Append(Root(devnum), <<\h70, n - 1>>)
           /\ \A r \in Nat, s \in Nat : Root(r) = Root(s) => r = s
           /\ \A m, n \in Nat : m >= 1 /\ n >= 1 /\ CpuPlace(m) = CpuPlace(n) => m = n
<1>0. devnum \in Nat
  BY DEF Plugged, Supported
<1>1. ASSUME NEW r \in Nat
      PROVE  Root(r) \in Seq(Nat \X Nat) /\ Len(Root(r)) = 1
  BY DEF Root
<1>2. ASSUME NEW n \in Nat, n >= 1
      PROVE  /\ CpuPlace(n) \in Seq(Nat \X Nat) /\ Len(CpuPlace(n)) = 2
             /\ CpuPlace(n) = Append(Root(devnum), <<\h70, n - 1>>)
  <2>1. <<devnum, 0>> \in Nat \X Nat /\ <<\h70, n - 1>> \in Nat \X Nat
    BY <1>0, <1>2
  <2>2. Append(<< <<devnum, 0>> >>, <<\h70, n - 1>>) = << <<devnum, 0>>, <<\h70, n - 1>> >>
    BY <2>1, AppendToOne, Zenon
  <2>3. CpuPlace(n) = Append(Root(devnum), <<\h70, n - 1>>)
    BY <2>2, Zenon DEF CpuPlace, Root
  <2>4. CpuPlace(n) \in Seq(Nat \X Nat) /\ Len(CpuPlace(n)) = 2
    BY <2>1 DEF CpuPlace
  <2> QED BY <2>3, <2>4
<1>3. ASSUME NEW r \in Nat, NEW s \in Nat, Root(r) = Root(s) PROVE r = s
  <2>1. Root(r)[1] = <<r, 0>> /\ Root(s)[1] = <<s, 0>>
    BY DEF Root
  <2>2. <<r, 0>> = <<s, 0>>
    BY <1>3, <2>1
  <2> QED BY <2>2
<1>4. ASSUME NEW m \in Nat, NEW n \in Nat, m >= 1, n >= 1, CpuPlace(m) = CpuPlace(n) PROVE m = n
  <2>1. CpuPlace(m)[2] = <<\h70, m - 1>> /\ CpuPlace(n)[2] = <<\h70, n - 1>>
    BY DEF CpuPlace
  <2>2. <<\h70, m - 1>> = <<\h70, n - 1>>
    BY <1>4, <2>1
  <2>3. m - 1 = n - 1
    BY <2>2
  <2> QED BY <2>3
<1> QED BY <1>1, <1>2, <1>3, <1>4

LEMMA LastOf ==
    ASSUME NEW S, NEW s \in Seq(S), NEW e \in S
    PROVE  /\ SubSeq(Append(s, e), 1, Len(s)) = s
           /\ Len(Append(s, e)) = Len(s) + 1 /\ Append(s, e)[Len(s) + 1] = e /\ Len(s) \in Nat
<1>1. SubSeq(Append(s, e), 1, Len(s)) = s
  BY FrontOf
<1>2. Len(Append(s, e)) = Len(s) + 1 /\ Append(s, e)[Len(s) + 1] = e
  BY AppendProperties
<1>3. Len(s) \in Nat
  BY LenProperties
<1> QED BY <1>1, <1>2, <1>3

LEMMA SameAppend ==
    ASSUME NEW S, NEW s \in Seq(S), NEW t \in Seq(S), NEW e \in S, NEW f \in S,
           Append(s, e) = Append(t, f)
    PROVE  s = t /\ e = f
<1>1. PICK q : q = Append(s, e)
  OBVIOUS
<1>2. PICK i \in Nat : i = Len(s) /\ SubSeq(q, 1, i) = s /\ Len(q) = i + 1 /\ q[i + 1] = e
  BY ONLY <1>1, LastOf
<1>3. q = Append(t, f)
  BY <1>1
<1>4. PICK j \in Nat : j = Len(t) /\ SubSeq(q, 1, j) = t /\ Len(q) = j + 1 /\ q[j + 1] = f
  BY ONLY <1>3, LastOf
<1>5. i = j
  <2>1. i + 1 = j + 1
    BY <1>2, <1>4, Zenon
  <2> QED BY ONLY <2>1
<1> QED BY ONLY <1>2, <1>4, <1>5, Zenon

LEMMA HomePlaces ==
    ASSUME Plugged
    PROVE  /\ \A x \in HomeMuxes :
                 /\ Place(x) \in Seq(Nat \X Nat) /\ Len(Place(x)) \in {1, 2}
                 /\ x.on \in RootBuses => Place(x) = Root(x.on)
                 /\ x.on \notin RootBuses => Place(x) = CpuPlace(x.on)
           /\ \A x, y \in HomeMuxes : Place(x) = Place(y) => x.on = y.on
<1>1. ASSUME NEW x \in HomeMuxes
      PROVE  /\ Place(x) \in Seq(Nat \X Nat)
             /\ x.on \in Nat
             /\ x.on \in RootBuses => Place(x) = Root(x.on) /\ Len(Place(x)) = 1
             /\ x.on \notin RootBuses => Place(x) = CpuPlace(x.on) /\ Len(Place(x)) = 2 /\ x.on >= 1
  <2>1. x.on \in Nat /\ (x.on \in RootBuses \/ x.on \in {4, 6, 7, 8, 9})
    BY HomeNumbers
  <2>2. CASE x.on \in RootBuses
    <3>1. Place(x) = Root(x.on)
      BY <2>2 DEF Place
    <3> QED BY <2>1, <2>2, <3>1, Places
  <2>3. CASE x.on \notin RootBuses
    <3>1. Place(x) = CpuPlace(x.on)
      BY <2>3 DEF Place
    <3>2. x.on >= 1
      BY <2>1, <2>3
    <3> QED BY <2>1, <2>3, <3>1, <3>2, Places
  <2> QED BY <2>2, <2>3
<1>2. ASSUME NEW x \in HomeMuxes, NEW y \in HomeMuxes, Place(x) = Place(y)
      PROVE  x.on = y.on
  <2>4. PICK m \in Nat, n \in Nat : m = x.on /\ n = y.on
    BY <1>1
  <2>1. CASE x.on \in RootBuses /\ y.on \in RootBuses
    <3>1. Root(m) = Root(n)
      BY <1>1, <1>2, <2>1, <2>4
    <3>2. m = n
      BY <3>1, Places, Zenon
    <3> QED BY <2>4, <3>2
  <2>2. CASE x.on \notin RootBuses /\ y.on \notin RootBuses
    <3>1. CpuPlace(m) = CpuPlace(n) /\ m >= 1 /\ n >= 1
      BY <1>1, <1>2, <2>2, <2>4
    <3>2. m = n
      BY <3>1, Places, Zenon
    <3> QED BY <2>4, <3>2
  <2>3. CASE ~ (x.on \in RootBuses <=> y.on \in RootBuses)
    <3>1. {Len(Place(x)), Len(Place(y))} = {1, 2}
      BY <1>1, <2>3
    <3> QED BY <1>2, <3>1
  <2> QED BY <2>1, <2>2, <2>3
<1> QED BY <1>1, <1>2

(* Where a bus is: on the machine, or a channel of the mux whose number it *)
(* has.                                                                    *)
LEMMA OwnedBus ==
    ASSUME Plugged, Channelled, Owned, NEW n \in DOMAIN buses, n \notin RootBuses
    PROVE  /\ "mux" \in drivers /\ n \in 2 .. 81
           /\ \E x \in HomeMuxes :
                 /\ Owns(x, n) /\ HasMux(x) /\ n - x.first + 1 \in Channels
                 /\ buses[n] = ChannelOf(x, n - x.first + 1)
<1>1. PICK x \in HomeMuxes : "mux" \in drivers /\ Owns(x, n) /\ HasMux(x)
  BY DEF Owned
<1>2. buses[n] = ChannelOf(x, n - x.first + 1)
  BY <1>1 DEF Channelled, Owns
<1>5. x.first \in 2 .. 74
  BY HomeNumbers
<1>3. PICK f \in Nat : f = x.first /\ f >= 2 /\ f <= 74
  BY <1>5
<1>4. n \in 2 .. 81 /\ n - f + 1 \in 1 .. 8
  BY <1>1, <1>3 DEF Owns
<1> QED BY <1>1, <1>2, <1>3, <1>4 DEF Channels

(* A number belongs to one mux.                                            *)
LEMMA OneOwner ==
    ASSUME Plugged, NEW x \in HomeMuxes, NEW y \in HomeMuxes, NEW n, Owns(x, n), Owns(y, n)
    PROVE  x = y
<1>1. PICK f \in Nat : f = x.first /\ f >= 2 /\ f <= 74
  BY FirstNumber
<1>2. PICK g \in Nat : g = y.first /\ g >= 2 /\ g <= 74
  BY FirstNumber
<1>3. x = y \/ x.first + 7 < y.first \/ y.first + 7 < x.first
  BY HomeNumbers, Zenon
<1> QED BY <1>1, <1>2, <1>3 DEF Owns

(* The channels of the CPU board's mux.                                    *)
LEMMA CpuChannel ==
    ASSUME Plugged, platform # "z9264f", Channelled, Owned, NEW n \in (2 .. 9) \cap DOMAIN buses
    PROVE  buses[n] = CpuPlace(n)
<1>1. RootBuses = {0, 1} /\ devnum \in RootBuses
  BY BoardFields
<1>2. PICK y \in HomeMuxes :
         Owns(y, n) /\ buses[n] = ChannelOf(y, n - y.first + 1)
  <2>1. n \in DOMAIN buses /\ n \notin RootBuses
    BY <1>1
  <2> QED BY <2>1, OwnedBus
<1>3. /\ CpuHome \in HomeMuxes /\ CpuHome.on = devnum /\ CpuHome.addr = \h70 /\ CpuHome.first = 2
  BY DEF HomeMuxes, CpuHome
<1>4. Owns(CpuHome, n)
  BY <1>3 DEF Owns
<1>5. y = CpuHome
  BY <1>2, <1>3, <1>4, OneOwner
<1>6. Place(y) = Root(devnum)
  BY <1>1, <1>3, <1>5 DEF Place
<1>7. n - 2 + 1 = n - 1 /\ n \in Nat /\ n >= 1
  OBVIOUS
<1>8. buses[n] = Append(Root(devnum), <<\h70, n - 1>>)
  BY <1>2, <1>3, <1>5, <1>6, <1>7 DEF ChannelOf
<1>9. CpuPlace(n) = Append(Root(devnum), <<\h70, n - 1>>)
  BY <1>7, Places, Zenon
<1> QED BY <1>8, <1>9

(* The bus that a mux is on is where it should be.                         *)
LEMMA OnPlace ==
    ASSUME Plugged, Shape, Channelled, Owned, NEW x \in HomeMuxes, x.on \in DOMAIN buses
    PROVE  buses[x.on] = Place(x)
<1>1. CASE x.on \in RootBuses
  BY <1>1 DEF Shape, Place
<1>2. CASE x.on \notin RootBuses
  <2>1. platform # "z9264f" /\ x.on \in {4, 6, 7, 8, 9}
    BY <1>2, HomeNumbers
  <2>2. x.on \in (2 .. 9) \cap DOMAIN buses
    BY <2>1
  <2> QED BY <1>2, <2>1, <2>2, CpuChannel DEF Place
<1> QED BY <1>1, <1>2

(* A channel says which mux it is one of.                                  *)
LEMMA SameChannel ==
    ASSUME Plugged, NEW x \in HomeMuxes, NEW y \in HomeMuxes, NEW k \in Nat, NEW j \in Nat,
           ChannelOf(x, k) = ChannelOf(y, j)
    PROVE  x = y /\ k = j
<1>1. PICK S : S = Nat \X Nat
  OBVIOUS
<1>2. PICK e, f : e = <<x.addr, k>> /\ f = <<y.addr, j>>
  OBVIOUS
<1>3. PICK p, r : p = Place(x) /\ r = Place(y)
  OBVIOUS
<1>4. x.addr \in Nat /\ y.addr \in Nat
  BY HomeNumbers
<1>5. e \in S
  BY <1>1, <1>2, <1>4
<1>6. f \in S
  BY <1>1, <1>2, <1>4
<1>7. Place(x) \in Seq(Nat \X Nat) /\ Place(y) \in Seq(Nat \X Nat)
  BY HomePlaces
<1>8. p \in Seq(S) /\ r \in Seq(S)
  BY <1>1, <1>3, <1>7, Zenon
<1>9. Append(p, e) = Append(r, f)
  BY <1>2, <1>3, Zenon DEF ChannelOf
<1>10. p = r /\ e = f
  BY ONLY <1>5, <1>6, <1>8, <1>9, SameAppend
<1>11. Place(x) = Place(y) /\ x.addr = y.addr /\ k = j
  BY <1>2, <1>3, <1>10
<1>12. x.on = y.on
  BY <1>11, HomePlaces
<1> QED BY <1>11, <1>12, HomeNumbers

LEMMA ChannelLength ==
    ASSUME Plugged, NEW x \in HomeMuxes, NEW k \in Nat
    PROVE  Len(ChannelOf(x, k)) # 1
<1>1. x.addr \in Nat
  BY HomeNumbers
<1>2. PICK p \in Seq(Nat \X Nat), e \in Nat \X Nat :
         p = Place(x) /\ e = <<x.addr, k>> /\ Len(p) \in {1, 2}
  <2>1. <<x.addr, k>> \in Nat \X Nat
    BY <1>1
  <2>2. Place(x) \in Seq(Nat \X Nat) /\ Len(Place(x)) \in {1, 2}
    BY HomePlaces
  <2> QED BY <2>1, <2>2
<1>3. Len(Append(p, e)) = Len(p) + 1
  BY AppendProperties
<1>4. PICK q : q = Append(p, e) /\ q = ChannelOf(x, k)
  BY <1>2, Zenon DEF ChannelOf
<1>5. Len(q) # 1
  BY <1>2, <1>3, <1>4
<1> QED BY <1>4, <1>5, Zenon

(* A place has one number.                                                 *)
LEMMA OneNumber ==
    ASSUME Plugged, Shape, Channelled, Owned, NEW n \in DOMAIN buses, NEW m \in DOMAIN buses,
           buses[n] = buses[m]
    PROVE  n = m
<1>1. RootBuses \subseteq Nat /\ \A k \in Channels : k \in Nat
  BY DEF RootBuses, Channels
<1>2. ASSUME NEW i \in DOMAIN buses, i \in RootBuses
      PROVE  buses[i] = Root(i) /\ Len(buses[i]) = 1
  <2>1. buses[i] = Root(i)
    BY <1>2 DEF Shape
  <2> QED BY <1>1, <1>2, <2>1, Places
<1>3. ASSUME NEW i \in DOMAIN buses, i \notin RootBuses
      PROVE  \E x \in HomeMuxes : /\ Owns(x, i) /\ i - x.first + 1 \in Nat
                                  /\ buses[i] = ChannelOf(x, i - x.first + 1)
  BY <1>1, <1>3, OwnedBus, Zenon
<1>4. ASSUME NEW i \in DOMAIN buses, i \notin RootBuses
      PROVE  Len(buses[i]) # 1
  BY <1>3, <1>4, ChannelLength
<1>5. CASE n \in RootBuses /\ m \in RootBuses
  <2>1. Root(n) = Root(m) /\ n \in Nat /\ m \in Nat
    BY <1>1, <1>2, <1>5
  <2> QED BY <2>1, Places
<1>6. CASE n \notin RootBuses /\ m \notin RootBuses
  <2>1. PICK x \in HomeMuxes : /\ Owns(x, n) /\ n - x.first + 1 \in Nat
                               /\ buses[n] = ChannelOf(x, n - x.first + 1)
    BY <1>3, <1>6
  <2>2. PICK y \in HomeMuxes : /\ Owns(y, m) /\ m - y.first + 1 \in Nat
                               /\ buses[m] = ChannelOf(y, m - y.first + 1)
    BY <1>3, <1>6
  <2>3. PICK k \in Nat, j \in Nat : k = n - x.first + 1 /\ j = m - y.first + 1
    BY <2>1, <2>2
  <2>4. ChannelOf(x, k) = ChannelOf(y, j)
    BY <2>1, <2>2, <2>3
  <2>5. x = y /\ k = j
    BY <2>4, SameChannel
  <2>6. x.first \in Nat
    BY HomeNumbers
  <2>7. n \in Int /\ m \in Int
    BY <2>1, <2>2 DEF Owns
  <2> QED BY <2>3, <2>5, <2>6, <2>7
<1>7. CASE ~ (n \in RootBuses <=> m \in RootBuses)
  BY <1>2, <1>4, <1>7
<1> QED BY <1>5, <1>6, <1>7

-----------------------------------------------------------------------------
(* Devices that get in each other's way *)

(* The places on the way to one: itself, and those on the way to the bus   *)
(* that its mux is on.                                                      *)
LEMMA AboveAppend ==
    ASSUME NEW S, NEW s \in Seq(S), NEW e \in S, NEW p \in Above(Append(s, e))
    PROVE  p = Append(s, e) \/ p \in Above(s)
<1>1. PICK q : q = Append(s, e)
  OBVIOUS
<1>2. q \in Seq(S) /\ Len(q) = Len(s) + 1 /\ Len(s) \in Nat
  BY <1>1, AppendProperties, LenProperties
<1>3. PICK i \in Nat : i = Len(s) /\ Len(q) = i + 1
  BY <1>2
<1>4. PICK k \in 1 .. i + 1 : p = SubSeq(q, 1, k)
  BY <1>1, <1>3 DEF Above
<1>5. CASE k = i + 1
  <2>1. SubSeq(q, 1, Len(q)) = q
    BY <1>2, SubSeqFull, Zenon
  <2> QED BY <1>1, <1>3, <1>4, <1>5, <2>1, Zenon
<1>6. CASE k # i + 1
  <2>1. k \in 1 .. Len(s) /\ 1 \in 1 .. Len(s)
    BY <1>3, <1>4, <1>6
  <2>2. q = s \o << e >>
    BY <1>1, AppendIsConcat, Zenon
  <2>3. << e >> \in Seq(S)
    OBVIOUS
  <2>4. SubSeq(s \o << e >>, 1, k) = SubSeq(s, 1, k)
    BY <2>1, <2>3, SubSeqOfConcat1, Zenon
  <2> QED BY <1>4, <2>1, <2>2, <2>4, Zenon DEF Above
<1> QED BY <1>5, <1>6

LEMMA AboveRoot ==
    ASSUME NEW r \in Nat
    PROVE  Above(Root(r)) = {Root(r)}
<1>1. Root(r) \in Seq(Nat \X Nat) /\ Len(Root(r)) = 1
  BY Places DEF Root
<1>2. PICK one \in Int : one = 1
  OBVIOUS
<1>3. SubSeq(Root(r), 1, Len(Root(r))) = Root(r)
  BY <1>1, SubSeqFull, Zenon
<1>4. 1 .. Len(Root(r)) = {one}
  BY <1>1, <1>2
<1>5. SubSeq(Root(r), 1, one) = Root(r)
  BY <1>1, <1>2, <1>3
<1>6. Above(Root(r)) = {SubSeq(Root(r), 1, k) : k \in {one}}
  BY <1>4, Zenon DEF Above
<1> QED BY <1>5, <1>6, Zenon

LEMMA AboveSelf ==
    ASSUME NEW S, NEW s \in Seq(S), Len(s) > 0
    PROVE  s \in Above(s)
<1>1. Len(s) \in 1 .. Len(s)
  BY LenProperties
<1>2. SubSeq(s, 1, Len(s)) = s
  BY SubSeqFull, Zenon
<1> QED BY <1>1, <1>2, Zenon DEF Above

(* The buses above a bus: itself, the one that its mux is on, and that of  *)
(* the CPU board's mux.                                                     *)
LEMMA BusesAbove ==
    ASSUME Plugged, Shape, Channelled, Owned, NEW n \in DOMAIN buses, NEW m \in DOMAIN buses,
           buses[m] \in Above(buses[n]), m # n
    PROVE  \E x \in HomeMuxes : /\ Owns(x, n) /\ n \in 2 .. 81
                                /\ m = x.on \/ (platform # "z9264f" /\ m = devnum)
<1>1. RootBuses \subseteq Nat /\ \A r \in RootBuses : r \in DOMAIN buses /\ buses[r] = Root(r)
  BY DEF RootBuses, Shape
<1>2. n \notin RootBuses
  <2>1. SUFFICES ASSUME n \in RootBuses PROVE FALSE
    OBVIOUS
  <2>2. buses[m] = buses[n]
    BY <1>1, <2>1, AboveRoot
  <2> QED BY <2>2, OneNumber
<1>3. PICK x \in HomeMuxes : /\ Owns(x, n) /\ HasMux(x) /\ n \in 2 .. 81 /\ n - x.first + 1 \in Nat
                             /\ buses[n] = ChannelOf(x, n - x.first + 1)
  <2>1. \A k \in Channels : k \in Nat
    BY DEF Channels
  <2> QED BY <1>2, <2>1, OwnedBus, Zenon
<1>4. x.addr \in Nat /\ x.on \in Nat /\ (x.on \notin RootBuses => platform # "z9264f" /\ x.on \in {4, 6, 7, 8, 9})
  BY HomeNumbers
<1>5. Place(x) \in Seq(Nat \X Nat)
  BY HomePlaces
<1>6. PICK e \in Nat \X Nat : e = <<x.addr, n - x.first + 1>>
  BY <1>3, <1>4
<1>7. buses[m] = buses[n] \/ buses[m] \in Above(Place(x))
  <2>1. buses[m] \in Above(Append(Place(x), e)) /\ buses[n] = Append(Place(x), e)
    BY <1>3, <1>6, Zenon DEF ChannelOf
  <2>2. PICK S : S = Nat \X Nat
    OBVIOUS
  <2>3. e \in S
    BY <1>6, <2>2
  <2>4. Place(x) \in Seq(S)
    BY <1>5, <2>2, Zenon
  <2>5. buses[m] = Append(Place(x), e) \/ buses[m] \in Above(Place(x))
    BY ONLY <2>1, <2>3, <2>4, AboveAppend
  <2> QED BY <2>1, <2>5
<1>8. buses[m] \in Above(Place(x))
  BY <1>7, OneNumber
<1>9. x.on \in DOMAIN buses
  BY <1>3 DEF HasMux, Has
<1>10. buses[x.on] = Place(x)
  BY <1>9, OnPlace
<1>11. CASE x.on \in RootBuses
  <2>1. Place(x) = Root(x.on)
    BY <1>11 DEF Place
  <2>2. buses[m] = Root(x.on)
    BY <1>4, <1>8, <2>1, AboveRoot
  <2>3. m = x.on
    BY <1>9, <1>10, <2>1, <2>2, OneNumber
  <2> QED BY <1>3, <2>3
<1>12. CASE x.on \notin RootBuses
  <2>1. Place(x) = CpuPlace(x.on) /\ x.on >= 1 /\ platform # "z9264f" /\ x.on - 1 \in Nat
    BY <1>4, <1>12 DEF Place
  <2>2. devnum \in RootBuses /\ devnum \in Nat
    BY <2>1, BoardFields
  <2>3. Root(devnum) \in Seq(Nat \X Nat)
    BY <2>2, Places
  <2>4. PICK f \in Nat \X Nat : f = <<\h70, x.on - 1>>
    BY <2>1
  <2>5. Place(x) = Append(Root(devnum), f)
    <3>1. PICK j \in Nat : j = x.on /\ j >= 1
      BY <1>4, <2>1
    <3>2. CpuPlace(j) = Append(Root(devnum), <<\h70, j - 1>>)
      BY <3>1, Places, Zenon
    <3> QED BY <2>1, <2>4, <3>1, <3>2
  <2>6. buses[m] = Place(x) \/ buses[m] \in Above(Root(devnum))
    <3>1. buses[m] \in Above(Append(Root(devnum), f))
      BY <1>8, <2>5
    <3>2. PICK S : S = Nat \X Nat
      OBVIOUS
    <3>3. f \in S
      BY <2>4, <3>2
    <3>4. Root(devnum) \in Seq(S)
      BY <2>3, <3>2, Zenon
    <3>5. buses[m] = Append(Root(devnum), f) \/ buses[m] \in Above(Root(devnum))
      BY ONLY <3>1, <3>3, <3>4, AboveAppend
    <3> QED BY <2>5, <3>5
  <2>7. CASE buses[m] = Place(x)
    <3>1. m = x.on
      BY <1>9, <1>10, <2>7, OneNumber
    <3> QED BY <1>3, <3>1
  <2>8. CASE buses[m] \in Above(Root(devnum))
    <3>1. buses[m] = Root(devnum)
      BY <2>2, <2>8, AboveRoot
    <3>2. m = devnum
      BY <1>1, <2>2, <3>1, OneNumber
    <3> QED BY <1>3, <2>1, <3>2
  <2> QED BY <2>6, <2>7, <2>8
<1> QED BY <1>11, <1>12

(* No two devices at the same address are meant for a bus and for one that *)
(* leads to it: none is refused for the sake of another.                    *)
LEMMA Apart ==
    ASSUME Plugged, Shape, Channelled, Owned, NEW n \in DOMAIN buses, NEW m \in DOMAIN buses,
           NEW a, NEW c, NEW d, Meant(n, a, c), Meant(m, a, d), buses[m] \in Above(buses[n])
    PROVE  m = n /\ c = d
<1>1. CASE platform = "z9264f"
  <2>1. \/ n \in {603, 604} /\ a \in \h74 .. \h77 /\ c = "mux"
        \/ n = 0 /\ a = \h53 /\ c = "24c02"
        \/ n \in 2 .. 65 /\ a = \h50 /\ c = "sff8436"
    BY <1>1 DEF Meant, RootMuxes
  <2>2. \/ m \in {603, 604} /\ a \in \h74 .. \h77 /\ d = "mux"
        \/ m = 0 /\ a = \h53 /\ d = "24c02"
        \/ m \in 2 .. 65 /\ a = \h50 /\ d = "sff8436"
    BY <1>1 DEF Meant, RootMuxes
  <2>3. m = n
    <3>1. SUFFICES ASSUME m # n PROVE FALSE
      OBVIOUS
    <3>2. PICK x \in HomeMuxes : n \in 2 .. 81 /\ m = x.on
      BY <1>1, <3>1, BusesAbove
    <3>3. m \in {603, 604}
      <4>1. x.on \in RootBuses /\ Meant(x.on, x.addr, "mux")
        BY <1>1, HomeNumbers
      <4> QED BY <1>1, <3>2, <4>1 DEF Meant, RootMuxes
    <3> QED BY <2>1, <2>2, <3>2, <3>3
  <2> QED BY <2>1, <2>2, <2>3
<1>2. CASE platform # "z9264f"
  <2>0. devnum \in {0, 1}
    BY <1>2, BoardFields
  <2>1. \A k, e : Meant(k, a, e) =>
           \/ k = devnum /\ a = \h70 /\ e = "mux"
           \/ k \in {4, 6, 7, 8, 9} /\ a \in {\h71, \h72} /\ e = "mux"
           \/ k = 2 /\ a = \h50 /\ e = "24c02"
           \/ k \in 14 .. 17 /\ a = \h3e /\ e = "cpld"
           \/ k \in {11, 12} \cup (18 .. 81) /\ a = \h50 /\ e = "sff8436"
    BY <1>2 DEF Meant, RootMuxes, BoardMuxes, BoardQsfps
  <2>2. m = n
    <3>1. SUFFICES ASSUME m # n PROVE FALSE
      OBVIOUS
    <3>2. PICK x \in HomeMuxes : Owns(x, n) /\ n \in 2 .. 81 /\ (m = x.on \/ m = devnum)
      BY <1>2, <3>1, BusesAbove
    <3>3. x.on \in {0, 1} \/ x.on \in {4, 6, 7, 8, 9}
      BY <1>2, BoardFields, HomeNumbers
    <3>4. m \in {0, 1} \/ m \in {4, 6, 7, 8, 9}
      BY <2>0, <3>2, <3>3
    <3>5. n \in {4, 6, 7, 8, 9} /\ m \in {4, 6, 7, 8, 9} /\ m = x.on
      <4>1. \/ n \in {4, 6, 7, 8, 9} /\ a \in {\h71, \h72}
            \/ n >= 2 /\ a \notin {\h70, \h71, \h72}
        BY <2>0, <2>1, <3>2
      <4>2. \/ m = devnum /\ a = \h70
            \/ m \in {4, 6, 7, 8, 9} /\ a \in {\h71, \h72}
        <5>1. PICK k \in {0, 1, 4, 6, 7, 8, 9} : k = m
          BY <3>4
        <5>2. \/ k = devnum /\ a = \h70
              \/ k \in {4, 6, 7, 8, 9} /\ a \in {\h71, \h72}
          BY <2>1, <5>1
        <5> QED BY <5>1, <5>2
      <4> QED BY <2>0, <3>2, <4>1, <4>2
    <3>6. CpuHome \in HomeMuxes /\ CpuHome.on = devnum /\ CpuHome.first = 2
      BY <1>2 DEF HomeMuxes, CpuHome
    <3>7. Owns(CpuHome, n)
      BY <3>5, <3>6 DEF Owns
    <3>8. x = CpuHome
      BY <3>2, <3>6, <3>7, OneOwner
    <3> QED BY <2>0, <3>5, <3>6, <3>8
  <2>3. c = d
    BY <2>1, <2>2
  <2> QED BY <2>2, <2>3
<1> QED BY <1>1, <1>2

(* A line without a path adds nothing twice.                               *)
LEMMA NewIsNew ==
    ASSUME Shape, NEW l, NEW c \in NewDevices(l)
    PROVE  \E n \in l.on \cap DOMAIN buses :
              /\ c = [at |-> buses[n], addr |-> l.addr, chip |-> l.chip]
              /\ ~ Has(n, l.addr, l.chip)
<1>1. PICK p \in FreeAt(Targets(l), l.addr) : c = [at |-> p, addr |-> l.addr, chip |-> l.chip]
  BY DEF NewDevices
<1>2. PICK n \in l.on \cap DOMAIN buses : p = buses[n]
  BY <1>1 DEF FreeAt, Targets, PathExists
<1>3. ASSUME Has(n, l.addr, l.chip) PROVE FALSE
  <2>1. PICK b \in clients : b = [at |-> p, addr |-> l.addr, chip |-> l.chip]
    BY <1>2, <1>3 DEF Has
  <2>2. b.at = p /\ b.addr = l.addr
    BY <2>1
  <2>3. p \in Seq(Nat \X Nat) /\ Len(p) > 0
    BY <1>2 DEF Shape
  <2>4. p \in Above(b.at)
    BY <2>2, <2>3, AboveSelf, Zenon
  <2> QED BY <1>1, <2>2, <2>4 DEF FreeAt
<1> QED BY <1>1, <1>2, <1>3

(* What a line is meant to add it adds, or it is there already.            *)
LEMMA NewIsAll ==
    ASSUME Plugged, Shape, Rightful, NEW l, Lawful(l), l.poll \subseteq DOMAIN buses,
           NEW n \in l.on \cap DOMAIN buses
    PROVE  \/ Has(n, l.addr, l.chip)
           \/ [at |-> buses[n], addr |-> l.addr, chip |-> l.chip] \in NewDevices(l)
<1>1. buses[n] \in Targets(l)
  BY DEF Targets, PathExists, Lawful
<1>2. Meant(n, l.addr, l.chip)
  BY DEF Lawful
<1>3. CASE buses[n] \in FreeAt(Targets(l), l.addr)
  BY <1>3 DEF NewDevices
<1>4. CASE buses[n] \notin FreeAt(Targets(l), l.addr)
  <2>1. PICK c \in clients : /\ c.addr = l.addr
                             /\ buses[n] \in Above(c.at) \/ c.at \in Above(buses[n])
    BY <1>1, <1>4 DEF FreeAt
  <2>2. PICK m \in DOMAIN buses :
           c = [at |-> buses[m], addr |-> c.addr, chip |-> c.chip] /\ Meant(m, c.addr, c.chip)
    BY DEF Rightful, Intended
  <2>3. c.at = buses[m]
    BY <2>2
  <2>4. m = n /\ c.chip = l.chip
    BY <1>2, <2>1, <2>2, <2>3, Apart DEF Rightful
  <2> QED BY <2>1, <2>2, <2>4 DEF Has
<1> QED BY <1>3, <1>4

(* The muxes whose lines were carried out are there.                       *)
LEMMA PresentMux ==
    ASSUME Plugged, Shape, Rightful, NEW k \in Nat, Present(k), NEW x \in HomeMuxes, HomeLine(x) <= k
    PROVE  HasMux(x)
<1>1. ASSUME NEW y \in HomeMuxes, HomeLine(y) <= k, y.on \in DOMAIN buses
      PROVE  HasMux(y)
  <2>1. HomeLine(y) \in 1 .. Len(InitLines) /\ InitLines[HomeLine(y)] = NewMux(y.on, y.addr)
    BY HomeLines
  <2>2. PICK i \in 1 .. k : i = HomeLine(y)
    BY <1>1, <2>1
  <2>3. /\ InitLines[i].on = {y.on} /\ InitLines[i].addr = y.addr /\ InitLines[i].chip = "mux"
    BY <2>1, <2>2, NewFields
  <2>4. Has(y.on, InitLines[i].addr, InitLines[i].chip)
    BY <1>1, <2>3 DEF Present
  <2> QED BY <2>3, <2>4 DEF HasMux
<1>2. CASE x.on \in RootBuses
  <2>1. x.on \in DOMAIN buses
    BY <1>2 DEF Shape
  <2> QED BY <1>1, <2>1
<1>3. CASE x.on \notin RootBuses
  <2>1. platform # "z9264f" /\ x.on \in {4, 6, 7, 8, 9} /\ x.first \in Nat /\ x.first >= 10
    BY <1>3, HomeNumbers
  <2>2. CpuHome \in HomeMuxes /\ CpuHome.on = devnum /\ CpuHome.first = 2
    BY <2>1 DEF HomeMuxes, CpuHome
  <2>3. devnum \in DOMAIN buses
    BY <2>1, BoardFields DEF Shape
  <2>4. HomeLine(CpuHome) < HomeLine(x)
    BY <2>1, <2>2, HomeOrder
  <2>5. HomeLine(CpuHome) <= k
    <3>1. HomeLine(CpuHome) \in Int /\ HomeLine(x) \in Int
      BY <2>2, HomeLines
    <3> QED BY <2>4, <3>1
  <2>6. HasMux(CpuHome)
    BY <1>1, <2>2, <2>3, <2>5
  <2>7. x.on \in 2 .. 2 + 7
    BY <2>1
  <2>8. x.on \in DOMAIN buses
    BY <2>2, <2>6, <2>7 DEF Rightful, Channelled, Present
  <2> QED BY <1>1, <2>8
<1> QED BY <1>2, <1>3

(* A look for a bus fails only when there is none of those of its line.    *)
LEMMA PolledBus ==
    ASSUME Plugged, Shape, Rightful, NEW i \in 1 .. Len(InitLines), Present(i - 1),
           ~ InitLines[i].poll \subseteq DOMAIN buses
    PROVE  InitLines[i].on \cap DOMAIN buses = {}
<1>1. PICK r \in {18, 34, 50, 66} : /\ platform = "s6100"
                                    /\ InitLines[i].poll = {r} /\ InitLines[i].on = r .. r + 15
  <2>1. Lawful(InitLines[i])
    BY LineIsMeant
  <2>2. InitLines[i].poll # {}
    OBVIOUS
  <2> QED BY <2>1, <2>2, Zenon DEF Lawful
<1>2. r \notin DOMAIN buses
  BY <1>1
<1> SUFFICES ASSUME NEW n \in r .. r + 15, n \in DOMAIN buses
             PROVE  FALSE
  BY <1>1
<1>3. platform # "z9264f"
  BY <1>1
<1>4. n >= 18 /\ n <= 81 /\ n \notin RootBuses
  <2>1. RootBuses = {0, 1}
    BY <1>3, BoardFields
  <2> QED BY <2>1
<1>5. PICK x \in HomeMuxes : Owns(x, n) /\ HasMux(x)
  BY <1>4, OwnedBus DEF Rightful
<1>6. PICK j \in (6 .. 9) \ missing, a \in IomAddresses : x = IomMux(j, a)
  <2>1. /\ CpuHome.first = 2 /\ SwitchHome.first = 10
    BY DEF CpuHome, SwitchHome
  <2>2. x # CpuHome /\ x # SwitchHome
    BY <1>4, <1>5, <2>1 DEF Owns
  <2> QED BY <1>3, <2>2 DEF HomeMuxes
<1>7. /\ FirstBus(j) \in {18, 34, 50, 66} /\ \h71 \in IomAddresses
      /\ 8 * (a - \h71) \in {0, 8}
  <2>1. PICK w \in {8, 16} :
              /\ w = IF platform = "s6100" THEN 16 ELSE 8
              /\ \A b \in IomAddresses : 8 * (b - \h71) \in {0, w - 8} /\ b \in Nat
              /\ FirstBus(9) = 18
              /\ \A m \in 6 .. 8 : \E d \in {0, w} :
                    (m + 1 \in missing <=> d = 0) /\ FirstBus(m) = FirstBus(m + 1) + d
    BY <1>3, IomNumbers
  <2>2. w = 16
    BY <1>1, <2>1
  <2>3. 8 \in 6 .. 8 /\ 7 \in 6 .. 8 /\ 6 \in 6 .. 8 /\ 8 + 1 = 9 /\ 7 + 1 = 8 /\ 6 + 1 = 7
    OBVIOUS
  <2>4. PICK d8 \in {0, 16}, d7 \in {0, 16}, d6 \in {0, 16} :
           /\ FirstBus(8) = FirstBus(9) + d8 /\ FirstBus(7) = FirstBus(8) + d7
           /\ FirstBus(6) = FirstBus(7) + d6
    BY <2>1, <2>2, <2>3
  <2>5. /\ FirstBus(9) \in {18, 34, 50, 66} /\ FirstBus(8) \in {18, 34, 50, 66}
        /\ FirstBus(7) \in {18, 34, 50, 66} /\ FirstBus(6) \in {18, 34, 50, 66}
    <3>1. PICK f9 \in Int : f9 = FirstBus(9) /\ f9 = 18
      BY <2>1
    <3>2. PICK f8 \in Int : f8 = FirstBus(8) /\ f8 = f9 + d8
      BY <2>4, <3>1
    <3>3. PICK f7 \in Int : f7 = FirstBus(7) /\ f7 = f8 + d7
      BY <2>4, <3>2
    <3>4. PICK f6 \in Int : f6 = FirstBus(6) /\ f6 = f7 + d6
      BY <2>4, <3>3
    <3>5. f8 \in {18, 34}
      BY <3>1, <3>2
    <3>6. f7 \in {18, 34, 50}
      BY <3>3, <3>5
    <3>7. f6 \in {18, 34, 50, 66}
      BY <3>4, <3>6
    <3>8. FirstBus(9) \in {18, 34, 50, 66} /\ FirstBus(8) \in {18, 34, 50, 66}
      BY <3>1, <3>2, <3>5
    <3>9. FirstBus(7) \in {18, 34, 50, 66} /\ FirstBus(6) \in {18, 34, 50, 66}
      BY <3>3, <3>4, <3>6, <3>7
    <3> QED BY <3>8, <3>9, Zenon
  <2>6. j = 6 \/ j = 7 \/ j = 8 \/ j = 9
    OBVIOUS
  <2>7. \h71 \in IomAddresses
    BY DEF IomAddresses
  <2>8. FirstBus(j) \in {18, 34, 50, 66}
    BY <2>5, <2>6
  <2>9. 8 * (a - \h71) \in {0, 8}
    BY <2>1, <2>2
  <2> QED BY <2>7, <2>8, <2>9
<1>8. /\ x.on = j /\ x.first = FirstBus(j) + 8 * (a - \h71)
      /\ IomMux(j, \h71).on = j /\ IomMux(j, \h71).first = FirstBus(j) + 8 * (\h71 - \h71)
      /\ IomMux(j, \h71).addr = \h71
  BY <1>6 DEF IomMux
<1>9. IomMux(j, \h71).first = r
  <2>1. PICK f \in {18, 34, 50, 66}, d \in {0, 8} : f = FirstBus(j) /\ d = 8 * (a - \h71)
    BY <1>7
  <2>2. n \in f + d .. f + d + 7
    BY <1>5, <1>8, <2>1 DEF Owns
  <2>3. f = r
    BY <2>2
  <2> QED BY <1>8, <2>1, <2>3
<1>10. IomMux(j, \h71) \in HomeMuxes
  BY <1>3, <1>7 DEF HomeMuxes
<1>11. HasMux(IomMux(j, \h71))
  <2>1. HomeLine(IomMux(j, \h71)) < i /\ HomeLine(IomMux(j, \h71)) \in Int
    <3>1. InitLines[i].poll # {}
      BY <1>1
    <3> QED BY <1>10, <3>1, HomeLines
  <2>2. HomeLine(IomMux(j, \h71)) <= i - 1 /\ i - 1 \in Nat
    BY <2>1
  <2> QED BY <1>10, <2>2, PresentMux
<1>12. r \in r .. r + 7
  OBVIOUS
<1> QED BY <1>2, <1>9, <1>10, <1>11, <1>12 DEF Rightful, Channelled, Present

-----------------------------------------------------------------------------
(* The numbers that a mux gets *)

LEMMA ProbeNone ==
    ASSUME Shape, NEW devices, ProbeMuxes(devices),
           \A c \in devices : ~ (c.chip = "mux" /\ Answers(c.at))
    PROVE  buses' = buses
<1> DEFINE M == {c \in devices : c.chip = "mux" /\ Answers(c.at)}
           free    == (0 .. MaxBus) \ DOMAIN buses
           rank(n) == Cardinality({m \in free : m < n})
<1>1. PICK muxes \in SetToSeqs(M) : buses' = WithChannels(buses, muxes)
  BY DEF ProbeMuxes
<1> DEFINE new     == {n \in free : rank(n) < 8 * Len(muxes)}
           mux(n)  == muxes[(rank(n) \div 8) + 1]
<1>2. buses' = [n \in DOMAIN buses \cup new |->
                  IF n \in new THEN Append(mux(n).at, <<mux(n).addr, (rank(n) % 8) + 1>>)
                               ELSE buses[n]]
  BY <1>1, Zenon DEF WithChannels
<1>3. M = {}
  OBVIOUS
<1>4. Cardinality(M) = 0
  BY <1>3, FS_EmptySet
<1>5. muxes \in [1 .. 0 -> M]
  BY <1>1, <1>4, Zenon DEF SetToSeqs
<1>6. muxes \in Seq(M) /\ Len(muxes) = 0
  BY <1>5, SeqDef, LenProperties
<1>7. \A n \in free : rank(n) \in Nat
  <2>1. IsFiniteSet(0 .. MaxBus)
    BY FS_Interval, PlatformsAssumption
  <2>2. \A n \in free : {m \in free : m < n} \in SUBSET (0 .. MaxBus)
    OBVIOUS
  <2> QED BY <2>1, <2>2, FS_Subset, FS_CardinalityType
<1> HIDE DEF rank, free
<1>8. new = {}
  BY <1>6, <1>7
<1> HIDE DEF mux, new
<1>9. buses' = [n \in DOMAIN buses |-> buses[n]]
  BY <1>2, <1>8
<1> QED BY <1>9 DEF Shape

(* A mux gets the lowest eight free numbers, when they are free.           *)
LEMMA ProbeOne ==
    ASSUME Shape, NEW c, c.chip = "mux", Answers(c.at), ProbeMuxes({c}),
           NEW f \in Nat, f + 7 <= MaxBus, \A n \in 0 .. f - 1 : n \in DOMAIN buses,
           \A n \in f .. f + 7 : n \notin DOMAIN buses
    PROVE  /\ DOMAIN buses' = DOMAIN buses \cup (f .. f + 7)
           /\ \A n \in DOMAIN buses : buses'[n] = buses[n]
           /\ \A n \in f .. f + 7 : buses'[n] = Append(c.at, <<c.addr, n - f + 1>>)
<1> DEFINE M == {b \in {c} : b.chip = "mux" /\ Answers(b.at)}
           free    == (0 .. MaxBus) \ DOMAIN buses
           rank(n) == Cardinality({m \in free : m < n})
<1>1. PICK muxes \in SetToSeqs(M) : buses' = WithChannels(buses, muxes)
  BY DEF ProbeMuxes
<1> DEFINE new     == {n \in free : rank(n) < 8 * Len(muxes)}
           mux(n)  == muxes[(rank(n) \div 8) + 1]
<1>2. buses' = [n \in DOMAIN buses \cup new |->
                  IF n \in new THEN Append(mux(n).at, <<mux(n).addr, (rank(n) % 8) + 1>>)
                               ELSE buses[n]]
  BY <1>1, Zenon DEF WithChannels
<1>3. M = {c}
  OBVIOUS
<1>4. Cardinality(M) = 1
  BY <1>3, FS_Singleton
<1>5. muxes \in [1 .. 1 -> M]
  BY <1>1, <1>4, Zenon DEF SetToSeqs
<1>6. muxes \in Seq(M)
  BY <1>5, SeqDef
<1>7. Len(muxes) = 1 /\ muxes[1] = c
  BY <1>3, <1>5, <1>6, LenProperties
<1>8. \A n \in f .. f + 7 : n \in free
  BY PlatformsAssumption
<1>9. \A n \in free : n \in Nat /\ n >= f /\ n <= MaxBus
  BY PlatformsAssumption
<1>10. ASSUME NEW n \in f .. f + 7 PROVE rank(n) = n - f
  <2>1. {m \in free : m < n} = f .. (n - 1)
    BY <1>8, <1>9
  <2>2. n - 1 \in Int /\ f \in Int
    OBVIOUS
  <2>3. Cardinality(f .. (n - 1)) = IF f > n - 1 THEN 0 ELSE (n - 1) - f + 1
    BY <2>2, FS_Interval
  <2>4. Cardinality(f .. (n - 1)) = n - f
    BY <2>3
  <2> QED BY <2>1, <2>4, Zenon
<1>11. ASSUME NEW n \in free, n > f + 7 PROVE rank(n) \in Nat /\ rank(n) >= 8
  <2>1. IsFiniteSet(0 .. MaxBus)
    BY FS_Interval, PlatformsAssumption
  <2>2. {m \in free : m < n} \in SUBSET (0 .. MaxBus)
    OBVIOUS
  <2>3. IsFiniteSet({m \in free : m < n})
    BY <2>1, <2>2, FS_Subset
  <2>4. f .. f + 7 \in SUBSET {m \in free : m < n}
    BY <1>8, <1>9, <1>11
  <2>5. Cardinality(f .. f + 7) <= rank(n) /\ rank(n) \in Nat
    BY <2>3, <2>4, FS_Subset, FS_CardinalityType
  <2>6. Cardinality(f .. f + 7) = IF f > f + 7 THEN 0 ELSE f + 7 - f + 1
    <3>1. f \in Int /\ f + 7 \in Int
      OBVIOUS
    <3> QED BY <3>1, FS_Interval
  <2>7. Cardinality(f .. f + 7) = 8
    BY <2>6
  <2> QED BY <2>5, <2>7
<1> HIDE DEF rank
<1>12. new = f .. f + 7
  BY <1>7, <1>8, <1>9, <1>10, <1>11
<1>13. DOMAIN buses' = DOMAIN buses \cup (f .. f + 7)
  BY <1>2, <1>12
<1>14. \A n \in DOMAIN buses : buses'[n] = buses[n]
  BY <1>2, <1>12
<1>15. ASSUME NEW n \in f .. f + 7 PROVE buses'[n] = Append(c.at, <<c.addr, n - f + 1>>)
  <2>1. n \in new
    BY <1>12
  <2>2. rank(n) \div 8 = 0 /\ rank(n) % 8 = n - f
    BY <1>10
  <2>3. mux(n) = c
    BY <1>7, <2>2
  <2> HIDE DEF mux, new
  <2> QED BY <1>2, <2>1, <2>2, <2>3
<1> QED BY <1>13, <1>14, <1>15

-----------------------------------------------------------------------------
(* The steps of init *)

LEMMA SameHome ==
    ASSUME UNCHANGED machine
    PROVE  /\ RootBuses' = RootBuses /\ HomeMuxes' = HomeMuxes /\ InitLines' = InitLines
           /\ \A x, k : Place(x)' = Place(x) /\ ChannelOf(x, k)' = ChannelOf(x, k)
           /\ \A n, a, c : Meant(n, a, c)' <=> Meant(n, a, c)
           /\ Plugged => Plugged'
<1>1. platform' = platform /\ devnum' = devnum /\ missing' = missing
  BY DEF machine
<1>2. RootBuses' = RootBuses /\ RootMuxes' = RootMuxes /\ BoardMuxes' = BoardMuxes
  BY <1>1, SameMachine
<1>3. \A x, k : Place(x)' = Place(x) /\ ChannelOf(x, k)' = ChannelOf(x, k)
  BY <1>1, <1>2, Zenon DEF ChannelOf, Place, CpuPlace, Root
<1>4. HomeMuxes' = HomeMuxes
  BY <1>1 DEF HomeMuxes, CpuHome, SwitchHome, FpgaMux, IomMux, IomAddresses, FirstBus,
     QsfpMuxAddresses
<1>5. \A n, a, c : Meant(n, a, c)' <=> Meant(n, a, c)
  BY <1>1, <1>2 DEF Meant, BoardQsfps
<1>6. InitLines' = InitLines
  BY SameMachine
<1>7. Plugged => Plugged'
  BY <1>1, Zenon DEF Plugged, Supported
<1> QED BY <1>2, <1>3, <1>4, <1>5, <1>6, <1>7

(* The muxes that are meant to be there answer, and no others.             *)
LEMMA HomeAnswers ==
    ASSUME Plugged, Shape, Channelled, Owned, NEW x \in HomeMuxes
    PROVE  Answers(Place(x))
<1>1. CASE x.on \in RootBuses
  <2>1. Len(Place(x)) = 1
    BY <1>1 DEF Place, Root
  <2> QED BY <2>1 DEF Answers
<1>2. CASE x.on \notin RootBuses
  <2>1. x.on \in Nat /\ x.on \notin missing
    BY HomeNumbers
  <2>2. Place(x)[2][2] = x.on - 1
    BY <1>2 DEF Place, CpuPlace
  <2>3. Place(x)[2][2] + 1 = x.on
    BY <2>1, <2>2
  <2> QED BY <2>1, <2>3 DEF Answers
<1> QED BY <1>1, <1>2

LEMMA OthersSilent ==
    ASSUME Plugged, Shape, Channelled, Owned, NEW n \in DOMAIN buses, NEW a, Meant(n, a, "mux"),
           Answers(buses[n])
    PROVE  \E x \in HomeMuxes : x.on = n /\ x.addr = a
<1>1. SUFFICES ASSUME n \in missing PROVE FALSE
  BY MuxHome
<1>2. n \in 6 .. 9
  BY <1>1 DEF Plugged
<1>3. platform # "z9264f"
  BY <1>2 DEF Meant, RootMuxes
<1>4. n \in (2 .. 9) \cap DOMAIN buses
  BY <1>2
<1>5. buses[n] = CpuPlace(n)
  BY <1>3, <1>4, CpuChannel
<1>6. Len(buses[n]) = 2 /\ buses[n][2][2] = n - 1
  BY <1>5 DEF CpuPlace
<1>7. buses[n][2][2] + 1 = n
  BY <1>2, <1>6
<1> QED BY <1>1, <1>6, <1>7 DEF Answers

(* What a line of init adds is meant, and what was there stays.            *)
LEMMA GrownIntended ==
    ASSUME Shape, Intended, UNCHANGED machine, NEW l, Lawful(l),
           clients' = clients \cup NewDevices(l),
           DOMAIN buses \subseteq DOMAIN buses', \A n \in DOMAIN buses : buses'[n] = buses[n]
    PROVE  /\ Intended'
           /\ \A n, a, c : Has(n, a, c) => Has(n, a, c)'
<1>1. \A n, a, c : Meant(n, a, c)' <=> Meant(n, a, c)
  BY SameHome
<1>2. ASSUME NEW c \in clients'
      PROVE  \E n \in DOMAIN buses' : /\ c = [at |-> buses'[n], addr |-> c.addr, chip |-> c.chip]
                                      /\ Meant(n, c.addr, c.chip)'
  <2>1. PICK n \in DOMAIN buses : /\ c = [at |-> buses[n], addr |-> c.addr, chip |-> c.chip]
                                  /\ Meant(n, c.addr, c.chip)
    <3>1. CASE c \in clients
      BY <3>1 DEF Intended
    <3>2. CASE c \in NewDevices(l)
      <4>1. PICK n \in l.on \cap DOMAIN buses : c = [at |-> buses[n], addr |-> l.addr, chip |-> l.chip]
        BY <3>2, NewIsNew
      <4>2. c.addr = l.addr /\ c.chip = l.chip /\ Meant(n, l.addr, l.chip)
        BY <4>1 DEF Lawful
      <4> QED BY <4>1, <4>2
    <3> QED BY <3>1, <3>2
  <2> QED BY <1>1, <2>1
<1>3. ASSUME NEW n, NEW a, NEW c, Has(n, a, c)
      PROVE  Has(n, a, c)'
  BY <1>3 DEF Has
<1> QED BY <1>2, <1>3 DEF Intended

(* A line of init leaves what it and the lines before it put on the buses  *)
(* that were there, when the numbers that are new are none of theirs.       *)
LEMMA StillPresent ==
    ASSUME Plugged, Shape, Rightful, UNCHANGED machine, UNCHANGED drivers,
           NEW i \in 1 .. Len(InitLines), Present(i - 1),
           clients' = clients \cup NewDevices(InitLines[i]),
           DOMAIN buses \subseteq DOMAIN buses', \A n \in DOMAIN buses : buses'[n] = buses[n],
           \A j \in 1 .. i : \A n \in InitLines[j].on : n \in DOMAIN buses' => n \in DOMAIN buses
    PROVE  Present(i)'
<1> DEFINE l == InitLines[i]
<1>1. InitLines' = InitLines
  BY SameHome
<1>2. Lawful(l)
  BY LineIsMeant
<1>3. \A n, a, c : Has(n, a, c) => Has(n, a, c)'
  BY <1>2, GrownIntended DEF Rightful
<1>4. ASSUME NEW n \in l.on \cap DOMAIN buses, NEW a, NEW c, a = l.addr, c = l.chip
      PROVE  Has(n, a, c)'
  <2>1. l.poll \subseteq DOMAIN buses
    <3>1. SUFFICES ASSUME ~ (InitLines[i].poll \subseteq DOMAIN buses) PROVE FALSE
      OBVIOUS
    <3>2. InitLines[i].on \cap DOMAIN buses = {}
      BY <3>1, PolledBus
    <3> QED BY <1>4, <3>2
  <2>2. CASE Has(n, a, c)
    BY <1>3, <2>2
  <2>3. CASE [at |-> buses[n], addr |-> a, chip |-> c] \in NewDevices(l)
    BY <2>3 DEF Has
  <2>4. Has(n, l.addr, l.chip) \/ [at |-> buses[n], addr |-> l.addr, chip |-> l.chip] \in NewDevices(l)
    <3> HIDE DEF l
    <3> QED BY <1>2, <1>4, <2>1, NewIsAll
  <2> HIDE DEF l
  <2> QED BY <1>4, <2>2, <2>3, <2>4
<1>5. ASSUME NEW j \in 1 .. i, NEW n \in InitLines[j].on \cap DOMAIN buses',
             NEW a, NEW c, a = InitLines[j].addr, c = InitLines[j].chip
      PROVE  Has(n, a, c)'
  <2>1. n \in InitLines[j].on \cap DOMAIN buses
    BY <1>5
  <2>2. CASE j = i
    BY <1>4, <1>5, <2>1, <2>2
  <2>3. CASE j # i
    <3>1. j \in 1 .. i - 1
      BY <2>3
    <3>2. Has(n, a, c)
      BY <1>5, <2>1, <3>1 DEF Present
    <3> QED BY <1>3, <3>2
  <2> QED BY <2>2, <2>3
<1>6. "mux" \in drivers'
  BY DEF Present
<1> QED BY <1>1, <1>5, <1>6 DEF Present

(* A line that adds no mux, or one that does not answer, or that is there. *)
LEMMA NoMuxAdded ==
    ASSUME Plugged, Shape, Rightful, UNCHANGED machine, UNCHANGED drivers,
           NEW i \in 1 .. Len(InitLines), Present(i - 1), Add(InitLines[i]),
           \A c \in NewDevices(InitLines[i]) : ~ (c.chip = "mux" /\ Answers(c.at))
    PROVE  Rightful' /\ Present(i)'
<1> DEFINE l == InitLines[i]
<1>1. clients' = clients \cup NewDevices(l) /\ ProbeMuxes(NewDevices(l))
  BY DEF Add
<1>2. buses' = buses
  BY <1>1, ProbeNone
<1>3. Lawful(l)
  BY LineIsMeant
<1>4. Present(i)'
  BY <1>1, <1>2, StillPresent
<1>5. /\ Intended'
      /\ \A n, a, c : Has(n, a, c) => Has(n, a, c)'
  BY <1>1, <1>2, <1>3, GrownIntended DEF Rightful
<1>6. HomeMuxes' = HomeMuxes /\ RootBuses' = RootBuses /\ \A x, k : ChannelOf(x, k)' = ChannelOf(x, k)
  BY SameHome
<1>7. ASSUME NEW x \in HomeMuxes, Has(x.on, x.addr, "mux")'
      PROVE  HasMux(x)
  <2>1. /\ x.on \in DOMAIN buses
        /\ [at |-> buses[x.on], addr |-> x.addr, chip |-> "mux"] \in clients \cup NewDevices(l)
    BY <1>1, <1>2, <1>7 DEF Has
  <2>2. buses[x.on] = Place(x) /\ Answers(Place(x))
    BY <2>1, OnPlace, HomeAnswers DEF Rightful
  <2>3. [at |-> buses[x.on], addr |-> x.addr, chip |-> "mux"] \notin NewDevices(l)
    BY <2>2
  <2> QED BY <2>1, <2>3 DEF HasMux, Has
<1>8. Channelled'
  <2>1. ASSUME NEW x \in HomeMuxes, Has(x.on, x.addr, "mux")', NEW n \in x.first .. x.first + 7
        PROVE  n \in DOMAIN buses /\ buses[n] = ChannelOf(x, n - x.first + 1)
    <3>1. HasMux(x) /\ "mux" \in drivers
      BY <1>7, <2>1 DEF Present
    <3>2. Channelled
      BY DEF Rightful
    <3> QED BY <3>1, <3>2, Zenon DEF Channelled
  <2> QED BY <1>2, <1>6, <2>1 DEF Channelled, HasMux
<1>9. Owned'
  <2>1. ASSUME NEW n \in DOMAIN buses \ RootBuses
        PROVE  "mux" \in drivers /\ \E x \in HomeMuxes : Owns(x, n) /\ HasMux(x)
    BY DEF Rightful, Owned
  <2>2. \A x : HasMux(x) => Has(x.on, x.addr, "mux")'
    BY <1>5 DEF HasMux
  <2> QED BY <1>2, <1>6, <2>1, <2>2 DEF Owned, HasMux, Owns
<1> QED BY <1>4, <1>5, <1>8, <1>9 DEF Rightful

(* The numbers before those of a mux are in use when its line comes, and   *)
(* its own are not.                                                         *)
LEMMA NumbersWait ==
    ASSUME Plugged, Shape, Rightful, NEW x \in HomeMuxes, ~ HasMux(x), Present(HomeLine(x) - 1)
    PROVE  /\ \A n \in 0 .. x.first - 1 : n \in DOMAIN buses
           /\ \A n \in x.first .. x.first + 7 : n \notin DOMAIN buses
<1>1. /\ HomeLine(x) - 1 \in Nat
      /\ \A y \in HomeMuxes : HomeLine(y) \in Int
  BY HomeLines
<1>2. {0, 1} \subseteq RootBuses /\ (2 .. 81) \cap RootBuses = {} /\ RootBuses \subseteq DOMAIN buses
  BY DEF RootBuses, Shape
<1>3. PICK f \in Nat : f = x.first /\ f >= 2 /\ f <= 74
  BY FirstNumber, Zenon
<1>4. ASSUME NEW n \in 0 .. f - 1 PROVE n \in DOMAIN buses
  <2>1. CASE n >= 2
    <3>1. PICK y \in HomeMuxes : Owns(y, n) /\ y.first < x.first
      BY <1>3, <2>1, Covered
    <3>2. HomeLine(y) < HomeLine(x)
      BY <3>1, HomeOrder
    <3>3. HomeLine(y) <= HomeLine(x) - 1
      BY <1>1, <3>2
    <3>4. HasMux(y)
      BY <1>1, <3>3, PresentMux
    <3> QED BY <3>1, <3>4 DEF Rightful, Channelled, Present, Owns
  <2>2. CASE n \in {0, 1}
    BY <1>2, <2>2
  <2> QED BY <2>1, <2>2
<1>5. ASSUME NEW n \in f .. f + 7, n \in DOMAIN buses PROVE FALSE
  <2>1. n \notin RootBuses
    BY <1>2, <1>3
  <2>2. PICK y \in HomeMuxes : Owns(y, n) /\ HasMux(y)
    BY <1>5, <2>1, OwnedBus DEF Rightful
  <2>3. Owns(x, n)
    BY <1>3 DEF Owns
  <2>4. y = x
    BY <2>2, <2>3, OneOwner
  <2> QED BY <2>2, <2>4
<1> QED BY <1>3, <1>4, <1>5

(* The places of its channels are those of no other bus.                   *)
LEMMA PlacesWait ==
    ASSUME Plugged, Shape, Rightful, NEW x \in HomeMuxes, ~ HasMux(x), NEW k \in Nat,
           NEW n \in DOMAIN buses
    PROVE  buses[n] # ChannelOf(x, k)
<1>1. CASE n \in RootBuses
  <2>1. n \in Nat /\ buses[n] = Root(n)
    <3>1. buses[n] = Root(n)
      BY <1>1 DEF Shape
    <3>2. n \in Nat
      BY <1>1 DEF RootBuses
    <3> QED BY <3>1, <3>2
  <2>2. Len(buses[n]) = 1
    BY <2>1, Places
  <2> QED BY <2>2, ChannelLength
<1>2. CASE n \notin RootBuses
  <2>1. PICK y \in HomeMuxes : /\ HasMux(y) /\ n - y.first + 1 \in Channels
                               /\ buses[n] = ChannelOf(y, n - y.first + 1)
    BY <1>2, OwnedBus DEF Rightful
  <2>2. PICK j \in Nat : j = n - y.first + 1
    BY <2>1 DEF Channels
  <2>3. ChannelOf(y, j) = ChannelOf(x, k) => y = x
    BY SameChannel, Zenon
  <2> QED BY <2>1, <2>2, <2>3
<1> QED BY <1>1, <1>2

(* A line that adds a mux that answers: it gets the numbers that are meant *)
(* for it.                                                                  *)
LEMMA OneMuxAdded ==
    ASSUME Plugged, Shape, Rightful, UNCHANGED machine, UNCHANGED drivers, MaxBus >= 81,
           NEW i \in 1 .. Len(InitLines), Present(i - 1), Add(InitLines[i]),
           NEW c \in NewDevices(InitLines[i]), c.chip = "mux", Answers(c.at)
    PROVE  Rightful' /\ Present(i)'
<1> DEFINE l == InitLines[i]
           new == NewDevices(l)
<1>1. clients' = clients \cup new /\ ProbeMuxes(new)
  BY DEF Add
<1>2. Lawful(l)
  BY LineIsMeant
<1> HIDE DEF l
<1>3. PICK n \in DOMAIN buses :
         /\ n \in l.on /\ c = [at |-> buses[n], addr |-> l.addr, chip |-> "mux"]
         /\ l.chip = "mux" /\ ~ Has(n, l.addr, "mux")
  <2>1. PICK n \in l.on \cap DOMAIN buses :
           c = [at |-> buses[n], addr |-> l.addr, chip |-> l.chip] /\ ~ Has(n, l.addr, l.chip)
    BY NewIsNew DEF l
  <2>2. l.chip = "mux"
    BY <2>1
  <2> QED BY <2>1, <2>2
<1>4. new = {c}
  <2>1. l.on = {n}
    BY <1>2, <1>3 DEF Lawful
  <2>2. ASSUME NEW d \in new PROVE d = c
    <3>1. PICK m \in l.on : d = [at |-> buses[m], addr |-> l.addr, chip |-> l.chip]
      BY NewIsNew
    <3> QED BY <1>3, <2>1, <3>1
  <2> QED BY <2>2 DEF l
<1>5. PICK x \in HomeMuxes : x.on = n /\ x.addr = l.addr
  <2>1. Meant(n, l.addr, "mux")
    BY <1>2, <1>3 DEF Lawful
  <2>2. Answers(buses[n])
    BY <1>3
  <2> QED BY <2>1, <2>2, OthersSilent DEF Rightful
<1>6. ~ HasMux(x) /\ i = HomeLine(x)
  <2>1. ~ HasMux(x)
    BY <1>3, <1>5 DEF HasMux
  <2>2. InitLines[i].chip = "mux" /\ x.on \in InitLines[i].on /\ InitLines[i].addr = x.addr
    BY <1>3, <1>5 DEF l
  <2>3. \A j \in 1 .. Len(InitLines) :
           /\ InitLines[j].chip = "mux" /\ x.on \in InitLines[j].on /\ InitLines[j].addr = x.addr
           => j = HomeLine(x)
    BY HomeLines, Zenon
  <2> QED BY <2>1, <2>2, <2>3, Zenon
<1>7. c.at = Place(x) /\ c.addr = x.addr
  <2>1. buses[x.on] = Place(x)
    BY <1>3, <1>5, OnPlace DEF Rightful
  <2> QED BY <1>3, <1>5, <2>1
<1>8. PICK f \in Nat : f = x.first /\ f >= 2 /\ f <= 74
  BY FirstNumber, Zenon
<1>9. /\ DOMAIN buses' = DOMAIN buses \cup (f .. f + 7)
      /\ \A m \in DOMAIN buses : buses'[m] = buses[m]
      /\ \A m \in f .. f + 7 : buses'[m] = ChannelOf(x, m - x.first + 1)
  <2>1. /\ \A m \in 0 .. f - 1 : m \in DOMAIN buses
        /\ \A m \in f .. f + 7 : m \notin DOMAIN buses
    BY <1>6, <1>8, NumbersWait
  <2>2. f + 7 <= MaxBus
    BY <1>8, PlatformsAssumption
  <2>3. ProbeMuxes({c})
    BY <1>1, <1>4
  <2>4. /\ DOMAIN buses' = DOMAIN buses \cup (f .. f + 7)
        /\ \A m \in DOMAIN buses : buses'[m] = buses[m]
        /\ \A m \in f .. f + 7 : buses'[m] = Append(c.at, <<c.addr, m - f + 1>>)
    BY <2>1, <2>2, <2>3, ProbeOne
  <2> QED BY <1>7, <1>8, <2>4, Zenon DEF ChannelOf
<1>10. DOMAIN buses \subseteq DOMAIN buses'
  BY <1>9
<1>11. /\ Intended'
       /\ \A m, a, d : Has(m, a, d) => Has(m, a, d)'
  BY <1>1, <1>2, <1>9, <1>10, GrownIntended DEF Rightful
<1>12. Present(i)'
  <2>1. ASSUME NEW j \in 1 .. i, NEW m \in InitLines[j].on, m \in f .. f + 7 PROVE FALSE
    <3>1. j \in 1 .. Len(InitLines) /\ j <= HomeLine(x)
      <4>1. i \in Nat /\ i <= Len(InitLines)
        OBVIOUS
      <4> QED BY <1>6, <4>1
    <3>2. Owns(x, m)
      BY <1>8, <2>1 DEF Owns
    <3> QED BY <2>1, <3>1, <3>2, HomeLines
  <2> QED BY <1>1, <1>9, <1>10, <2>1, StillPresent DEF l
<1>13. HomeMuxes' = HomeMuxes /\ RootBuses' = RootBuses /\ \A y, k : ChannelOf(y, k)' = ChannelOf(y, k)
  BY SameHome
<1>14. Has(x.on, x.addr, "mux")'
  <2>1. n \in DOMAIN buses' /\ buses'[n] = buses[n] /\ c \in clients'
    BY <1>1, <1>4, <1>9, <1>10
  <2> QED BY <1>3, <1>5, <2>1 DEF Has
<1>15. ASSUME NEW y \in HomeMuxes, Has(y.on, y.addr, "mux")'
       PROVE  y = x \/ HasMux(y)
  <2>1. /\ y.on \in DOMAIN buses'
        /\ \/ [at |-> buses'[y.on], addr |-> y.addr, chip |-> "mux"] \in clients
           \/ [at |-> buses'[y.on], addr |-> y.addr, chip |-> "mux"] = c
    BY <1>1, <1>4, <1>15 DEF Has
  <2>2. CASE y.on \in DOMAIN buses
    <3>1. buses'[y.on] = buses[y.on]
      BY <1>9, <2>2
    <3>2. CASE [at |-> buses[y.on], addr |-> y.addr, chip |-> "mux"] \in clients
      BY <2>2, <3>2 DEF HasMux, Has
    <3>3. CASE [at |-> buses[y.on], addr |-> y.addr, chip |-> "mux"] = c
      <4>1. buses[y.on] = buses[n] /\ y.addr = x.addr
        BY <1>3, <1>5, <3>3
      <4>2. y.on = x.on
        BY <1>5, <2>2, <4>1, OneNumber DEF Rightful
      <4> QED BY <4>1, <4>2, HomeNumbers
    <3> QED BY <2>1, <3>1, <3>2, <3>3
  <2>3. CASE y.on \notin DOMAIN buses
    <3>1. PICK k \in Nat : buses'[y.on] = ChannelOf(x, k)
      BY <1>8, <1>9, <2>1, <2>3
    <3>2. \E m \in DOMAIN buses : buses'[y.on] = buses[m]
      <4>1. CASE [at |-> buses'[y.on], addr |-> y.addr, chip |-> "mux"] \in clients
        BY <4>1 DEF Rightful, Intended
      <4>2. CASE [at |-> buses'[y.on], addr |-> y.addr, chip |-> "mux"] = c
        BY <1>3, <4>2
      <4> QED BY <2>1, <4>1, <4>2
    <3> QED BY <1>6, <3>1, <3>2, PlacesWait
  <2> QED BY <2>2, <2>3
<1>16. "mux" \in drivers
  BY DEF Present
<1>17. ASSUME NEW y \in HomeMuxes, Has(y.on, y.addr, "mux")', NEW m \in y.first .. y.first + 7
       PROVE  m \in DOMAIN buses' /\ buses'[m] = ChannelOf(y, m - y.first + 1)
  <2>1. CASE y = x
    BY <1>8, <1>9, <1>17, <2>1
  <2>2. CASE HasMux(y)
    <3>1. m \in DOMAIN buses /\ buses[m] = ChannelOf(y, m - y.first + 1)
      BY <1>16, <2>2, Zenon DEF Rightful, Channelled
    <3> QED BY <1>9, <1>10, <3>1
  <2> QED BY <1>15, <1>17, <2>1, <2>2
<1>18. Channelled'
  BY <1>13, <1>17 DEF Channelled, HasMux
<1>19. Owned'
  <2>1. ASSUME NEW m \in DOMAIN buses' \ RootBuses
        PROVE  \E y \in HomeMuxes : Owns(y, m) /\ Has(y.on, y.addr, "mux")'
    <3>1. CASE m \in DOMAIN buses
      <4>1. PICK y \in HomeMuxes : Owns(y, m) /\ HasMux(y)
        BY <3>1 DEF Rightful, Owned
      <4>2. Has(y.on, y.addr, "mux")'
        BY <1>11, <4>1 DEF HasMux
      <4> QED BY <4>1, <4>2
    <3>2. CASE m \in f .. f + 7
      <4>1. Owns(x, m)
        BY <1>8, <3>2 DEF Owns
      <4> QED BY <1>14, <4>1
    <3> QED BY <1>9, <3>1, <3>2
  <2> QED BY <1>13, <1>16, <2>1 DEF Owned, HasMux, Owns
<1> QED BY <1>11, <1>12, <1>18, <1>19 DEF Rightful

LEMMA AddRightful ==
    ASSUME Plugged, Shape, Rightful, UNCHANGED machine, UNCHANGED drivers, MaxBus >= 81,
           NEW i \in 1 .. Len(InitLines), Present(i - 1), Add(InitLines[i])
    PROVE  Rightful' /\ Present(i)'
<1>1. CASE \E c \in NewDevices(InitLines[i]) : c.chip = "mux" /\ Answers(c.at)
  BY <1>1, OneMuxAdded
<1>2. CASE \A c \in NewDevices(InitLines[i]) : ~ (c.chip = "mux" /\ Answers(c.at))
  BY <1>2, NoMuxAdded
<1> QED BY <1>1, <1>2

-----------------------------------------------------------------------------
(* A tree that has all that init puts there is in place *)

(* The muxes of the QSFP ports.                                            *)
QsfpHomes == IF platform = "z9264f" THEN HomeMuxes ELSE HomeMuxes \ {CpuHome, SwitchHome}

LEMMA CpuMuxPlaces ==
    ASSUME Plugged, platform # "z9264f"
    PROVE  /\ \A n \in 2 .. 9 : CpuMux(n - 1) = CpuPlace(n)
           /\ \A k \in Channels : SwitchMux(k) = ChannelOf(SwitchHome, k)
<1>1. \A n \in 2 .. 9 : CpuMux(n - 1) = CpuPlace(n)
  <2>1. ASSUME NEW n \in 2 .. 9 PROVE CpuMux(n - 1) = CpuPlace(n)
    BY BoardPlaces, Zenon DEF Plugged, CpuMux
  <2> QED BY <2>1
<1>2. CpuMux(3) = CpuPlace(4)
  <2>1. 4 \in 2 .. 9 /\ 4 - 1 = 3
    OBVIOUS
  <2> QED BY <1>1, <2>1
<1>3. Place(SwitchHome) = CpuPlace(4)
  <2>1. SwitchHome.on = 4 /\ 4 \notin RootBuses
    BY DEF SwitchHome, RootBuses
  <2> QED BY <2>1 DEF Place
<1>4. ASSUME NEW k \in Channels PROVE SwitchMux(k) = ChannelOf(SwitchHome, k)
  <2> DEFINE s == CpuPlace(4)
             e == <<\h71, k>>
  <2>1. s \in Seq(Nat \X Nat)
    <3>1. \A n \in Nat : n >= 1 => CpuPlace(n) \in Seq(Nat \X Nat)
      BY Places, Zenon
    <3>2. 4 \in Nat /\ 4 >= 1
      OBVIOUS
    <3> QED BY <3>1, <3>2
  <2>2. e \in Nat \X Nat
    BY DEF Channels
  <2>3. SwitchHome.addr = \h71
    BY DEF SwitchHome
  <2>4. ChannelOf(SwitchHome, k) = Append(s, e)
    BY <1>3, <2>3 DEF ChannelOf
  <2>5. SwitchMux(k) = s \o <<e>>
    BY <1>2 DEF SwitchMux
  <2> HIDE DEF s, e
  <2>6. Append(s, e) = s \o <<e>>
    BY ONLY <2>1, <2>2, AppendIsConcat, ZenonT(60)
  <2> QED BY <2>4, <2>5, <2>6, Zenon
<1> QED BY <1>1, <1>4

(* They are the ones of the tree that is in place.                         *)
LEMMA QsfpMuxesAre ==
    ASSUME Plugged
    PROVE  QsfpMuxes = {[at |-> Place(x), addr |-> x.addr, first |-> x.first] : x \in QsfpHomes}
<1> DEFINE Q(x) == [at |-> Place(x), addr |-> x.addr, first |-> x.first]
<1>1. CASE platform = "z9264f"
  <2> DEFINE q(k) == [at |-> Root(IF k <= 4 THEN 604 ELSE 603), addr |-> \h74 + ((k - 1) % 4),
                      first |-> 8 * k - 6]
  <2>1. QsfpMuxes = {q(k) : k \in 1 .. 8}
    BY <1>1 DEF QsfpMuxes
  <2>2. QsfpHomes = {FpgaMux(k) : k \in 1 .. 8}
    BY <1>1 DEF QsfpHomes, HomeMuxes
  <2>3. ASSUME NEW k \in 1 .. 8 PROVE Q(FpgaMux(k)) = q(k)
    <3>1. FpgaMux(k).on = (IF k <= 4 THEN 604 ELSE 603) /\ FpgaMux(k).on \in RootBuses
      BY <1>1 DEF FpgaMux, RootBuses
    <3>2. Place(FpgaMux(k)) = Root(IF k <= 4 THEN 604 ELSE 603)
      BY <3>1 DEF Place
    <3> QED BY <3>2 DEF FpgaMux
  <2> HIDE DEF q, Q
  <2>4. {Q(x) : x \in QsfpHomes} = {q(k) : k \in 1 .. 8}
    BY <2>2, <2>3, Zenon
  <2> QED BY <2>1, <2>4 DEF Q
<1>2. CASE platform # "z9264f"
  <2> DEFINE q(n, a) == [at |-> CpuMux(n - 1), addr |-> a, first |-> FirstBus(n) + 8 * (a - \h71)]
             ns == (6 .. 9) \ missing
  <2>1. QsfpMuxes = {q(n, a) : n \in ns, a \in IomAddresses}
    <3>1. ToSet(QsfpMuxAddresses) = IomAddresses
      BY <1>2, Addresses71, Zenon DEF Plugged
    <3> QED BY <1>2, <3>1 DEF QsfpMuxes
  <2>2. ASSUME NEW n \in ns, NEW a \in IomAddresses PROVE Q(IomMux(n, a)) = q(n, a)
    <3>1. n \in 2 .. 9 /\ n \notin RootBuses
      BY <1>2 DEF RootBuses
    <3>2. CpuMux(n - 1) = CpuPlace(n)
      BY <1>2, <3>1, CpuMuxPlaces
    <3>3. IomMux(n, a).on = n /\ IomMux(n, a).addr = a
          /\ IomMux(n, a).first = FirstBus(n) + 8 * (a - \h71)
      BY DEF IomMux
    <3>4. Place(IomMux(n, a)) = CpuMux(n - 1)
      BY <3>1, <3>2, <3>3 DEF Place
    <3> QED BY <3>3, <3>4
  <2>3. \A n \in ns, a \in IomAddresses : IomMux(n, a) \in QsfpHomes
    <3>1. ASSUME NEW n \in ns, NEW a \in IomAddresses
          PROVE  IomMux(n, a) \in HomeMuxes /\ IomMux(n, a) # CpuHome /\ IomMux(n, a) # SwitchHome
      <4>1. IomMux(n, a).on \notin {0, 1, 4} /\ CpuHome.on \in {0, 1} /\ SwitchHome.on = 4
        BY <1>2 DEF IomMux, CpuHome, SwitchHome, Plugged, Supported
      <4>2. IomMux(n, a) \in HomeMuxes
        BY <1>2 DEF HomeMuxes
      <4> QED BY <4>1, <4>2
    <3> QED BY <1>2, <3>1 DEF QsfpHomes
  <2>4. \A x \in QsfpHomes : \E n \in ns, a \in IomAddresses : x = IomMux(n, a)
    BY <1>2 DEF QsfpHomes, HomeMuxes
  <2> HIDE DEF q, Q, ns
  <2>5. \A x \in QsfpHomes : \E n \in ns, a \in IomAddresses : Q(x) = q(n, a)
    BY <2>2, <2>4, Zenon
  <2>6. \A n \in ns, a \in IomAddresses : \E x \in QsfpHomes : Q(x) = q(n, a)
    BY <2>2, <2>3, Zenon
  <2>7. {Q(x) : x \in QsfpHomes} = {q(n, a) : n \in ns, a \in IomAddresses}
    BY <2>5, <2>6
  <2> QED BY <2>1, <2>7 DEF Q
<1> QED BY <1>1, <1>2

(* Their numbers are the ones that the lines of init are about.            *)
LEMMA QsfpNumbers ==
    ASSUME Plugged
    PROVE  /\ \A x \in QsfpHomes : x \in HomeMuxes
           /\ \A x \in QsfpHomes, k \in Channels :
                 x.first + k - 1 \in IF platform = "z9264f" THEN 2 .. 65 ELSE BoardQsfps
           /\ platform # "z9264f" => \A x \in HomeMuxes, n \in BoardQsfps : Owns(x, n) => x \in QsfpHomes
<1>1. \A x \in QsfpHomes : x \in HomeMuxes
  BY DEF QsfpHomes
<1>2. CASE platform = "z9264f"
  <2>1. ASSUME NEW x \in QsfpHomes, NEW k \in Channels PROVE x.first + k - 1 \in 2 .. 65
    <3>1. PICK j \in 1 .. 8 : x = FpgaMux(j)
      BY <1>2 DEF QsfpHomes, HomeMuxes
    <3>2. x.first = 8 * j - 6
      BY <3>1 DEF FpgaMux
    <3> QED BY <3>2 DEF Channels
  <2> QED BY <1>1, <1>2, <2>1
<1>3. CASE platform # "z9264f"
  <2>1. ASSUME NEW x \in QsfpHomes, NEW k \in Channels PROVE x.first + k - 1 \in BoardQsfps
    <3>1. PICK n \in (6 .. 9) \ missing, a \in IomAddresses : x = IomMux(n, a)
      BY <1>3 DEF QsfpHomes, HomeMuxes
    <3>2. PICK w \in {8, 16} :
              /\ w = IF platform = "s6100" THEN 16 ELSE 8
              /\ 8 * (a - \h71) \in {0, w - 8}
              /\ FirstBus(n) \in 18 .. 18 + (9 - n) * w
      BY <1>3, IomNumbers
    <3>3. PICK f \in Int, d \in Int : /\ f = FirstBus(n) /\ d = 8 * (a - \h71)
                                      /\ d \in {0, w - 8} /\ f >= 18 /\ f <= 18 + 3 * w
      <4>1. FirstBus(n) >= 18 /\ FirstBus(n) <= 18 + (9 - n) * w /\ FirstBus(n) \in Int
        BY <3>2
      <4>2. (9 - n) * w <= 3 * w
        BY <3>2
      <4> QED BY <3>2, <4>1, <4>2
    <3>4. x.first = f + d
      BY <3>1, <3>3 DEF IomMux
    <3>5. f + d + k - 1 >= 18 /\ f + d + k - 1 <= 17 + 4 * w /\ f + d + k - 1 \in Int
      BY <3>2, <3>3 DEF Channels
    <3> QED BY <3>2, <3>4, <3>5 DEF BoardQsfps
  <2>2. ASSUME NEW x \in HomeMuxes, NEW n \in BoardQsfps, Owns(x, n) PROVE x \in QsfpHomes
    <3>1. n >= 18
      BY DEF BoardQsfps
    <3>2. CpuHome.first = 2 /\ SwitchHome.first = 10
      BY DEF CpuHome, SwitchHome
    <3>3. x # CpuHome /\ x # SwitchHome
      BY <2>2, <3>1, <3>2 DEF Owns
    <3> QED BY <1>3, <3>3 DEF QsfpHomes
  <2> QED BY <1>1, <1>3, <2>1, <2>2
<1> QED BY <1>2, <1>3

LEMMA BoardInitHas ==
    ASSUME Plugged, platform # "z9264f"
    PROVE  /\ Len(InitLines) \in {10, 17}
           /\ InitLines[3] = EepromLine /\ InitLines[4] = CpldLine
<1>1. Supported
  BY DEF Plugged
<1>2. PICK each \in {1, 2} : /\ Len(InitLines) = (IF each = 2 THEN 17 ELSE 10)
                             /\ InitLines[3] = EepromLine /\ InitLines[4] = CpldLine
  BY <1>1, BoardInitIs, Zenon
<1> QED BY <1>2

(* When the last line of init is done, every mux is there, and its         *)
(* channels have the numbers that are meant for them.                      *)
LEMMA AllChannelled ==
    ASSUME Plugged, Shape, Rightful, Present(Len(InitLines)), NEW x \in HomeMuxes, NEW k \in Channels
    PROVE  x.first + k - 1 \in DOMAIN buses /\ buses[x.first + k - 1] = ChannelOf(x, k)
<1>1. HomeLine(x) \in 1 .. Len(InitLines) /\ Len(InitLines) \in Nat
  <2>1. HomeLine(x) \in 1 .. Len(InitLines)
    BY HomeLines, Zenon
  <2>2. Len(InitLines) \in Nat
    <3>1. CASE platform = "z9264f"
      <4>1. Len(InitLines) = 10
        BY <3>1, FpgaInitIs, Zenon
      <4> QED BY <4>1
    <3>2. CASE platform # "z9264f"
      <4>1. Len(InitLines) \in {10, 17}
        BY <3>2, BoardInitHas, Zenon
      <4> QED BY <4>1
    <3> QED BY <3>1, <3>2
  <2> QED BY <2>1, <2>2
<1>2. HomeLine(x) <= Len(InitLines)
  BY <1>1
<1>3. HasMux(x)
  BY <1>1, <1>2, PresentMux
<1>4. PICK f \in Nat : f = x.first /\ f >= 2 /\ f <= 74
  BY FirstNumber
<1> DEFINE n == x.first + k - 1
<1>5. n \in x.first .. x.first + 7 /\ n - x.first + 1 = k
  BY <1>4 DEF Channels
<1> HIDE DEF n
<1>6. "mux" \in drivers
  BY DEF Present
<1>7. n \in DOMAIN buses /\ buses[n] = ChannelOf(x, n - x.first + 1)
  BY <1>3, <1>5, <1>6, Zenon DEF Rightful, Channelled
<1> QED BY <1>5, <1>7 DEF n

(* The devices of a kind are where the lines of init mean to put it.       *)
LEMMA PutThere ==
    ASSUME Present(Len(InitLines)), NEW i \in 1 .. Len(InitLines), NEW n \in DOMAIN buses,
           n \in InitLines[i].on
    PROVE  buses[n] \in At(InitLines[i].chip)
<1>1. Has(n, InitLines[i].addr, InitLines[i].chip)
  BY DEF Present
<1>2. PICK c \in clients : c = [at |-> buses[n], addr |-> InitLines[i].addr, chip |-> InitLines[i].chip]
  BY <1>1 DEF Has
<1> QED BY <1>2 DEF At

LEMMA MeantThere ==
    ASSUME Intended, NEW chip, NEW p \in At(chip)
    PROVE  \E n \in DOMAIN buses, addr \in {c.addr : c \in clients} : p = buses[n] /\ Meant(n, addr, chip)
<1>1. PICK c \in clients : c.chip = chip /\ p = c.at
  BY DEF At
<1>2. PICK n \in DOMAIN buses : /\ c = [at |-> buses[n], addr |-> c.addr, chip |-> c.chip]
                                /\ Meant(n, c.addr, c.chip)
  BY DEF Intended
<1>3. c.at = buses[n]
  BY <1>2
<1> QED BY <1>1, <1>2, <1>3

LEMMA QsfpsInPlace ==
    ASSUME Plugged, Shape, Rightful, Present(Len(InitLines))
    PROVE  At("sff8436") = QsfpPlaces \cup Boards({SwitchMux(2), SwitchMux(3)})
<1>1. QsfpPlaces = {ChannelOf(x, k) : x \in QsfpHomes, k \in Channels}
  <2>1. \A q \in QsfpMuxes : \E x \in QsfpHomes : q.at = Place(x) /\ q.addr = x.addr
    BY QsfpMuxesAre
  <2>2. ASSUME NEW x \in QsfpHomes
        PROVE  \E q \in QsfpMuxes : q.at = Place(x) /\ q.addr = x.addr
    <3> DEFINE q == [at |-> Place(x), addr |-> x.addr, first |-> x.first]
    <3>1. q \in QsfpMuxes
      BY QsfpMuxesAre, Zenon
    <3>2. q.at = Place(x) /\ q.addr = x.addr
      OBVIOUS
    <3> HIDE DEF q
    <3> QED BY <3>1, <3>2
  <2> DEFINE C == {ChannelOf(x, k) : x \in QsfpHomes, k \in Channels}
  <2>3. ASSUME NEW p \in QsfpPlaces PROVE p \in C
    <3>1. PICK q \in QsfpMuxes, k \in Channels : p = Append(q.at, <<q.addr, k>>)
      BY DEF QsfpPlaces
    <3>2. PICK x \in QsfpHomes : q.at = Place(x) /\ q.addr = x.addr
      BY <2>1
    <3>3. p = ChannelOf(x, k)
      BY <3>1, <3>2 DEF ChannelOf
    <3> QED BY <3>3
  <2>4. ASSUME NEW x \in QsfpHomes, NEW k \in Channels PROVE ChannelOf(x, k) \in QsfpPlaces
    <3>1. PICK q \in QsfpMuxes : q.at = Place(x) /\ q.addr = x.addr
      BY <2>2
    <3>2. ChannelOf(x, k) = Append(q.at, <<q.addr, k>>)
      BY <3>1 DEF ChannelOf
    <3> QED BY <3>2 DEF QsfpPlaces
  <2>5. QsfpPlaces \subseteq C /\ C \subseteq QsfpPlaces
    BY <2>3, <2>4
  <2> QED BY <2>5
<1>2. \A x \in QsfpHomes : x \in HomeMuxes
  BY QsfpNumbers, Zenon
<1>3. (2 .. 81) \cap RootBuses = {}
  BY DEF RootBuses
<1>4. CASE platform = "z9264f"
  <2>1. ASSUME NEW p \in At("sff8436") PROVE p \in QsfpPlaces
    <3>1. PICK n \in DOMAIN buses, addr \in {c.addr : c \in clients} : p = buses[n] /\ Meant(n, addr, "sff8436")
      BY MeantThere DEF Rightful
    <3>2. n \in 2 .. 65
      BY <1>4, <3>1 DEF Meant
    <3>3. n \notin RootBuses
      BY <1>3, <3>2
    <3>4. PICK x \in HomeMuxes : /\ n - x.first + 1 \in Channels
                                 /\ buses[n] = ChannelOf(x, n - x.first + 1)
      BY <3>3, OwnedBus DEF Rightful
    <3>5. x \in QsfpHomes
      BY <1>4 DEF QsfpHomes
    <3> QED BY <1>1, <3>1, <3>4, <3>5
  <2>2. ASSUME NEW x \in QsfpHomes, NEW k \in Channels PROVE ChannelOf(x, k) \in At("sff8436")
    <3>1. x.first + k - 1 \in DOMAIN buses /\ buses[x.first + k - 1] = ChannelOf(x, k)
      BY <1>2, AllChannelled
    <3>2. x.first + k - 1 \in 2 .. 65
      BY <1>4, QsfpNumbers, Zenon
    <3>3. Len(InitLines) = 10 /\ InitLines[10] = Sff(2 .. 65)
      BY <1>4, FpgaInitIs, Zenon
    <3>4. InitLines[10].on = 2 .. 65 /\ InitLines[10].chip = "sff8436"
      BY <3>3 DEF Sff, New
    <3>5. PICK i \in 1 .. Len(InitLines) : InitLines[i].on = 2 .. 65 /\ InitLines[i].chip = "sff8436"
      BY <3>3, <3>4
    <3> QED BY <3>1, <3>2, <3>5, PutThere
  <2>3. Boards({SwitchMux(2), SwitchMux(3)}) = {}
    BY <1>4 DEF Boards
  <2>4. QsfpPlaces \subseteq At("sff8436")
    BY <1>1, <2>2
  <2> QED BY <2>1, <2>3, <2>4
<1>5. CASE platform # "z9264f"
  <2>1. SwitchHome \in HomeMuxes /\ SwitchHome.first = 10
    BY <1>5 DEF HomeMuxes, SwitchHome
  <2>2. SwitchMux(2) = ChannelOf(SwitchHome, 2) /\ SwitchMux(3) = ChannelOf(SwitchHome, 3)
    <3>1. 2 \in Channels /\ 3 \in Channels
      BY DEF Channels
    <3> QED BY <1>5, <3>1, CpuMuxPlaces
  <2>3. ASSUME NEW p \in At("sff8436") PROVE p \in QsfpPlaces \cup {SwitchMux(2), SwitchMux(3)}
    <3>1. PICK n \in DOMAIN buses, addr \in {c.addr : c \in clients} : p = buses[n] /\ Meant(n, addr, "sff8436")
      BY MeantThere DEF Rightful
    <3>2. n \in {11, 12} \cup BoardQsfps /\ n \in 2 .. 81
      BY <1>5, <3>1 DEF Meant, BoardQsfps
    <3>3. n \notin RootBuses
      BY <1>3, <3>2
    <3>4. PICK x \in HomeMuxes : /\ Owns(x, n) /\ n - x.first + 1 \in Channels
                                 /\ buses[n] = ChannelOf(x, n - x.first + 1)
      BY <3>3, OwnedBus DEF Rightful
    <3>5. CASE n \in BoardQsfps
      <4>1. x \in QsfpHomes
        BY <1>5, <3>4, <3>5, QsfpNumbers
      <4> QED BY <1>1, <3>1, <3>4, <4>1
    <3>6. CASE n \in {11, 12}
      <4>1. Owns(SwitchHome, n)
        BY <2>1, <3>6 DEF Owns
      <4>2. x = SwitchHome
        BY <2>1, <3>4, <4>1, OneOwner
      <4>3. n - x.first + 1 \in {2, 3}
        BY <2>1, <3>6, <4>2
      <4> QED BY <2>2, <3>1, <3>4, <4>2, <4>3
    <3> QED BY <3>2, <3>5, <3>6
  <2>4. ASSUME NEW x \in QsfpHomes, NEW k \in Channels PROVE ChannelOf(x, k) \in At("sff8436")
    <3>1. x.first + k - 1 \in DOMAIN buses /\ buses[x.first + k - 1] = ChannelOf(x, k)
      BY <1>2, AllChannelled
    <3>2. x.first + k - 1 \in BoardQsfps
      BY <1>5, QsfpNumbers, Zenon
    <3>3. PICK i \in 1 .. Len(InitLines) : x.first + k - 1 \in InitLines[i].on /\ IsQsfpLine(InitLines[i])
      BY <1>5, <3>2, BoardLineKinds DEF Plugged
    <3>4. InitLines[i].chip = "sff8436"
      BY <3>3 DEF IsQsfpLine
    <3> QED BY <3>1, <3>3, <3>4, PutThere
  <2>5. ASSUME NEW k \in {2, 3} PROVE SwitchMux(k) \in At("sff8436")
    <3>1. k \in Channels /\ SwitchHome.first + k - 1 = 9 + k
      BY <2>1 DEF Channels
    <3>2. 9 + k \in DOMAIN buses /\ buses[9 + k] = ChannelOf(SwitchHome, k)
      BY <2>1, <3>1, AllChannelled
    <3>3. PICK i \in 1 .. Len(InitLines) : InitLines[i] = SfpLine
      BY <1>5, BoardLineKinds DEF Plugged
    <3>4. InitLines[i].on = {11, 12} /\ InitLines[i].chip = "sff8436"
      BY <3>3 DEF SfpLine, Sff, New
    <3>5. 9 + k \in InitLines[i].on
      BY <3>4
    <3>6. ChannelOf(SwitchHome, k) \in At("sff8436")
      BY <3>2, <3>4, <3>5, PutThere
    <3> QED BY <2>2, <3>6
  <2>6. Boards({SwitchMux(2), SwitchMux(3)}) = {SwitchMux(2), SwitchMux(3)}
    BY <1>5 DEF Boards
  <2> QED BY <1>1, <2>3, <2>4, <2>5, <2>6
<1> QED BY <1>4, <1>5

LEMMA CpldsInPlace ==
    ASSUME Plugged, Shape, Rightful, Present(Len(InitLines))
    PROVE  At("cpld") = Boards({SwitchMux(k) : k \in 5 .. 8})
<1>1. CASE platform = "z9264f"
  <2>1. ASSUME NEW p \in At("cpld") PROVE FALSE
    <3>1. PICK n \in DOMAIN buses, addr \in {c.addr : c \in clients} : p = buses[n] /\ Meant(n, addr, "cpld")
      BY MeantThere DEF Rightful
    <3> QED BY <1>1, <3>1 DEF Meant
  <2> QED BY <1>1, <2>1 DEF Boards
<1>2. CASE platform # "z9264f"
  <2>1. SwitchHome \in HomeMuxes /\ SwitchHome.first = 10
    BY <1>2 DEF HomeMuxes, SwitchHome
  <2>2. ASSUME NEW k \in 5 .. 8
        PROVE  9 + k \in DOMAIN buses /\ buses[9 + k] = SwitchMux(k)
    <3>1. k \in Channels /\ SwitchHome.first + k - 1 = 9 + k
      BY <2>1 DEF Channels
    <3>2. 9 + k \in DOMAIN buses /\ buses[9 + k] = ChannelOf(SwitchHome, k)
      BY <2>1, <3>1, AllChannelled
    <3>3. SwitchMux(k) = ChannelOf(SwitchHome, k)
      BY <1>2, <3>1, CpuMuxPlaces
    <3> QED BY <3>2, <3>3
  <2>3. ASSUME NEW p \in At("cpld") PROVE \E k \in 5 .. 8 : p = SwitchMux(k)
    <3>1. PICK n \in DOMAIN buses, addr \in {c.addr : c \in clients} : p = buses[n] /\ Meant(n, addr, "cpld")
      BY MeantThere DEF Rightful
    <3>2. n \in 14 .. 17
      BY <1>2, <3>1 DEF Meant
    <3>3. PICK k \in 5 .. 8 : n = 9 + k
      BY <3>2
    <3> QED BY <2>2, <3>1, <3>3
  <2>4. ASSUME NEW k \in 5 .. 8 PROVE SwitchMux(k) \in At("cpld")
    <3>1. PICK i \in 1 .. Len(InitLines) : InitLines[i] = CpldLine
      <4>1. InitLines[4] = CpldLine /\ 4 \in 1 .. Len(InitLines)
        BY <1>2, BoardInitHas
      <4> QED BY <4>1
    <3>2. InitLines[i].on = 14 .. 17 /\ InitLines[i].chip = "cpld"
      BY <3>1 DEF CpldLine, New
    <3>3. 9 + k \in InitLines[i].on
      BY <3>2
    <3> QED BY <2>2, <3>2, <3>3, PutThere
  <2>5. Boards({SwitchMux(k) : k \in 5 .. 8}) = {SwitchMux(k) : k \in 5 .. 8}
    BY <1>2 DEF Boards
  <2> QED BY <2>3, <2>4, <2>5
<1> QED BY <1>1, <1>2

LEMMA EepromInPlace ==
    ASSUME Plugged, Shape, Rightful, Present(Len(InitLines))
    PROVE  At("24c02") = {IF platform = "z9264f" THEN Root(0) ELSE CpuMux(1)}
<1> DEFINE b == IF platform = "z9264f" THEN 0 ELSE 2
           place == IF platform = "z9264f" THEN Root(0) ELSE CpuMux(1)
<1>1. b \in DOMAIN buses /\ buses[b] = place
  <2>1. CASE platform = "z9264f"
    <3>1. 0 \in RootBuses
      BY <2>1 DEF RootBuses
    <3> QED BY <2>1, <3>1 DEF Shape
  <2>2. CASE platform # "z9264f"
    <3>1. CpuHome \in HomeMuxes /\ CpuHome.first = 2 /\ 1 \in Channels /\ CpuHome.first + 1 - 1 = 2
      BY <2>2 DEF HomeMuxes, CpuHome, Channels
    <3>2. 2 \in DOMAIN buses
      BY <3>1, AllChannelled
    <3>3. 2 \in (2 .. 9) \cap DOMAIN buses /\ 2 \in 2 .. 9 /\ 2 - 1 = 1
      BY <3>2
    <3>4. buses[2] = CpuPlace(2)
      BY <2>2, <3>3, CpuChannel DEF Rightful
    <3>5. CpuMux(1) = CpuPlace(2)
      BY <2>2, <3>3, CpuMuxPlaces
    <3> QED BY <2>2, <3>2, <3>4, <3>5
  <2> QED BY <2>1, <2>2
<1>2. ASSUME NEW p \in At("24c02") PROVE p = place
  <2>1. PICK n \in DOMAIN buses, addr \in {c.addr : c \in clients} : p = buses[n] /\ Meant(n, addr, "24c02")
    BY MeantThere DEF Rightful
  <2>2. n = b
    BY <2>1 DEF Meant
  <2> QED BY <1>1, <2>1, <2>2
<1>3. PICK i \in 1 .. Len(InitLines) : b \in InitLines[i].on /\ InitLines[i].chip = "24c02"
  <2>1. CASE platform = "z9264f"
    <3>1. InitLines[1] = FpgaEepromLine /\ Len(InitLines) = 10
      BY <2>1, FpgaInitIs, Zenon
    <3>2. InitLines[1].on = {0} /\ InitLines[1].chip = "24c02"
      BY <3>1 DEF FpgaEepromLine, New
    <3>3. 1 \in 1 .. Len(InitLines) /\ b \in {0}
      BY <2>1, <3>1
    <3> QED BY <3>2, <3>3
  <2>2. CASE platform # "z9264f"
    <3>1. InitLines[3] = EepromLine /\ 3 \in 1 .. Len(InitLines)
      BY <2>2, BoardInitHas
    <3>2. InitLines[3].on = {2} /\ InitLines[3].chip = "24c02"
      BY <3>1 DEF EepromLine, New
    <3>3. b \in {2}
      BY <2>2
    <3> QED BY <3>1, <3>2, <3>3
  <2> QED BY <2>1, <2>2
<1> HIDE DEF b, place
<1>4. place \in At("24c02")
  BY <1>1, <1>3, PutThere
<1>5. At("24c02") = {place}
  BY <1>2, <1>4
<1> QED BY <1>5 DEF place

LEMMA AllInPlace ==
    ASSUME Plugged, Shape, Rightful, Present(Len(InitLines))
    PROVE  InPlace
<1>1. ASSUME NEW q \in QsfpMuxes, NEW k \in Channels
      PROVE  /\ q.first + k - 1 \in DOMAIN buses
             /\ buses[q.first + k - 1] = Append(q.at, <<q.addr, k>>)
  <2>1. PICK x \in QsfpHomes : q = [at |-> Place(x), addr |-> x.addr, first |-> x.first]
    BY QsfpMuxesAre
  <2>2. x \in HomeMuxes
    BY QsfpNumbers, Zenon
  <2>3. x.first + k - 1 \in DOMAIN buses /\ buses[x.first + k - 1] = ChannelOf(x, k)
    BY <2>2, AllChannelled
  <2> QED BY <2>1, <2>3 DEF ChannelOf
<1> QED BY <1>1, QsfpsInPlace, CpldsInPlace, EepromInPlace DEF InPlace

(* The invariant: while an init that meets no fault runs, from the tree of *)
(* boot, that of deinit or that of an earlier init, every bus and device   *)
(* is in its place, and the lines so far have left out none.               *)
Building ==
    /\ script = "init" /\ ~ spoiled /\ last \in {"down", "up"} => Rightful /\ Present(line - 1)
    /\ script = "none" /\ last = "up" => Rightful /\ Present(Len(InitLines))

LEMMA SameRightful ==
    ASSUME Rightful, UNCHANGED <<machine, buses, clients>>, "mux" \in drivers <=> "mux" \in drivers'
    PROVE  /\ Rightful'
           /\ \A k : Present(k) => Present(k)'
<1>1. UNCHANGED machine /\ buses' = buses /\ clients' = clients
  OBVIOUS
<1>2. /\ HomeMuxes' = HomeMuxes /\ RootBuses' = RootBuses /\ InitLines' = InitLines
      /\ \A x, k : ChannelOf(x, k)' = ChannelOf(x, k)
      /\ \A n, a, c : Meant(n, a, c)' <=> Meant(n, a, c)
  BY <1>1, SameHome
<1>3. \A n, a, c : Has(n, a, c)' <=> Has(n, a, c)
  BY <1>1 DEF Has
<1>4. Channelled'
  BY <1>1, <1>2, <1>3 DEF Rightful, Channelled, HasMux
<1>5. Owned'
  BY <1>1, <1>2, <1>3 DEF Rightful, Owned, HasMux, Owns
<1>6. Intended'
  BY <1>1, <1>2 DEF Rightful, Intended
<1>7. ASSUME NEW k, Present(k) PROVE Present(k)'
  <2>1. ASSUME NEW i \in 1 .. k, NEW n \in InitLines[i].on, n \in DOMAIN buses
        PROVE  Has(n, InitLines[i].addr, InitLines[i].chip)'
    <3>1. PICK a, c : a = InitLines[i].addr /\ c = InitLines[i].chip
      OBVIOUS
    <3>2. Has(n, a, c)
      BY <1>7, <2>1, <3>1 DEF Present
    <3>3. Has(n, a, c)'
      BY <1>3, <3>2
    <3> QED BY <1>2, <3>1, <3>3 DEF Has
  <2> QED BY <1>1, <1>2, <1>7, <2>1 DEF Present
<1> QED BY <1>4, <1>5, <1>6, <1>7 DEF Rightful

(* The first step of init, on a machine that was taken down or never set up. *)
LEMMA StartRightful ==
    ASSUME Shape, DeinitRestores, StartInit, last = "down"
    PROVE  Rightful' /\ "mux" \in drivers'
<1>1. clients = {} /\ buses = [n \in RootBuses |-> Root(n)] /\ clients' = clients /\ UNCHANGED machine
  BY DEF DeinitRestores, StartInit
<1>2. buses' = buses
  <2>1. CASE ProbeMuxes(clients)
    <3>1. \A c \in clients : ~ (c.chip = "mux" /\ Answers(c.at))
      BY <1>1
    <3> QED BY <2>1, <3>1, ProbeNone
  <2>2. CASE UNCHANGED buses
    BY <2>2
  <2> QED BY <2>1, <2>2 DEF StartInit
<1>3. RootBuses' = RootBuses
  BY <1>1, SameHome
<1>4. clients' = {} /\ DOMAIN buses' = RootBuses'
  BY <1>1, <1>2, <1>3
<1>5. "mux" \in drivers'
  BY DEF StartInit
<1>6. Channelled' /\ Intended'
  BY <1>4 DEF Channelled, Intended, HasMux, Has
<1>7. Owned'
  BY <1>4 DEF Owned
<1> QED BY <1>5, <1>6, <1>7 DEF Rightful

(* A line of an init that meets no fault.                                  *)
LEMMA InitLineRightful ==
    ASSUME TypeOK, Plugged, Shape, MaxBus >= 81, script = "init", Rightful, Present(line - 1),
           Execute
    PROVE  \E k : k = line' - 1 /\ Rightful' /\ Present(k)'
<1>1. Running /\ Do(Current) /\ line' = line + 1 /\ UNCHANGED machine
  BY DEF Execute
<1>2. Lines = InitLines /\ line <= Len(InitLines) /\ line \in 1 .. 20
  BY <1>1 DEF Lines, Running, TypeOK
<1>3. PICK i \in 1 .. Len(InitLines) : i = line
  <2>1. Len(InitLines) \in Nat
    <3>1. InitLines \in Seq(Adding)
      BY InitLinesFit DEF Plugged
    <3> QED BY <3>1, LenProperties
  <2> QED BY <1>2, <2>1
<1>4. Do(InitLines[i])
  BY <1>1, <1>2, <1>3 DEF Current
<1>5. InitLines[i].op = "new"
  BY LineIsMeant DEF Lawful
<1>6. Add(InitLines[i]) /\ UNCHANGED drivers
  BY <1>4, <1>5 DEF Do, Take, Drop
<1>7. Present(i - 1)
  BY <1>3
<1>8. Rightful' /\ Present(i)'
  BY <1>1, <1>6, <1>7, AddRightful
<1>9. i = line' - 1
  BY <1>1, <1>2, <1>3
<1> QED BY <1>8, <1>9

(* After the last line all that init puts there is there.                  *)
LEMMA InitEndRightful ==
    ASSUME TypeOK, Plugged, Rightful, Present(line - 1), FinishInit
    PROVE  \E k : k = Len(InitLines') /\ Rightful' /\ Present(k)'
<1>1. /\ script = "init" /\ line > Len(Lines) /\ UNCHANGED machine
      /\ buses' = buses /\ clients' = clients /\ drivers' = drivers
  BY DEF FinishInit, tree
<1>2. Lines = InitLines /\ line > Len(InitLines) /\ line \in 1 .. 20
  BY <1>1 DEF Lines, TypeOK
<1>3. PICK k \in Nat : k = Len(InitLines)
  <2>1. InitLines \in Seq(Adding)
    BY InitLinesFit DEF Plugged
  <2> QED BY <2>1, LenProperties
<1>4. \A i \in 1 .. k : i \in 1 .. line - 1
  BY <1>2, <1>3
<1>5. Present(k)
  BY <1>4 DEF Present
<1>6. Rightful' /\ Present(k)'
  BY <1>1, <1>5, SameRightful
<1>7. InitLines' = InitLines
  BY <1>1, SameHome
<1> QED BY <1>3, <1>6, <1>7

LEMMA BuildingStep ==
    ASSUME TypeOK, Shape, DeinitRestores, Building, MaxBus >= 81, [Next]_vars
    PROVE  Building'
<1>1. Plugged
  BY SupportedMachine DEF TypeOK, Plugged
<1>2. ASSUME script' = "init", ~ spoiled', last' \in {"down", "up"}
      PROVE  \E k : k = line' - 1 /\ Rightful' /\ Present(k)'
  <2>1. CASE StartInit
    <3>1. line' = 1 /\ script = "none" /\ last \in {"down", "up"} /\ last' = last
      BY <1>2, <2>1 DEF StartInit
    <3>2. Rightful' /\ "mux" \in drivers'
      <4>1. CASE last = "down"
        BY <2>1, <4>1, StartRightful
      <4>2. CASE last = "up"
        <5>1. Rightful /\ "mux" \in drivers
          BY <3>1, <4>2 DEF Building, Present
        <5>2. UNCHANGED <<machine, buses, clients>> /\ "mux" \in drivers'
          BY <2>1, <5>1 DEF StartInit
        <5> QED BY <5>1, <5>2, SameRightful
      <4> QED BY <3>1, <4>1, <4>2
    <3>3. Present(0)'
      BY <3>2 DEF Present
    <3> QED BY <3>1, <3>2, <3>3
  <2>2. CASE Execute
    <3>1. /\ script = "init" /\ ~ spoiled /\ last \in {"down", "up"}
          /\ Running /\ Do(Current) /\ line' = line + 1 /\ UNCHANGED machine
      BY <1>2, <2>2 DEF Execute
    <3>2. Rightful /\ Present(line - 1)
      BY <3>1 DEF Building
    <3> QED BY <1>1, <2>2, <3>1, <3>2, InitLineRightful
  <2>3. CASE UNCHANGED vars
    <3>1. /\ script = "init" /\ ~ spoiled /\ last \in {"down", "up"} /\ line' = line
          /\ UNCHANGED <<machine, buses, clients>> /\ drivers' = drivers
      BY <1>2, <2>3 DEF vars, tree, run
    <3>2. PICK k : k = line - 1
      OBVIOUS
    <3>3. Rightful /\ Present(k) /\ "mux" \in drivers
      BY <3>1, <3>2 DEF Building, Present
    <3>4. Rightful' /\ Present(k)'
      BY <3>1, <3>3, SameRightful
    <3> QED BY <3>1, <3>2, <3>4
  <2> QED BY <1>2, <2>1, <2>2, <2>3
          DEF Next, StartDeinit, Fault, Kill, FinishInit, FinishDeinit
<1>3. ASSUME script' = "none", last' = "up"
      PROVE  \E k : k = Len(InitLines') /\ Rightful' /\ Present(k)'
  <2>1. CASE FinishInit
    <3>1. /\ script = "init" /\ ~ spoiled /\ last \in {"down", "up"} /\ line > Len(Lines)
          /\ UNCHANGED machine /\ buses' = buses /\ clients' = clients /\ drivers' = drivers
      BY <1>3, <2>1 DEF FinishInit, tree, TypeOK
    <3>2. Rightful /\ Present(line - 1) /\ "mux" \in drivers
      BY <3>1 DEF Building, Present
    <3> QED BY <1>1, <2>1, <3>2, InitEndRightful
  <2>2. CASE UNCHANGED vars
    <3>1. /\ script = "none" /\ last = "up" /\ UNCHANGED machine
          /\ buses' = buses /\ clients' = clients /\ drivers' = drivers
      BY <1>3, <2>2 DEF vars, tree, run
    <3>2. PICK k : k = Len(InitLines)
      OBVIOUS
    <3>3. Rightful /\ Present(k) /\ "mux" \in drivers
      BY <3>1, <3>2 DEF Building, Present
    <3>4. Rightful' /\ Present(k)'
      BY <3>1, <3>3, SameRightful
    <3>5. InitLines' = InitLines
      BY <3>1, SameHome
    <3> QED BY <3>2, <3>4, <3>5
  <2>3. ~ (Execute \/ Fault)
    BY <1>3 DEF Execute, Fault, Running
  <2> QED BY <1>3, <2>1, <2>2, <2>3
          DEF Next, StartInit, StartDeinit, Kill, FinishDeinit, Running
<1> QED BY <1>2, <1>3 DEF Building, Present

(* However many commands failed and scripts were killed before, an init   *)
(* that meets no fault puts every bus and every device in its place, after *)
(* boot, after a deinit that met none and on top of an init: the numbers   *)
(* that the scripts name are the ones the kernel gives.  MaxBus is that of *)
(* a machine whose I/O modules are all there, or more.                     *)
THEOREM InitPlaces == MaxBus >= 81 => (Spec => [](script = "none" /\ last = "up" => InPlace))
<1> SUFFICES ASSUME MaxBus >= 81
             PROVE  Spec => [](script = "none" /\ last = "up" => InPlace)
  OBVIOUS
<1>1. Init => TypeOK /\ Shape /\ TakenDown /\ DeinitRestores /\ Building
  <2>1. Init => TakenDown /\ DeinitRestores /\ Building
    BY DEF Init, TakenDown, DeinitRestores, Building
  <2> QED BY <2>1, InitialTree
<1>2. TypeOK /\ Shape /\ TakenDown /\ DeinitRestores /\ Building /\ [Next]_vars
         => (TypeOK /\ Shape /\ TakenDown /\ DeinitRestores /\ Building)'
  BY ShapeStep, TypeStep, TakenDownStep, RestoresStep, BuildingStep
<1>3. TypeOK /\ Shape /\ Building => (script = "none" /\ last = "up" => InPlace)
  <2>1. TypeOK => Plugged
    BY SupportedMachine DEF TypeOK, Plugged
  <2> QED BY <2>1, AllInPlace DEF Building
<1> QED BY <1>1, <1>2, <1>3, PTL DEF Spec

-----------------------------------------------------------------------------
(* A deinit that meets faults *)

(* What a deletion at place p takes of the channels of a mux: all of them  *)
(* if it is the mux itself, or takes the bus that the mux is on.           *)
LEMMA BelowChannel ==
    ASSUME NEW s \in Seq(Nat \X Nat), NEW p \in Seq(Nat \X Nat), Len(p) > 0,
           NEW b \in Nat, NEW k \in Nat, NEW a
    PROVE  Below(Append(s, <<b, k>>), p, a) <=> Below(s, p, a) \/ (p = s /\ a = b)
<1> DEFINE e == <<b, k>>
           q == Append(s, e)
<1>1. PICK S : S = Nat \X Nat
  OBVIOUS
<1>2. s \in Seq(S) /\ p \in Seq(S) /\ e \in S
  BY <1>1
<1>3. e[1] = b
  OBVIOUS
<1> HIDE DEF e
<1>4. /\ SubSeq(q, 1, Len(s)) = s
      /\ Len(q) = Len(s) + 1 /\ q[Len(s) + 1] = e /\ Len(s) \in Nat
  BY <1>2, LastOf, Zenon
<1>5. Len(p) \in Nat
  BY <1>2, LenProperties
<1>6. ASSUME Len(p) > Len(s)
      PROVE  Below(q, p, a) <=> Below(s, p, a) \/ (p = s /\ a = b)
  <2>1. ~ Len(q) > Len(p) /\ ~ Len(s) > Len(p)
    BY <1>4, <1>5, <1>6
  <2>2. p # s
    BY <1>4, <1>6
  <2> QED BY <2>1, <2>2 DEF Below
<1>7. ASSUME Len(p) = Len(s)
      PROVE  Below(q, p, a) <=> Below(s, p, a) \/ (p = s /\ a = b)
  <2>1. Len(q) > Len(p) /\ ~ Len(s) > Len(p)
    BY <1>4, <1>5, <1>7
  <2>2. SubSeq(q, 1, Len(p)) = s /\ q[Len(p) + 1] = e
    BY <1>4, <1>7
  <2> HIDE DEF q
  <2> QED BY <1>3, <2>1, <2>2 DEF Below
<1>8. ASSUME Len(p) < Len(s)
      PROVE  Below(q, p, a) <=> Below(s, p, a) \/ (p = s /\ a = b)
  <2>1. Len(q) > Len(p) /\ Len(s) > Len(p) /\ p # s
    BY <1>4, <1>5, <1>8
  <2>2. SubSeq(q, 1, Len(p)) = SubSeq(s, 1, Len(p))
    <3>1. Len(p) \in 1 .. Len(s) /\ 1 \in 1 .. Len(s)
      BY <1>4, <1>5, <1>8
    <3>2. q = s \o << e >>
      BY <1>2, AppendIsConcat, Zenon
    <3>3. << e >> \in Seq(S)
      BY <1>2
    <3>4. SubSeq(s \o << e >>, 1, Len(p)) = SubSeq(s, 1, Len(p))
      BY <1>2, <3>1, <3>3, SubSeqOfConcat1, Zenon
    <3> QED BY <3>2, <3>4, Zenon
  <2>3. q[Len(p) + 1] = s[Len(p) + 1]
    <3>1. Len(p) + 1 \in 1 .. Len(s)
      BY <1>4, <1>5, <1>8
    <3> QED BY <1>2, <3>1, AppendProperties
  <2> HIDE DEF q
  <2> QED BY <2>1, <2>2, <2>3 DEF Below
<1> QED BY <1>4, <1>5, <1>6, <1>7, <1>8 DEF e

(* What a deletion leaves is in its place.                                 *)
LEMMA TakeRightful ==
    ASSUME Plugged, Shape, Rightful, UNCHANGED machine, UNCHANGED drivers, NEW l, Take(l)
    PROVE  /\ Rightful'
           /\ clients' \subseteq clients /\ DOMAIN buses' \subseteq DOMAIN buses
           /\ \A n \in DOMAIN buses' : buses'[n] = buses[n]
           /\ \A c \in clients' : ~ (c.addr = l.addr /\ c.at \in Targets(l))
<1>1. PICK at : /\ at = Targets(l)
                /\ buses' = [n \in {n \in DOMAIN buses :
                                    \A p \in at : ~ Below(buses[n], p, l.addr)} |-> buses[n]]
                /\ clients' = {c \in clients : ~ (c.addr = l.addr /\ c.at \in at)
                                              /\ HangsOn(c, buses')}
  BY DEF Take
<1>2. /\ DOMAIN buses' = {n \in DOMAIN buses : \A p \in at : ~ Below(buses[n], p, l.addr)}
      /\ \A n \in DOMAIN buses' : buses'[n] = buses[n]
  BY <1>1
<1>3. clients' \subseteq clients /\ DOMAIN buses' \subseteq DOMAIN buses
  BY <1>1, <1>2
<1>4. \A c \in clients' : ~ (c.addr = l.addr /\ c.at \in at)
  BY <1>1
<1>5. \A p \in at : p \in Seq(Nat \X Nat) /\ Len(p) > 0
  <2>1. ASSUME NEW p \in at PROVE p \in Seq(Nat \X Nat) /\ Len(p) > 0
    <3>1. PICK n \in DOMAIN buses : p = buses[n]
      BY <1>1 DEF Targets, PathExists
    <3> QED BY <3>1 DEF Shape
  <2> QED BY <2>1
<1>6. ASSUME NEW x \in HomeMuxes, x.on \in DOMAIN buses, NEW k \in Nat, NEW p \in at
      PROVE  /\ buses[x.on] = Place(x)
             /\ Below(ChannelOf(x, k), p, l.addr)
                  <=> Below(Place(x), p, l.addr) \/ (p = Place(x) /\ l.addr = x.addr)
  <2>1. Place(x) \in Seq(Nat \X Nat)
    BY HomePlaces
  <2>2. x.addr \in Nat
    BY HomeNumbers
  <2>3. buses[x.on] = Place(x)
    BY <1>6, OnPlace DEF Rightful
  <2>4. p \in Seq(Nat \X Nat) /\ Len(p) > 0
    BY <1>5
  <2> QED BY <2>1, <2>2, <2>3, <2>4, BelowChannel, Zenon DEF ChannelOf
<1>7. HomeMuxes' = HomeMuxes /\ RootBuses' = RootBuses /\ \A x, k : ChannelOf(x, k)' = ChannelOf(x, k)
  BY SameHome
<1>8. ASSUME NEW x \in HomeMuxes, Has(x.on, x.addr, "mux")', "mux" \in drivers,
             NEW n \in x.first .. x.first + 7
      PROVE  n \in DOMAIN buses' /\ buses'[n] = ChannelOf(x, n - x.first + 1)
  <2>1. /\ x.on \in DOMAIN buses' /\ x.on \in DOMAIN buses /\ buses'[x.on] = buses[x.on]
        /\ [at |-> buses[x.on], addr |-> x.addr, chip |-> "mux"] \in clients'
    BY <1>2, <1>3, <1>8 DEF Has
  <2>2. HasMux(x)
    BY <1>3, <2>1 DEF HasMux, Has
  <2>3. n \in DOMAIN buses /\ buses[n] = ChannelOf(x, n - x.first + 1)
    BY <1>8, <2>2, Zenon DEF Rightful, Channelled
  <2>4. PICK k \in Nat : k = n - x.first + 1
    <3>1. PICK f \in Nat : f = x.first /\ f >= 2 /\ f <= 74
      BY FirstNumber
    <3> QED BY <3>1
  <2>5. ASSUME NEW p \in at, Below(buses[n], p, l.addr) PROVE FALSE
    <3>1. Below(Place(x), p, l.addr) \/ (p = Place(x) /\ l.addr = x.addr)
      BY <1>6, <2>1, <2>3, <2>4, <2>5
    <3>2. buses[x.on] = Place(x)
      BY <1>6, <2>1
    <3>3. CASE Below(Place(x), p, l.addr)
      BY <1>2, <2>1, <3>2, <3>3
    <3>4. CASE p = Place(x) /\ l.addr = x.addr
      BY <1>4, <2>1, <3>2, <3>4
    <3> QED BY <3>1, <3>3, <3>4
  <2> QED BY <1>2, <2>3, <2>5
<1>9. Channelled'
  BY <1>7, <1>8 DEF Channelled, HasMux
<1>10. ASSUME NEW n \in DOMAIN buses' \ RootBuses
       PROVE  "mux" \in drivers /\ \E x \in HomeMuxes : Owns(x, n) /\ Has(x.on, x.addr, "mux")'
  <2>1. n \in DOMAIN buses /\ n \notin RootBuses
    BY <1>3
  <2>2. "mux" \in drivers
    BY <2>1 DEF Rightful, Owned
  <2>3. PICK x \in HomeMuxes : /\ Owns(x, n) /\ HasMux(x) /\ n - x.first + 1 \in Channels
                               /\ buses[n] = ChannelOf(x, n - x.first + 1)
    BY <2>1, OwnedBus DEF Rightful
  <2>4. PICK k \in Nat : k = n - x.first + 1
    BY <2>3 DEF Channels
  <2>5. x.on \in DOMAIN buses
    BY <2>3 DEF HasMux, Has
  <2>6. \A p \in at : ~ Below(Place(x), p, l.addr) /\ ~ (p = Place(x) /\ l.addr = x.addr)
    <3>1. ASSUME NEW p \in at
          PROVE  ~ Below(Place(x), p, l.addr) /\ ~ (p = Place(x) /\ l.addr = x.addr)
      <4>1. ~ Below(buses[n], p, l.addr)
        BY <1>2
      <4> QED BY <1>6, <2>3, <2>4, <2>5, <4>1
    <3> QED BY <3>1
  <2>7. buses[x.on] = Place(x) \/ at = {}
    BY <1>6, <2>5
  <2>8. x.on \in DOMAIN buses' /\ buses'[x.on] = buses[x.on]
    BY <1>2, <2>5, <2>6, <2>7
  <2>9. PICK c \in clients : c = [at |-> buses[x.on], addr |-> x.addr, chip |-> "mux"]
    BY <2>3 DEF HasMux, Has
  <2>10. HangsOn(c, buses')
    BY <2>8, <2>9 DEF HangsOn
  <2>11. ~ (c.addr = l.addr /\ c.at \in at)
    BY <2>6, <2>7, <2>9
  <2>12. c \in clients'
    BY <1>1, <2>10, <2>11
  <2>13. Has(x.on, x.addr, "mux")'
    BY <2>8, <2>9, <2>12 DEF Has
  <2> QED BY <2>2, <2>3, <2>13
<1>11. Owned'
  BY <1>7, <1>10 DEF Owned, HasMux, Owns
<1>12. ASSUME NEW c \in clients'
       PROVE  \E n \in DOMAIN buses' :
                 c = [at |-> buses'[n], addr |-> c.addr, chip |-> c.chip] /\ Meant(n, c.addr, c.chip)
  <2>1. PICK n \in DOMAIN buses' : buses'[n] = c.at
    BY <1>1 DEF HangsOn
  <2>2. PICK m \in DOMAIN buses : /\ c = [at |-> buses[m], addr |-> c.addr, chip |-> c.chip]
                                  /\ Meant(m, c.addr, c.chip)
    BY <1>3 DEF Rightful, Intended
  <2>3. c.at = buses[m]
    BY <2>2
  <2>4. n \in DOMAIN buses /\ buses[n] = buses[m]
    BY <1>2, <1>3, <2>1, <2>3
  <2>5. n = m
    BY <2>4, OneNumber DEF Rightful
  <2> QED BY <1>2, <2>2, <2>5
<1>13. Intended'
  <2>1. \A n, a, c : Meant(n, a, c)' <=> Meant(n, a, c)
    BY SameHome
  <2> QED BY <1>12, <2>1 DEF Intended
<1> QED BY <1>1, <1>2, <1>3, <1>4, <1>9, <1>11, <1>13 DEF Rightful

(* What the lines of a deinit before the one for the CPU board's mux take  *)
(* off the channels of that mux: on these buses it names all there is.     *)
OnChannels == BoardMuxes \cup {<<2, \h50>>}

(* Nothing is left at address x[2] of bus x[1].                            *)
Cleared(x) ==
    \A c \in clients : ~ (c.addr = x[2] /\ x[1] \in DOMAIN buses /\ c.at = buses[x[1]])

CpuOnly == clients \subseteq {[at |-> Root(devnum), addr |-> \h70, chip |-> "mux"]}

(* The tree that a deinit leaves if it meets few faults: no more than the  *)
(* CPU board's mux and its channels.                                        *)
Bare == Rightful /\ CpuOnly

(* The line that deletes the CPU board's mux; two are left after it.       *)
CpuLine == Len(DeinitLines) - 2

LEMMA DeinitDeletesChannels ==
    ASSUME Supported, platform # "z9264f", NEW x \in OnChannels
    PROVE  \E i \in 1 .. CpuLine - 1 : DeletesMux(DeinitLines[i], x)
<1>1. \E i \in 3 .. Len(DeinitLines) - 3 : DeletesMux(DeinitLines[i], x)
  <2>1. CASE x \in BoardMuxes
    BY <2>1, DeinitDeletesBoard
  <2>2. CASE x = <<2, \h50>>
    <3>1. DeinitLines = BoardDeinit
      BY DEF DeinitLines
    <3>2. PICK i \in 3 .. Len(BoardDeinit) - 3 : BoardDeinit[i] = Delete(EepromLine)
      BY BoardDeinitLines
    <3>3. DeletesMux(Delete(EepromLine), x)
      BY <2>2 DEF DeletesMux, Delete, EepromLine, New
    <3> QED BY <3>1, <3>2, <3>3
  <2> QED BY <2>1, <2>2 DEF OnChannels
<1>2. Len(DeinitLines) \in 5 .. 19
  BY DeinitLinesRemove
<1> QED BY <1>1, <1>2 DEF CpuLine

(* Without them only the CPU board's mux is left.                          *)
LEMMA OnlyCpuMux ==
    ASSUME Plugged, platform # "z9264f", Shape, Rightful, \A x \in OnChannels : Cleared(x)
    PROVE  CpuOnly
<1>1. RootBuses = {0, 1} /\ devnum \in RootBuses /\ RootMuxes = {<<devnum, \h70>>}
  BY BoardFields DEF RootMuxes
<1>2. ASSUME NEW n \in DOMAIN buses, NEW a, NEW chip, <<n, a>> \in OnChannels,
             [at |-> buses[n], addr |-> a, chip |-> chip] \in clients
      PROVE  FALSE
  <2>1. PICK x : x = <<n, a>>
    OBVIOUS
  <2>2. Cleared(x) /\ x[1] = n /\ x[2] = a
    BY <1>2, <2>1
  <2> QED BY <1>2, <2>2 DEF Cleared
<1>3. CpuHome \in HomeMuxes /\ CpuHome.on = devnum /\ CpuHome.addr = \h70 /\ CpuHome.first = 2
  BY DEF HomeMuxes, CpuHome
<1>4. ASSUME NEW n \in DOMAIN buses, n \notin RootBuses PROVE n \in 2 .. 9
  <2>1. PICK x \in HomeMuxes : Owns(x, n) /\ HasMux(x)
    BY <1>4, OwnedBus DEF Rightful
  <2>2. Meant(x.on, x.addr, "mux")
    BY HomeNumbers
  <2>3. <<x.on, x.addr>> \in RootMuxes \cup BoardMuxes
    BY <2>2 DEF Meant
  <2>4. <<x.on, x.addr>> \notin BoardMuxes
    BY <1>2, <2>1 DEF HasMux, Has, OnChannels
  <2>5. x.on = devnum /\ x.addr = \h70
    BY <1>1, <2>3, <2>4
  <2>6. x = CpuHome
    BY <1>3, <2>5, HomeNumbers
  <2> QED BY <1>3, <2>1, <2>6 DEF Owns
<1>5. ASSUME NEW c \in clients
      PROVE  c = [at |-> Root(devnum), addr |-> \h70, chip |-> "mux"]
  <2>1. PICK n \in DOMAIN buses : /\ c = [at |-> buses[n], addr |-> c.addr, chip |-> c.chip]
                                  /\ Meant(n, c.addr, c.chip)
    BY DEF Rightful, Intended
  <2>2. n \in {0, 1} \/ n \in 2 .. 9
    BY <1>1, <1>4
  <2>3. <<n, c.addr>> \notin OnChannels
    BY <1>2, <2>1
  <2>4. CASE c.chip = "mux"
    <3>1. <<n, c.addr>> \in RootMuxes \cup BoardMuxes
      BY <2>1, <2>4 DEF Meant
    <3>2. n = devnum /\ c.addr = \h70
      BY <1>1, <2>3, <3>1 DEF OnChannels
    <3>3. buses[n] = Root(devnum)
      BY <1>1, <3>2 DEF Shape
    <3> QED BY <2>1, <2>4, <3>2, <3>3
  <2>5. CASE c.chip # "mux"
    <3>1. <<n, c.addr>> # <<2, \h50>>
      BY <2>3 DEF OnChannels
    <3>2. n \in 14 .. 17 \/ n \in {11, 12} \/ n \in BoardQsfps
      BY <2>1, <2>5, <3>1 DEF Meant
    <3>3. n \notin BoardQsfps
      BY <2>2 DEF BoardQsfps
    <3> QED BY <2>2, <3>2, <3>3
  <2> QED BY <2>4, <2>5
<1> QED BY <1>5 DEF CpuOnly

(* A deletion that finds its bus clears the address.                       *)
LEMMA TakeClears ==
    ASSUME Plugged, platform # "z9264f", Shape, Rightful, UNCHANGED machine, UNCHANGED drivers,
           NEW l, Take(l), NEW x \in OnChannels, DeletesMux(l, x)
    PROVE  Cleared(x)'
<1>1. /\ \A n \in DOMAIN buses' : n \in DOMAIN buses /\ buses'[n] = buses[n]
      /\ \A c \in clients' : ~ (c.addr = l.addr /\ c.at \in Targets(l))
  BY TakeRightful
<1>2. SUFFICES ASSUME NEW c \in clients', c.addr = x[2], x[1] \in DOMAIN buses', c.at = buses'[x[1]]
               PROVE  FALSE
  BY DEF Cleared
<1>3. PICK r \in 2 .. 9 : r = x[1]
  <2>1. \A y \in BoardMuxes : y[1] \in 2 .. 9
    BY BoardPlaces DEF Plugged
  <2>2. x = <<2, \h50>> => x[1] = 2
    OBVIOUS
  <2> QED BY <2>1, <2>2 DEF OnChannels
<1>4. r \in DOMAIN buses /\ c.at = buses[r]
  BY <1>1, <1>2, <1>3
<1>5. buses[r] = CpuPlace(r)
  BY <1>4, CpuChannel DEF Rightful
<1>6. buses[r] = Root(devnum) \o << <<\h70, r - 1>> >>
  BY <1>5, BoardPlaces DEF Plugged
<1>7. l.on = {r} /\ l.addr = x[2] /\ l.poll = {} /\ l.under \subseteq {devnum}
  BY <1>3 DEF DeletesMux
<1>8. PathExists(l, r)
  <2>1. r - 1 \in Channels
    BY DEF Channels
  <2> QED BY <1>4, <1>6, <1>7, <2>1 DEF PathExists
<1>9. buses[r] \in Targets(l)
  BY <1>4, <1>7, <1>8 DEF Targets
<1> QED BY <1>1, <1>2, <1>4, <1>7, <1>9

LEMMA StaysCleared ==
    ASSUME NEW x, Cleared(x), clients' \subseteq clients,
           \A n \in DOMAIN buses' : n \in DOMAIN buses /\ buses'[n] = buses[n]
    PROVE  Cleared(x)'
BY DEF Cleared

(* What is left when the CPU board's mux is gone, or when the mux driver   *)
(* is unloaded.                                                             *)
LEMMA BareNext ==
    ASSUME UNCHANGED machine, Supported, platform # "z9264f", Shape', Numbered',
           \/ "mux" \notin drivers'
           \/ /\ \A d \in clients' : ~ (d.at = Root(devnum) /\ d.addr = \h70)
              /\ \A n \in DOMAIN buses' : ~ (/\ Len(buses'[n]) > 1
                                   /\ buses'[n][1] = <<devnum, 0>> /\ buses'[n][2][1] = \h70)
    PROVE  Bare'
<1>1. /\ platform' = platform /\ devnum' = devnum
      /\ RootBuses' = RootBuses /\ RootMuxes' = RootMuxes
      /\ \A n, a, c : Meant(n, a, c)' <=> Meant(n, a, c)
  BY SameMachine, SameHome DEF machine
<1>2. RootBuses = {0, 1} /\ RootMuxes = {<<devnum, \h70>>}
  BY DEF RootBuses, RootMuxes
<1>3. ASSUME NEW n \in DOMAIN buses' PROVE n \in RootBuses /\ buses'[n] = Root(n)
  <2>1. n \in RootBuses \/ BelowRootMux(buses[n])'
    BY <1>1 DEF Shape
  <2>2. SUFFICES ASSUME BelowRootMux(buses[n])' PROVE FALSE
    BY <1>1, <2>1 DEF Shape, Root
  <2>3. Len(buses'[n]) > 1 /\ buses'[n][1] = <<devnum, 0>> /\ buses'[n][2][1] = \h70
    BY <1>1, <1>2, <2>2 DEF BelowRootMux
  <2>4. "mux" \in drivers'
    BY <1>1, <2>3 DEF Numbered
  <2> QED BY <2>3, <2>4
<1>4. ASSUME NEW c \in clients'
      PROVE  /\ c = [at |-> Root(devnum), addr |-> \h70, chip |-> "mux"]
             /\ devnum \in DOMAIN buses' /\ buses'[devnum] = Root(devnum)
             /\ "mux" \notin drivers'
  <2>1. PICK n \in DOMAIN buses' : c.at = buses'[n] /\ MayBeOn(n, c.addr, c.chip)'
    BY DEF Shape
  <2>2. n \in RootBuses /\ buses'[n] = Root(n)
    BY <1>3
  <2>3. c.chip = "mux" /\ n = devnum /\ c.addr = \h70
    BY <1>1, <1>2, <2>1, <2>2 DEF MayBeOn
  <2>4. c = [at |-> c.at, addr |-> c.addr, chip |-> c.chip]
    BY <1>1 DEF Numbered
  <2> QED BY <2>1, <2>2, <2>3, <2>4
<1>5. Channelled'
  BY <1>4 DEF Channelled, HasMux, Has
<1>6. Owned'
  BY <1>1, <1>3 DEF Owned
<1>7. Intended'
  <2>1. Meant(devnum, \h70, "mux")
    BY <1>2 DEF Meant
  <2> QED BY <1>1, <1>4, <2>1 DEF Intended
<1>8. CpuOnly'
  BY <1>1, <1>4 DEF CpuOnly, Root
<1> QED BY <1>5, <1>6, <1>7, <1>8 DEF Bare, Rightful

(* A tree that does not change stays in its place.                         *)
LEMMA SameBare ==
    ASSUME Bare, UNCHANGED <<machine, buses, clients>>, UNCHANGED drivers
    PROVE  Bare'
<1>1. Rightful'
  BY SameRightful DEF Bare
<1>2. devnum' = devnum /\ clients' = clients
  BY DEF machine
<1>3. CpuOnly'
  BY <1>2 DEF Bare, CpuOnly, Root
<1> QED BY <1>1, <1>3 DEF Bare

(* A deletion that is given up changes nothing.                            *)
LEMMA NoneTaken ==
    ASSUME Shape, NEW l, l.on = {}, Take(l)
    PROVE  buses' = buses /\ clients' = clients
<1>1. Targets(l) = {}
  BY DEF Targets
<1>2. /\ buses' = [n \in DOMAIN buses |-> buses[n]]
      /\ clients' = {c \in clients : HangsOn(c, buses')}
  BY <1>1 DEF Take
<1>3. buses' = buses
  BY <1>2 DEF Shape
<1>4. \A c \in clients : HangsOn(c, buses)
  BY DEF Shape, HangsOn
<1> QED BY <1>2, <1>3, <1>4

(* Nor does the unloading of a driver, while the mux driver stays.         *)
LEMMA NoneDropped ==
    ASSUME Shape, NEW l, Drop(l), "mux" \in drivers'
    PROVE  buses' = buses /\ clients' = clients
<1>1. buses' = buses /\ clients' = {c \in clients : HangsOn(c, buses')}
  BY DEF Drop
<1>2. \A c \in clients : HangsOn(c, buses)
  BY DEF Shape, HangsOn
<1> QED BY <1>1, <1>2

(* The lines of a deinit on a CPU board: deletions up to that of the mux   *)
(* on the bus of boot, then the two drivers.                                *)
LEMMA DeinitOrder ==
    ASSUME TypeOK, platform # "z9264f", Running, script = "deinit"
    PROVE  /\ Len(DeinitLines) \in 5 .. 19 /\ line \in 1 .. Len(DeinitLines)
           /\ Lines = DeinitLines /\ Current = DeinitLines[line] /\ Current \in Removing
           /\ line <= CpuLine => Current.op = "delete"
           /\ line = CpuLine => Current = Delete(CpuMuxLine)
           /\ line > CpuLine => Current.op = "unload"
           /\ line = Len(DeinitLines) => Current = Unload("mux")
<1>1. Supported
  BY SupportedMachine DEF TypeOK
<1>2. DeinitLines = BoardDeinit
  BY DEF DeinitLines
<1>3. /\ Current \in Removing /\ line \in 1 .. Len(DeinitLines)
      /\ Current = DeinitLines[line] /\ Lines = DeinitLines
  BY CurrentLine
<1>4. PICK n \in 5 .. 19 : n = Len(DeinitLines)
  BY <1>1, DeinitLinesRemove
<1>5. /\ DeinitLines[n - 2] = Delete(CpuMuxLine)
      /\ DeinitLines[n - 1] = Unload("cpld") /\ DeinitLines[n] = Unload("mux")
      /\ \A k \in 1 .. n : DeinitLines[k].op = "unload" => k > n - 2
  BY <1>1, <1>2, <1>4, BoardDeinitLines
<1>6. line <= n - 2 => Current.op = "delete"
  <2>1. Current.op = "delete" \/ Current.op = "unload"
    BY <1>3 DEF Removing
  <2> QED BY <1>3, <1>4, <1>5, <2>1
<1>7. line > n - 2 => Current.op = "unload"
  <2>1. ASSUME line > n - 2 PROVE line = n - 1 \/ line = n
    BY <1>3, <1>4, <2>1
  <2>2. Unload("cpld").op = "unload" /\ Unload("mux").op = "unload"
    BY DEF Unload
  <2> QED BY <1>3, <1>5, <2>1, <2>2
<1>8. CpuLine = n - 2
  BY <1>4 DEF CpuLine
<1> QED BY <1>3, <1>4, <1>5, <1>6, <1>7, <1>8

(* What the fault of a line of deinit does: it leaves its bus out.         *)
LEMMA DeinitFault ==
    ASSUME TypeOK, platform # "z9264f", script = "deinit", Fault
    PROVE  \/ UNCHANGED tree
           \/ \E n \in Current.on : Do([Current EXCEPT !.on = Current.on \ {n}])
<1>1. Current \in Removing
  BY CurrentLine DEF Fault
<1>2. Current.op # "new"
  BY <1>1 DEF Removing
<1> QED BY <1>2 DEF Fault

(* The drivers go last: a tree that is bare stays bare, and without the    *)
(* mux driver it becomes so.                                                *)
LEMMA UnloadBare ==
    ASSUME TypeOK, Shape, Shape', Numbered', platform # "z9264f", script = "deinit",
           line > CpuLine, Execute \/ Fault, Bare \/ "mux" \notin drivers'
    PROVE  Bare'
<1>1. /\ Supported /\ UNCHANGED machine /\ Running
  BY SupportedMachine DEF Execute, Fault
<1>2. Current.op = "unload" /\ Current \in Removing
  BY <1>1, DeinitOrder
<1>3. CASE "mux" \notin drivers'
  BY <1>1, <1>3, BareNext
<1>4. CASE "mux" \in drivers'
  <2>1. drivers' \subseteq drivers
    BY DeinitLineStep
  <2>2. ASSUME NEW l, l.op = "unload", Do(l) PROVE buses' = buses /\ clients' = clients
    <3>1. Drop(l)
      BY <2>2 DEF Do, Add, Take
    <3> QED BY <1>4, <3>1, NoneDropped
  <2>3. buses' = buses /\ clients' = clients
    <3>1. CASE Execute
      BY <1>2, <2>2, <3>1 DEF Execute
    <3>2. CASE Fault
      <4>1. CASE UNCHANGED tree
        BY <4>1 DEF tree
      <4>2. CASE \E n \in Current.on : Do([Current EXCEPT !.on = Current.on \ {n}])
        <5>1. PICK n \in Current.on : Do([Current EXCEPT !.on = Current.on \ {n}])
          BY <4>2
        <5>2. Current.on \ {n} \in SUBSET Current.on
          OBVIOUS
        <5>3. [Current EXCEPT !.on = Current.on \ {n}].op = "unload"
          BY <1>2, <5>2, CutShort
        <5> QED BY <2>2, <5>1, <5>3
      <4> QED BY <3>2, <4>1, <4>2, DeinitFault
    <3> QED BY <3>1, <3>2
  <2>4. Rightful'
    BY <1>1, <1>4, <2>1, <2>3, SameRightful DEF Bare
  <2>5. CpuOnly'
    BY <1>1, <1>4, <2>3 DEF Bare, CpuOnly, Root, machine
  <2> QED BY <2>4, <2>5 DEF Bare
<1> QED BY <1>3, <1>4

(* While a deinit has met no fault the lines so far have cleared what they *)
(* name, so that it takes one fault to leave the CPU board's mux and one   *)
(* more to leave it with anything but its channels.                         *)
CutBack ==
    /\ faults = 0 /\ line <= CpuLine =>
          /\ Rightful
          /\ \A x \in OnChannels, i \in 1 .. Len(DeinitLines) :
                i < line /\ DeletesMux(DeinitLines[i], x) => Cleared(x)
    /\ line > CpuLine => Bare \/ (faults = 2 /\ line <= Len(DeinitLines))

(* The first step of init, on what a faulty deinit left.                   *)
LEMMA StartBare ==
    ASSUME Plugged, platform # "z9264f", Shape, Bare, StartInit, MaxBus >= 81
    PROVE  Rightful' /\ "mux" \in drivers'
<1>1. UNCHANGED machine /\ clients' = clients /\ "mux" \in drivers'
  BY DEF StartInit
<1>2. CASE "mux" \in drivers
  <2>1. buses' = buses
    BY <1>2 DEF StartInit
  <2> QED BY <1>1, <1>2, <2>1, SameRightful DEF Bare
<1>3. CASE "mux" \notin drivers
  <2>1. RootBuses = {0, 1} /\ devnum \in RootBuses /\ RootMuxes = {<<devnum, \h70>>}
    BY BoardFields DEF RootMuxes
  <2>2. /\ RootBuses' = RootBuses /\ HomeMuxes' = HomeMuxes
        /\ \A x, k : ChannelOf(x, k)' = ChannelOf(x, k)
        /\ \A n, a, c : Meant(n, a, c)' <=> Meant(n, a, c)
    BY <1>1, SameHome
  <2>3. DOMAIN buses = {0, 1} /\ \A n \in {0, 1} : buses[n] = Root(n)
    BY <1>3, <2>1 DEF Bare, Rightful, Owned, Shape
  <2>4. ProbeMuxes(clients)
    BY <1>3 DEF StartInit
  <2> DEFINE cpu == [at |-> Root(devnum), addr |-> \h70, chip |-> "mux"]
  <2>5. clients = {} \/ clients = {cpu}
    BY DEF Bare, CpuOnly
  <2>6. CASE clients = {}
    <3>1. \A c \in clients : ~ (c.chip = "mux" /\ Answers(c.at))
      BY <2>6
    <3>2. buses' = buses
      BY <2>4, <3>1, ProbeNone
    <3>3. clients' = {} /\ DOMAIN buses' = RootBuses'
      BY <1>1, <2>1, <2>2, <2>3, <2>6, <3>2
    <3>4. Channelled' /\ Intended'
      BY <3>3 DEF Channelled, Intended, HasMux, Has
    <3>5. Owned'
      BY <3>3 DEF Owned
    <3> QED BY <1>1, <3>4, <3>5 DEF Rightful
  <2>7. CASE clients = {cpu}
    <3>1. cpu.chip = "mux" /\ Answers(cpu.at) /\ ProbeMuxes({cpu})
      BY <2>4, <2>7 DEF Answers, Root
    <3>2. PICK f \in Nat : f = 2
      OBVIOUS
    <3>3. /\ f + 7 <= MaxBus /\ \A n \in 0 .. f - 1 : n \in DOMAIN buses
          /\ \A n \in f .. f + 7 : n \notin DOMAIN buses
      BY <2>3, <3>2, PlatformsAssumption
    <3> HIDE DEF cpu
    <3>4. /\ DOMAIN buses' = DOMAIN buses \cup (f .. f + 7)
          /\ \A n \in DOMAIN buses : buses'[n] = buses[n]
          /\ \A n \in f .. f + 7 : buses'[n] = Append(cpu.at, <<cpu.addr, n - f + 1>>)
      BY <3>1, <3>3, ProbeOne
    <3>5. /\ DOMAIN buses' = {0, 1} \cup (2 .. 9)
          /\ \A n \in {0, 1} : buses'[n] = Root(n)
          /\ \A n \in 2 .. 9 : buses'[n] = ChannelOf(CpuHome, n - 1)
      <4>1. \A n : ChannelOf(CpuHome, n) = Append(cpu.at, <<cpu.addr, n>>)
        BY <2>1 DEF ChannelOf, CpuHome, Place, cpu
      <4>2. \A n \in 2 .. 9 : n \in f .. f + 7 /\ n - f + 1 = n - 1
        BY <3>2
      <4>3. f .. f + 7 = 2 .. 9
        BY <3>2
      <4> QED BY <2>3, <3>4, <4>1, <4>2, <4>3
    <3>6. CpuHome \in HomeMuxes /\ CpuHome.on = devnum /\ CpuHome.addr = \h70 /\ CpuHome.first = 2
      BY DEF HomeMuxes, CpuHome
    <3>7. devnum \in DOMAIN buses' /\ buses'[devnum] = Root(devnum)
      BY <2>1, <3>5
    <3>8. Has(CpuHome.on, CpuHome.addr, "mux")'
      BY <1>1, <2>7, <3>6, <3>7 DEF Has, cpu, CpuHome, machine
    <3>9. ASSUME NEW x \in HomeMuxes, Has(x.on, x.addr, "mux")' PROVE x = CpuHome
      <4>1. x.addr = \h70
        BY <1>1, <2>7, <3>9 DEF Has, cpu
      <4>2. \A n, a : a \in IomAddresses => IomMux(n, a).addr # \h70
        BY DEF IomAddresses, IomMux
      <4>3. SwitchHome.addr # \h70
        BY DEF SwitchHome
      <4> QED BY <4>1, <4>2, <4>3 DEF HomeMuxes
    <3>10. Channelled'
      <4>1. \A n \in 2 .. 2 + 7 : n \in 2 .. 9 /\ n - 2 + 1 = n - 1
        OBVIOUS
      <4> QED BY <2>2, <3>5, <3>6, <3>9, <4>1 DEF Channelled, HasMux
    <3>11. Owned'
      <4>1. \A n \in 2 .. 9 : Owns(CpuHome, n)
        BY <3>6 DEF Owns
      <4>2. \A n \in DOMAIN buses' \ RootBuses' : n \in 2 .. 9
        BY <2>1, <2>2, <3>5
      <4>3. ASSUME NEW n \in DOMAIN buses' \ RootBuses'
            PROVE  "mux" \in drivers' /\ \E x \in HomeMuxes' : Owns(x, n) /\ HasMux(x)'
        <5>1. CpuHome \in HomeMuxes' /\ Owns(CpuHome, n)
          BY <2>2, <3>6, <4>1, <4>2
        <5>2. PICK x : x = CpuHome
          OBVIOUS
        <5>3. HasMux(x)'
          BY <1>1, <3>8, <5>2 DEF HasMux, Has, CpuHome, machine
        <5> QED BY <1>1, <5>1, <5>2, <5>3
      <4> QED BY <4>3 DEF Owned, Owns
    <3>12. Intended'
      <4>1. Meant(devnum, \h70, "mux")
        BY <2>1 DEF Meant
      <4>3. cpu.addr = \h70 /\ cpu.chip = "mux" /\ cpu = [at |-> Root(devnum), addr |-> \h70, chip |-> "mux"]
        BY DEF cpu
      <4>5. ASSUME NEW c \in clients'
            PROVE  \E n \in DOMAIN buses' : /\ c = [at |-> buses'[n], addr |-> c.addr, chip |-> c.chip]
                                            /\ Meant(n, c.addr, c.chip)'
        <5>1. c = cpu
          BY <1>1, <2>7
        <5>2. c = [at |-> buses'[devnum], addr |-> c.addr, chip |-> c.chip]
          BY <3>7, <4>3, <5>1
        <5> QED BY <2>2, <3>7, <4>1, <4>3, <5>1, <5>2, Zenon
      <4> QED BY <4>5 DEF Intended
    <3> QED BY <3>10, <3>11, <3>12, <1>1 DEF Rightful
  <2> QED BY <2>5, <2>6, <2>7
<1> QED BY <1>2, <1>3

(* A line of deinit, with or without a fault.                              *)
LEMMA CutBackStep ==
    ASSUME TypeOK, Plugged, Shape, Shape', Numbered', platform # "z9264f", script = "deinit",
           CutBack, Execute \/ Fault, faults' <= 2
    PROVE  CutBack'
<1>1. /\ UNCHANGED machine /\ Running /\ line' = line + 1 /\ faults \in Nat
      /\ Execute => faults' = faults
      /\ Fault => faults' = faults + 1
  BY PlatformsAssumption DEF Execute, Fault, TypeOK
<1>2. /\ Len(DeinitLines) \in 5 .. 19 /\ line \in 1 .. Len(DeinitLines)
      /\ Current = DeinitLines[line] /\ Current \in Removing
      /\ line <= CpuLine => Current.op = "delete"
      /\ line = CpuLine => Current = Delete(CpuMuxLine)
      /\ line > CpuLine => Current.op = "unload"
      /\ line = Len(DeinitLines) => Current = Unload("mux")
  BY <1>1, DeinitOrder
<1>3. PICK n \in 5 .. 19 : n = Len(DeinitLines)
  BY <1>2
<1>4. CpuLine = n - 2 /\ line \in 1 .. n /\ Supported
  BY <1>2, <1>3 DEF CpuLine, Plugged
<1>5. DeinitLines' = DeinitLines /\ OnChannels' = OnChannels /\ CpuLine' = CpuLine
  BY <1>1, SameMachine DEF OnChannels, CpuLine
<1>6. \A l, x : DeletesMux(l, x)' <=> DeletesMux(l, x)
  BY <1>1 DEF DeletesMux, machine
<1>7. ASSUME faults' = 0, line' <= CpuLine
      PROVE  /\ Rightful'
             /\ \A x \in OnChannels, i \in 1 .. Len(DeinitLines) :
                   i < line' /\ DeletesMux(DeinitLines[i], x) => Cleared(x)'
  <2>1. faults = 0 /\ Execute /\ line <= CpuLine
    BY <1>1, <1>4, <1>7
  <2>2. Do(Current) /\ Current.op = "delete"
    BY <1>2, <2>1 DEF Execute
  <2>3. Take(Current) /\ UNCHANGED drivers
    BY <2>2 DEF Do, Add, Drop
  <2>4. Rightful
    BY <2>1 DEF CutBack
  <2>5. /\ Rightful' /\ clients' \subseteq clients
        /\ \A m \in DOMAIN buses' : m \in DOMAIN buses /\ buses'[m] = buses[m]
    BY <1>1, <2>3, <2>4, TakeRightful
  <2>6. ASSUME NEW x \in OnChannels, NEW i \in 1 .. Len(DeinitLines),
               i < line', DeletesMux(DeinitLines[i], x)
        PROVE  Cleared(x)'
    <3>1. CASE i < line
      <4>1. Cleared(x)
        BY <2>1, <2>6, <3>1 DEF CutBack
      <4> QED BY <2>5, <4>1, StaysCleared
    <3>2. CASE i = line
      <4>1. DeletesMux(Current, x)
        BY <1>2, <2>6, <3>2
      <4> QED BY <1>1, <2>3, <2>4, <4>1, TakeClears
    <3>3. i < line \/ i = line
      BY <1>1, <1>3, <1>4, <2>6
    <3> QED BY <3>1, <3>2, <3>3
  <2> QED BY <2>5, <2>6
<1>8. ASSUME line' > CpuLine PROVE Bare' \/ (faults' = 2 /\ line' <= n)
  <2>1. CASE line = CpuLine /\ Execute
    <3>1. Do(Delete(CpuMuxLine))
      BY <1>2, <2>1 DEF Execute
    <3>2. /\ \A d \in clients' : ~ (d.at = Root(devnum) /\ d.addr = \h70)
          /\ \A m \in DOMAIN buses' : ~ (/\ Len(buses'[m]) > 1
                               /\ buses'[m][1] = <<devnum, 0>> /\ buses'[m][2][1] = \h70)
      BY <1>1, <1>4, <3>1, CpuMuxTaken
    <3> QED BY <1>1, <1>4, <3>2, BareNext
  <2>2. CASE line = CpuLine /\ Fault /\ faults = 0
    <3>1. Rightful
      BY <1>4, <2>2 DEF CutBack
    <3>2. ASSUME NEW x \in OnChannels PROVE Cleared(x)
      <4>1. PICK i \in 1 .. CpuLine - 1 : DeletesMux(DeinitLines[i], x)
        BY <1>4, DeinitDeletesChannels
      <4>2. i \in 1 .. Len(DeinitLines) /\ i < line /\ line <= CpuLine
        BY <1>3, <1>4, <2>2
      <4> QED BY <2>2, <4>1, <4>2 DEF CutBack
    <3>3. Bare
      BY <3>1, <3>2, OnlyCpuMux DEF Bare
    <3>4. buses' = buses /\ clients' = clients /\ drivers' = drivers
      <4>1. CASE UNCHANGED tree
        BY <4>1 DEF tree
      <4>2. CASE \E m \in Current.on : Do([Current EXCEPT !.on = Current.on \ {m}])
        <5>1. PICK m \in Current.on : Do([Current EXCEPT !.on = Current.on \ {m}])
          BY <4>2
        <5>2. Current.on = {devnum} /\ Current.op = "delete"
          BY <1>2, <2>2 DEF Delete, CpuMuxLine, NewMux, New
        <5> DEFINE on == Current.on \ {m}
                   l  == [Current EXCEPT !.on = on]
        <5>3. on = {} /\ on \in SUBSET Current.on
          BY <5>1, <5>2
        <5>4. l.on = {} /\ l.op = "delete"
          BY <1>2, <5>2, <5>3, CutShort
        <5> HIDE DEF on, l
        <5>5. Do(l)
          BY <5>1 DEF l, on
        <5>6. Take(l) /\ UNCHANGED drivers
          BY <5>4, <5>5 DEF Do, Add, Drop
        <5> QED BY <5>4, <5>6, NoneTaken
      <4> QED BY <2>2, <4>1, <4>2, DeinitFault
    <3> QED BY <1>1, <3>3, <3>4, SameBare
  <2>3. CASE line = CpuLine /\ Fault /\ faults # 0
    BY <1>1, <1>4, <2>3
  <2>4. CASE line > CpuLine
    <3>1. Bare \/ (faults = 2 /\ line <= n)
      BY <1>3, <2>4 DEF CutBack
    <3>2. CASE Bare \/ "mux" \notin drivers'
      BY <2>4, <3>2, UnloadBare
    <3>3. CASE faults = 2 /\ "mux" \in drivers'
      <4>1. Execute /\ faults' = 2
        BY <1>1, <3>3
      <4>2. line # n
        <5>1. SUFFICES ASSUME line = n PROVE FALSE
          OBVIOUS
        <5>2. Do(Unload("mux"))
          BY <1>2, <1>3, <4>1, <5>1 DEF Execute
        <5>3. /\ Unload("mux").op = "unload" /\ Unload("mux").on = {0}
              /\ Unload("mux").chip = "mux"
          BY DEF Unload
        <5>4. drivers' = drivers \ {"mux"}
          BY <5>2, <5>3 DEF Do, Add, Take, Drop
        <5> QED BY <3>3, <5>4
      <4> QED BY <1>1, <1>4, <4>1, <4>2
    <3> QED BY <3>1, <3>2, <3>3
  <2>5. line = CpuLine \/ line > CpuLine
    BY <1>1, <1>4, <1>8
  <2> QED BY <2>1, <2>2, <2>3, <2>4, <2>5
<1> QED BY <1>3, <1>5, <1>6, <1>7, <1>8 DEF CutBack

(* The invariant of a CPU board that has met no more than two faults: an   *)
(* init that meets none starts from a tree in place, and a deinit leaves   *)
(* one that is bare.  (Three are too many: where the CPU board's mux did   *)
(* not answer and neither it nor the mux driver could then be removed, no  *)
(* init gives it channels.)                                                 *)
Rebuilt ==
    platform # "z9264f" /\ faults <= 2 =>
        /\ faults = 0 => ~ spoiled /\ last \in {"down", "up"}
        /\ script = "init" /\ ~ spoiled => Rightful /\ Present(line - 1)
        /\ script = "none" /\ last \in {"up", "redone"} =>
              Rightful /\ Present(Len(InitLines))
        /\ script = "none" /\ last = "undone" => Bare
        /\ script = "deinit" => CutBack

(* A tree that is where init or deinit left it.                            *)
LEMMA SamePresent ==
    ASSUME Rightful, NEW k, Present(k), UNCHANGED <<machine, buses, clients>>, UNCHANGED drivers
    PROVE  Rightful' /\ Present(k)' /\ InitLines' = InitLines
BY SameRightful, SameHome

(* The steps that lead to an init that has met no fault.                   *)
LEMMA InitRebuilt ==
    ASSUME TypeOK, Plugged, Shape, DeinitRestores, Rebuilt, MaxBus >= 81,
           platform # "z9264f", faults <= 2, [Next]_vars, script' = "init", ~ spoiled'
    PROVE  \E k : k = line' - 1 /\ Rightful' /\ Present(k)'
<1>1. CASE StartInit
  <2>1. /\ line' = 1 /\ script = "none" /\ last # "unknown" /\ "mux" \in drivers'
        /\ clients' = clients /\ UNCHANGED machine
    BY <1>1 DEF StartInit
  <2>2. last \in {"down", "up", "undone", "redone"}
    BY <2>1 DEF TypeOK
  <2>3. Rightful'
    <3>1. CASE last = "down"
      BY <1>1, <3>1, StartRightful
    <3>2. CASE last = "undone"
      <4>1. Bare
        BY <2>1, <3>2 DEF Rebuilt
      <4> QED BY <1>1, <4>1, StartBare
    <3>3. CASE last \in {"up", "redone"}
      <4>1. Rightful /\ "mux" \in drivers
        BY <2>1, <3>3 DEF Rebuilt, Present
      <4>2. buses' = buses
        BY <1>1, <4>1 DEF StartInit
      <4> QED BY <2>1, <4>1, <4>2, SameRightful
    <3> QED BY <2>2, <3>1, <3>2, <3>3
  <2>4. Present(0)'
    BY <2>1 DEF Present
  <2> QED BY <2>1, <2>3, <2>4
<1>2. CASE Execute
  <2>1. script = "init" /\ ~ spoiled
    BY <1>2 DEF Execute
  <2>2. Rightful /\ Present(line - 1)
    BY <2>1 DEF Rebuilt
  <2> QED BY <1>2, <2>1, <2>2, InitLineRightful
<1>3. CASE UNCHANGED vars
  <2>1. /\ script = "init" /\ ~ spoiled /\ line' = line
        /\ UNCHANGED <<machine, buses, clients>> /\ UNCHANGED drivers
    BY <1>3 DEF vars, tree, run
  <2>2. PICK k : k = line - 1
    OBVIOUS
  <2>3. Rightful /\ Present(k)
    BY <2>1, <2>2 DEF Rebuilt
  <2> QED BY <2>1, <2>2, <2>3, SamePresent
<1> QED BY <1>1, <1>2, <1>3
        DEF Next, StartDeinit, Fault, Kill, FinishInit, FinishDeinit

(* Those after which it has ended.                                         *)
LEMMA EndRebuilt ==
    ASSUME TypeOK, Plugged, Rebuilt, platform # "z9264f", faults <= 2, [Next]_vars,
           script' = "none", last' \in {"up", "redone"}
    PROVE  \E k : k = Len(InitLines') /\ Rightful' /\ Present(k)'
<1>1. CASE FinishInit
  <2>1. script = "init" /\ ~ spoiled
    BY <1>1 DEF FinishInit, TypeOK
  <2>2. Rightful /\ Present(line - 1)
    BY <2>1 DEF Rebuilt
  <2> QED BY <1>1, <2>2, InitEndRightful
<1>2. CASE UNCHANGED vars
  <2>1. /\ script = "none" /\ last \in {"up", "redone"}
        /\ UNCHANGED <<machine, buses, clients>> /\ UNCHANGED drivers
    BY <1>2 DEF vars, tree, run
  <2>2. PICK k : k = Len(InitLines)
    OBVIOUS
  <2>3. Rightful /\ Present(k)
    BY <2>1, <2>2 DEF Rebuilt
  <2> QED BY <2>1, <2>2, <2>3, SamePresent
<1> QED BY <1>1, <1>2
        DEF Next, StartInit, StartDeinit, Execute, Fault, Kill, FinishDeinit, Running

(* Those of a deinit that met faults.                                      *)
LEMMA BareRebuilt ==
    ASSUME TypeOK, Plugged, Rebuilt, platform # "z9264f", faults <= 2, [Next]_vars,
           script' = "none", last' = "undone"
    PROVE  Bare'
<1>1. CASE FinishDeinit
  <2>1. /\ script = "deinit" /\ line > Len(DeinitLines)
        /\ UNCHANGED <<machine, buses, clients>> /\ UNCHANGED drivers
    BY <1>1 DEF FinishDeinit, Lines, tree
  <2>2. PICK n \in 5 .. 19 : n = Len(DeinitLines)
    BY DeinitLinesRemove DEF Plugged
  <2>3. line \in 1 .. 20
    BY DEF TypeOK
  <2>4. line > CpuLine /\ ~ (line <= Len(DeinitLines))
    BY <2>1, <2>2, <2>3 DEF CpuLine
  <2>5. Bare
    BY <2>1, <2>4 DEF Rebuilt, CutBack
  <2> QED BY <2>1, <2>5, SameBare
<1>2. CASE UNCHANGED vars
  <2>1. /\ script = "none" /\ last = "undone"
        /\ UNCHANGED <<machine, buses, clients>> /\ UNCHANGED drivers
    BY <1>2 DEF vars, tree, run
  <2>2. Bare
    BY <2>1 DEF Rebuilt
  <2> QED BY <2>1, <2>2, SameBare
<1> QED BY <1>1, <1>2
        DEF Next, StartInit, StartDeinit, Execute, Fault, Kill, FinishInit, Running

(* Those of a deinit on its way.                                           *)
LEMMA CutRebuilt ==
    ASSUME TypeOK, Plugged, Shape, Shape', Numbered', DeinitRestores, Rebuilt,
           platform # "z9264f", faults <= 2, faults' <= 2, [Next]_vars, script' = "deinit"
    PROVE  CutBack'
<1>1. CASE StartDeinit
  <2>1. /\ script = "none" /\ line' = 1 /\ faults' = faults
        /\ UNCHANGED <<machine, buses, clients>> /\ UNCHANGED drivers
    BY <1>1 DEF StartDeinit, tree
  <2>2. PICK n \in 5 .. 19 : n = Len(DeinitLines)
    BY DeinitLinesRemove DEF Plugged
  <2>3. DeinitLines' = DeinitLines /\ CpuLine' = n - 2
    BY <2>1, <2>2, SameMachine DEF CpuLine
  <2>4. ~ (line' > CpuLine') /\ \A i \in 1 .. Len(DeinitLines') : ~ (i < line')
    BY <2>1, <2>2, <2>3
  <2>5. ASSUME faults' = 0 PROVE Rightful'
    <3>1. last \in {"down", "up"}
      BY <2>1, <2>5 DEF Rebuilt
    <3>2. CASE last = "up"
      <4>1. Rightful
        BY <2>1, <3>2 DEF Rebuilt
      <4> QED BY <2>1, <4>1, SameRightful
    <3>3. CASE last = "down"
      <4>1. clients' = {} /\ DOMAIN buses' = RootBuses'
        BY <2>1, <3>3, SameHome DEF DeinitRestores
      <4>2. Channelled' /\ Intended'
        BY <4>1 DEF Channelled, Intended, HasMux, Has
      <4>3. Owned'
        BY <4>1 DEF Owned
      <4> QED BY <4>2, <4>3 DEF Rightful
    <3> QED BY <3>1, <3>2, <3>3
  <2> QED BY <2>4, <2>5 DEF CutBack
<1>2. CASE Execute \/ Fault
  <2>1. script = "deinit"
    BY <1>2 DEF Execute, Fault
  <2>2. CutBack
    BY <2>1 DEF Rebuilt
  <2> QED BY <1>2, <2>1, <2>2, CutBackStep
<1>3. CASE UNCHANGED vars
  <2>1. /\ script = "deinit" /\ line' = line /\ faults' = faults
        /\ UNCHANGED <<machine, buses, clients>> /\ UNCHANGED drivers
    BY <1>3 DEF vars, tree, run
  <2>2. CutBack
    BY <2>1 DEF Rebuilt
  <2>3. /\ DeinitLines' = DeinitLines /\ OnChannels' = OnChannels /\ CpuLine' = CpuLine
        /\ \A l, x : DeletesMux(l, x)' <=> DeletesMux(l, x)
    BY <2>1, SameMachine DEF OnChannels, CpuLine, DeletesMux, machine
  <2>4. \A x : Cleared(x) => Cleared(x)'
    BY <2>1 DEF Cleared
  <2>5. Rightful => Rightful'
    BY <2>1, SameRightful
  <2>6. Bare => Bare'
    BY <2>1, SameBare
  <2> QED BY <2>1, <2>2, <2>3, <2>4, <2>5, <2>6 DEF CutBack
<1> QED BY <1>1, <1>2, <1>3
        DEF Next, StartInit, Kill, FinishInit, FinishDeinit

LEMMA RebuiltStep ==
    ASSUME TypeOK, Shape, Shape', Numbered', DeinitRestores, Rebuilt, MaxBus >= 81, [Next]_vars
    PROVE  Rebuilt'
<1>1. Plugged /\ faults \in Nat
  BY SupportedMachine, PlatformsAssumption DEF TypeOK, Plugged
<1>2. UNCHANGED machine /\ (faults' = faults \/ faults' = faults + 1)
  BY DEF Next, StartInit, StartDeinit, Execute, Fault, Kill, FinishInit, FinishDeinit,
         vars, run
<1>3. SUFFICES ASSUME platform # "z9264f", faults' <= 2 PROVE Rebuilt'
  BY <1>2 DEF Rebuilt, machine
<1>4. faults <= 2 /\ (faults' = 0 => faults = 0 /\ faults' = faults)
  BY <1>1, <1>2, <1>3
<1>5. ASSUME faults' = 0 PROVE ~ spoiled' /\ last' \in {"down", "up"}
  <2>1. ~ spoiled /\ last \in {"down", "up"} /\ ~ Fault /\ ~ Kill
    BY <1>1, <1>3, <1>4, <1>5 DEF Rebuilt, Fault, Kill
  <2>2. CASE StartInit
    BY <2>1, <2>2 DEF StartInit
  <2>3. CASE StartDeinit \/ Execute \/ FinishInit \/ FinishDeinit
    BY <2>1, <2>3 DEF StartDeinit, Execute, FinishInit, FinishDeinit
  <2>4. CASE UNCHANGED vars
    BY <2>1, <2>4 DEF vars, run
  <2> QED BY <2>1, <2>2, <2>3, <2>4 DEF Next
<1>6. script' = "init" /\ ~ spoiled' => Rightful' /\ Present(line - 1)'
  BY <1>1, <1>3, <1>4, InitRebuilt DEF Present
<1>7. script' = "none" /\ last' \in {"up", "redone"} => Rightful' /\ Present(Len(InitLines))'
  BY <1>1, <1>3, <1>4, EndRebuilt DEF Present
<1>8. script' = "none" /\ last' = "undone" => Bare'
  BY <1>1, <1>3, <1>4, BareRebuilt
<1>9. script' = "deinit" => CutBack'
  BY <1>1, <1>3, <1>4, CutRebuilt
<1> QED BY <1>5, <1>6, <1>7, <1>8, <1>9 DEF Rebuilt

LEMMA InitRebuilding ==
    ASSUME Init
    PROVE  Rebuilt
BY DEF Init, Rebuilt

(* The same after a deinit that met faults, on the platforms where the     *)
(* whole tree hangs off one mux: whatever it left, the init that follows   *)
(* puts every bus and every device in its place, as long as the machine    *)
(* has met no more than two faults since it booted.                         *)
THEOREM FewFaultsMended == MaxBus >= 81 => (Spec => [](faults <= 2 => InitPutsInPlace))
<1> SUFFICES ASSUME MaxBus >= 81
             PROVE  Spec => [](faults <= 2 => InitPutsInPlace)
  OBVIOUS
<1> DEFINE Inv == TypeOK /\ Shape /\ Numbered /\ TakenDown /\ DeinitRestores /\ Building /\ Rebuilt
<1>1. Init => Inv
  <2>1. Init => TakenDown /\ DeinitRestores /\ Building
    BY DEF Init, TakenDown, DeinitRestores, Building
  <2> QED BY <2>1, InitialTree, InitNumbered, InitRebuilding
<1>2. Inv /\ [Next]_vars => Inv'
  <2> SUFFICES ASSUME Inv, [Next]_vars PROVE Inv'
    OBVIOUS
  <2>1. TypeOK' /\ Shape' /\ TakenDown' /\ DeinitRestores' /\ Building'
    BY ShapeStep, TypeStep, TakenDownStep, RestoresStep, BuildingStep
  <2>2. Numbered'
    BY NumberedStep
  <2>3. Rebuilt'
    BY <2>1, <2>2, RebuiltStep
  <2> QED BY <2>1, <2>2, <2>3
<1>3. Inv => (faults <= 2 => InitPutsInPlace)
  <2> SUFFICES ASSUME Inv, faults <= 2, script = "none",
                      last = "up" \/ (last = "redone" /\ platform # "z9264f")
               PROVE  InPlace
    BY DEF InitPutsInPlace
  <2>1. Plugged
    BY SupportedMachine DEF TypeOK, Plugged
  <2>2. Rightful /\ Present(Len(InitLines))
    BY DEF Building, Rebuilt
  <2> QED BY <2>1, <2>2, AllInPlace
<1> QED BY <1>1, <1>2, <1>3, PTL DEF Spec

(* So on a machine that never meets more than two faults every init that   *)
(* meets none puts the tree in place, whatever init and deinit did before. *)
THEOREM InitMends == MaxBus >= 81 /\ MaxFaults <= 2 => (Spec => []InitPutsInPlace)
<1> SUFFICES ASSUME MaxBus >= 81, MaxFaults <= 2
             PROVE  Spec => []InitPutsInPlace
  OBVIOUS
<1>1. TypeOK => faults <= 2
  BY PlatformsAssumption DEF TypeOK
<1>2. Spec => [](faults <= 2 => InitPutsInPlace)
  BY FewFaultsMended
<1> QED BY <1>1, <1>2, TypeCorrect, PTL
=============================================================================
