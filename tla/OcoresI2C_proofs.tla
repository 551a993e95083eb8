--------------------------- MODULE OcoresI2C_proofs ---------------------------
(***************************************************************************)
(* Proofs about OcoresI2C: its safety properties, and that it implements   *)
(* I2CTransfer, for every set of transfers and every Budget.               *)
(*                                                                         *)
(* The safety properties are not inductive.  What makes them so is the     *)
(* agreement of four things: where the driver stands (m, pos, nmsgs and    *)
(* state), the latest command on the wires, the bus, and the status that   *)
(* ocores_poll read some time ago.                                         *)
(***************************************************************************)
EXTENDS OcoresI2C, TLAPS

Active == pc # "idle" /\ state \notin {"DONE", "ERROR"}

(* The driver's place in the message array. *)
Place ==
    /\ Active => m \in 1 .. Len(xfer) /\ nmsgs = Len(xfer) - m + 1
    /\ Active => pc \in {"loop", "read", "act", "check"}
    /\ pc # "idle" /\ ~ Active => pc = "check"
    /\ pc # "idle" /\ state = "DONE" => m = Len(xfer) + 1
    /\ pc # "idle" /\ state = "ERROR" => ret \in {"EAGAIN", "ENXIO"}
    /\ pc # "idle" => result = "none"

(* The latest command on the wires is the one of the driver's place. *)
WireAgrees ==
    /\ Active /\ state = "INIT"   => m = 1 /\ pos = 0
    /\ Active /\ state = "ADDR"   =>
          /\ m > 1 /\ pos = 0 /\ ~ xfer[m].nostart
          /\ wire.op # "stop" /\ wire.msg = m - 1 /\ EndsMessage(xfer, wire)
          /\ ~ tip /\ (nack => wire.op = "read")
    /\ Active /\ state = "ADDR10" => pos = 0 /\ xfer[m].ten /\ wire = Start(m)
    /\ Active /\ state = "START"  =>
          /\ pos = 0
          /\ wire = IF xfer[m].ten THEN Addr2(m) ELSE Start(m)
    /\ Active /\ state = "WRITE"  =>
          /\ ~ xfer[m].rd /\ pos \in 1 .. xfer[m].len
          /\ wire = Write(m, pos)
    /\ Active /\ state = "READ"   =>
          /\ xfer[m].rd /\ pos < xfer[m].len
          /\ wire = Read(m, pos + 1, pos + 1 = xfer[m].len)

(* A bus that we took and did not release is ours, or arbitration is lost. *)
BusAgrees ==
    /\ wire.op = "stop"  => wire = Stop /\ ~ tip
    /\ wire.op = "start" => tip \/ bus = "ours" \/ al
    /\ wire.op \in {"addr2", "write", "read"} => bus = "ours" \/ al
    /\ wire.op = "read" /\ ~ tip /\ ~ al => rxr = <<wire.msg, wire.byte>>
    /\ stopping => wire = Stop /\ (bus = "ours" \/ al)

(* A status that allows the driver to act is still true when it acts. *)
StatusAgrees ==
    pc = "act" /\ ~ stat.tip =>
        /\ ~ tip
        /\ stat.al = al
        /\ stat.nack = nack
        /\ ~ stat.busy => bus # "ours"

(* What has been stored so far. *)
StoredSoFar ==
    /\ BytesInPlace
    /\ pc # "idle" /\ state # "ERROR" =>
          \A s \in ReadSlots(xfer) :
              s[1] < m \/ (s[1] = m /\ s[2] <= pos) => <<s, s>> \in rx
    /\ OkIsComplete

IInv == TypeOK /\ Place /\ WireAgrees /\ BusAgrees /\ StatusAgrees /\ StoredSoFar

-----------------------------------------------------------------------------
(* Facts about the data. *)

(* Every message of a transfer has the fields of struct i2c_msg, and one  *)
(* that continues another without START is not empty.                     *)
LEMMA MessageFacts ==
    ASSUME NEW t \in Transfers
    PROVE  /\ Len(t) \in Nat /\ Len(t) > 0
           /\ \A k \in 1 .. Len(t) :
                 /\ t[k].rd \in BOOLEAN /\ t[k].ten \in BOOLEAN
                 /\ t[k].nostart \in BOOLEAN /\ t[k].len \in Nat
           /\ \A k \in 2 .. Len(t) : t[k].nostart => t[k].len > 0
<1>1. t \in Seq(Message)
  BY TransfersAssumption
<1>2. \A k \in 1 .. Len(t) : t[k] \in Message
  BY <1>1
<1>3. Len(t) \in Nat /\ Len(t) > 0 /\ \A k \in 2 .. Len(t) : t[k].nostart => t[k].len > 0
  BY <1>1, TransfersAssumption
<1> QED
  BY <1>2, <1>3 DEF Message

(* The places of a transfer's bytes, spelt out. *)
LEMMA ReadSlotFacts ==
    ASSUME NEW t \in Transfers
    PROVE  /\ \A k \in 1 .. Len(t) : \A b \in 1 .. t[k].len :
                 t[k].rd => <<k, b>> \in ReadSlots(t)
           /\ \A s \in ReadSlots(t) :
                 /\ s = <<s[1], s[2]>>
                 /\ s[1] \in 1 .. Len(t) /\ s[2] \in 1 .. t[s[1]].len
                 /\ t[s[1]].rd
<1>1. \A k \in 1 .. Len(t) : \A b \in 1 .. t[k].len : <<k, b>> \in Slots(t)
  BY DEF Slots
<1>2. \A s \in Slots(t) : \E k \in 1 .. Len(t) : s \in {k} \X (1 .. t[k].len)
  BY DEF Slots
<1>3. \A s \in Slots(t) : /\ s = <<s[1], s[2]>>
                          /\ s[1] \in 1 .. Len(t) /\ s[2] \in 1 .. t[s[1]].len
  BY <1>2
<1> QED
  BY <1>1, <1>3 DEF ReadSlots

(* The commands are commands. *)
LEMMA CommandFacts ==
    /\ Stop \in Command
    /\ \A k \in Nat : Start(k) \in Command /\ Addr2(k) \in Command
    /\ \A k, b \in Nat : Write(k, b) \in Command
    /\ \A k, b \in Nat : \A n \in BOOLEAN : Read(k, b, n) \in Command
  BY DEF Command, Ops, Start, Addr2, Write, Read, Stop

(* What a command is for is the same as what its operation says. *)
LEMMA OpFacts ==
    /\ Stop.op = "stop"
    /\ \A k : Start(k).op = "start" /\ Start(k).msg = k
    /\ \A k : Addr2(k).op = "addr2" /\ Addr2(k).msg = k
    /\ \A k, b : Write(k, b).op = "write" /\ Write(k, b).msg = k /\ Write(k, b).byte = b
    /\ \A k, b, n : /\ Read(k, b, n).op = "read" /\ Read(k, b, n).msg = k
                    /\ Read(k, b, n).byte = b /\ Read(k, b, n).nack = n
  BY DEF Start, Addr2, Write, Read, Stop

(* The status register shows four flags. *)
LEMMA StatusFacts ==
    ASSUME tip \in BOOLEAN, al \in BOOLEAN, nack \in BOOLEAN
    PROVE  Status \in StatusType
<1>1. (bus # "free") \in BOOLEAN
  OBVIOUS
<1> QED
  BY <1>1 DEF Status, StatusType

-----------------------------------------------------------------------------
(* The inductive invariant: initial states and one lemma per action. *)

LEMMA InitInv == Init => IInv
<1> SUFFICES ASSUME Init PROVE IInv
  OBVIOUS
<1>1. TypeOK
  <2>1. HwTypeOK
    BY CommandFacts DEF Init, HwInit, HwTypeOK, Slot
  <2>2. stat \in StatusType
    BY <2>1, StatusFacts DEF Init, HwTypeOK
  <2>3. left \in 0 .. Budget
    BY BudgetAssumption DEF Init
  <2> QED
    BY <2>1, <2>2, <2>3 DEF Init, TypeOK, States, PCs, Results
<1>2. Place /\ WireAgrees /\ BusAgrees /\ StatusAgrees
  BY OpFacts DEF Init, HwInit, Place, WireAgrees, BusAgrees, StatusAgrees, Active
<1>3. StoredSoFar
  BY DEF Init, StoredSoFar, BytesInPlace, OkIsComplete
<1> QED
  BY <1>1, <1>2, <1>3 DEF IInv

(* The controller, the slaves and the other masters. *)
LEMMA HwTypeStep == HwTypeOK /\ HwNext => HwTypeOK'
<1> SUFFICES ASSUME HwTypeOK, HwNext PROVE HwTypeOK'
  OBVIOUS
<1>1. CASE Complete
  <2>1. wire.nack \in BOOLEAN /\ <<wire.msg, wire.byte>> \in Slot
    BY DEF HwTypeOK, Command, Slot
  <2> QED
    BY <1>1, <2>1 DEF HwTypeOK, Complete
<1>2. CASE LoseArbitration
  BY <1>2 DEF HwTypeOK, LoseArbitration
<1>3. CASE EndStop
  BY <1>3 DEF HwTypeOK, EndStop
<1>4. CASE OtherMaster
  BY <1>4 DEF HwTypeOK, OtherMaster
<1> QED
  BY <1>1, <1>2, <1>3, <1>4 DEF HwNext

LEMMA BusStep == HwTypeOK /\ BusAgrees /\ HwNext => BusAgrees'
  BY OpFacts DEF BusAgrees, HwTypeOK, HwNext, Complete, LoseArbitration, EndStop, OtherMaster

LEMMA HardwareInv == IInv /\ Hardware => IInv'
<1> SUFFICES ASSUME IInv, Hardware PROVE IInv'
  OBVIOUS
<1> USE DEF IInv, Hardware, drv, call
<1>1. TypeOK'
  BY HwTypeStep DEF TypeOK
<1>2. Place' /\ WireAgrees'
  BY DEF Place, WireAgrees, Active, HwNext, Complete, LoseArbitration, EndStop,
         OtherMaster
<1>3. BusAgrees'
  BY BusStep DEF TypeOK
<1>4. StatusAgrees'
  BY DEF StatusAgrees, TypeOK, HwTypeOK, HwNext, Complete, LoseArbitration, EndStop,
         OtherMaster
<1>5. StoredSoFar'
  BY DEF StoredSoFar, BytesInPlace, OkIsComplete
<1> QED
  BY <1>1, <1>2, <1>3, <1>4, <1>5

(* A call starts from whatever state the last one left the controller in. *)
LEMMA XferInv == IInv /\ Xfer => IInv'
<1> SUFFICES ASSUME IInv, Xfer PROVE IInv'
  OBVIOUS
<1> USE DEF IInv, Xfer, hw
<1>1. xfer' \in Transfers /\ Len(xfer') \in Nat /\ Len(xfer') > 0
  BY MessageFacts
<1>2. TypeOK'
  BY <1>1, BudgetAssumption DEF TypeOK, HwTypeOK, States, PCs, Results
<1>3. Place' /\ WireAgrees' /\ StatusAgrees'
  BY <1>1 DEF Place, WireAgrees, StatusAgrees, Active
<1>4. BusAgrees'
  BY DEF BusAgrees
<1>5. StoredSoFar'
  <2>1. \A s \in ReadSlots(xfer') : s[1] \in 1 .. Len(xfer') /\ s[2] \in Nat /\ s[2] > 0
    <3> SUFFICES ASSUME NEW s \in ReadSlots(xfer')
                 PROVE  s[1] \in 1 .. Len(xfer') /\ s[2] \in Nat /\ s[2] > 0
      OBVIOUS
    <3>1. s[1] \in 1 .. Len(xfer') /\ s[2] \in 1 .. xfer'[s[1]].len
      BY <1>1, ReadSlotFacts
    <3>2. xfer'[s[1]].len \in Nat
      BY <1>1, <3>1, MessageFacts
    <3> QED
      BY <3>1, <3>2
  <2> QED
    BY <1>1, <2>1 DEF StoredSoFar, BytesInPlace, OkIsComplete
<1> QED
  BY <1>2, <1>3, <1>4, <1>5

(* The steps of the call that only look. *)
LEMMA LoopInv == IInv /\ (LoopHead \/ Tick \/ ReadStatus \/ PollBusy) => IInv'
<1> SUFFICES ASSUME IInv, LoopHead \/ Tick \/ ReadStatus \/ PollBusy PROVE IInv'
  OBVIOUS
<1> USE DEF IInv, hw, drv
<1>1. TypeOK'
  <2>1. CASE ReadStatus
    BY <2>1, StatusFacts DEF ReadStatus, TypeOK, HwTypeOK, PCs
  <2>2. CASE LoopHead
    BY <2>2 DEF LoopHead, TypeOK, HwTypeOK, PCs
  <2>3. CASE Tick
    <3>1. left' \in 0 .. Budget
      BY <2>3, BudgetAssumption DEF Tick, TypeOK
    <3> QED
      BY <2>3, <3>1 DEF Tick, TypeOK, HwTypeOK
  <2>4. CASE PollBusy
    BY <2>4 DEF PollBusy, PollReturns, TypeOK, HwTypeOK, PCs
  <2> QED
    BY <2>1, <2>2, <2>3, <2>4
<1>2. Place' /\ WireAgrees' /\ BusAgrees' /\ StoredSoFar'
  BY DEF LoopHead, Tick, ReadStatus, PollBusy, PollReturns, Place, WireAgrees, Active,
         BusAgrees, StoredSoFar, BytesInPlace, OkIsComplete
<1>3. StatusAgrees'
  <2>1. CASE ReadStatus
    <3>1. /\ stat'.tip = tip /\ stat'.al = al /\ stat'.nack = nack
          /\ stat'.busy = (bus # "free")
      BY <2>1 DEF ReadStatus, Status
    <3>2. UNCHANGED <<tip, al, nack, bus>>
      BY <2>1 DEF ReadStatus
    <3> QED
      BY <3>1, <3>2 DEF StatusAgrees, TypeOK, HwTypeOK
  <2>2. CASE LoopHead \/ Tick \/ PollBusy
    BY <2>2 DEF LoopHead, Tick, PollBusy, PollReturns, StatusAgrees
  <2> QED
    BY <2>1, <2>2
<1> QED
  BY <1>1, <1>2, <1>3

(* The two ways out of ocores_xfer. *)
LEMMA ReturnInv == IInv /\ (TimeOut \/ Check) => IInv'
<1> SUFFICES ASSUME IInv, TimeOut \/ Check PROVE IInv'
  OBVIOUS
<1> USE DEF IInv, hw, drv
<1>1. TypeOK'
  <2>1. CASE TimeOut
    BY <2>1 DEF TimeOut, TypeOK, HwTypeOK, PCs, States, Results
  <2>2. CASE Check
    <3>1. left' \in 0 .. Budget
      BY <2>2, BudgetAssumption DEF Check, Extended, TypeOK
    <3>2. result' \in Results /\ pc' \in PCs
      BY <2>2 DEF Check, Place, Active, TypeOK, Results, PCs
    <3> QED
      BY <2>2, <3>1, <3>2 DEF Check, TypeOK, HwTypeOK
  <2> QED
    BY <2>1, <2>2
<1>2. Place' /\ WireAgrees' /\ BusAgrees' /\ StatusAgrees'
  <2>1. CASE TimeOut
    BY <2>1 DEF TimeOut, Place, WireAgrees, Active, BusAgrees, StatusAgrees
  <2>2. CASE Check
    <3>1. UNCHANGED <<hw, xfer, m, pos, nmsgs, state, ret>> /\ pc' \in {"loop", "idle"}
      BY <2>2 DEF Check
    <3>2. pc' = "loop" => Active /\ result' = result
      BY <2>2 DEF Check, Active
    <3>3. Place'
      BY <3>1, <3>2, <2>2 DEF Check, Place, Active
    <3>4. WireAgrees'
      BY <3>1, <3>2 DEF WireAgrees, Active
    <3> QED
      BY <3>1, <3>3, <3>4 DEF BusAgrees, StatusAgrees
  <2> QED
    BY <2>1, <2>2
<1>3. StoredSoFar'
  <2>1. CASE TimeOut
    BY <2>1 DEF TimeOut, StoredSoFar, BytesInPlace, OkIsComplete
  <2>2. CASE Check
    <3>1. BytesInPlace'
      BY <2>2 DEF Check, StoredSoFar, BytesInPlace
    <3>2. pc' # "idle" /\ state' # "ERROR" =>
            \A s \in ReadSlots(xfer') :
              s[1] < m' \/ (s[1] = m' /\ s[2] <= pos') => <<s, s>> \in rx'
      BY <2>2 DEF Check, StoredSoFar
    <3>3. OkIsComplete'
      <4> SUFFICES ASSUME result' = "ok", NEW s \in ReadSlots(xfer)
                   PROVE  <<s, s>> \in rx
        BY <2>2 DEF Check, OkIsComplete
      <4>1. state = "DONE" /\ m = Len(xfer) + 1
        BY <2>2 DEF Check, Place, Active
      <4>2. s[1] \in 1 .. Len(xfer) /\ Len(xfer) \in Nat
        BY ReadSlotFacts, MessageFacts DEF TypeOK
      <4> QED
        BY <2>2, <4>1, <4>2 DEF Check, StoredSoFar
    <3> QED
      BY <3>1, <3>2, <3>3 DEF StoredSoFar
  <2> QED
    BY <2>1, <2>2
<1> QED
  BY <1>1, <1>2, <1>3

(* What the driver knows when it acts on a status without TIP and ARBLOST: *)
(* no command is being carried out, and before the first START the wires   *)
(* are released.                                                           *)
LEMMA ActFacts ==
    ASSUME IInv, pc = "act", ~ stat.tip
    PROVE  /\ Active /\ ~ tip
           /\ stat.al = al /\ stat.nack = nack
           /\ ~ al /\ state # "INIT" => bus = "ours" /\ ~ stopping /\ wire.op # "stop"
           /\ ~ al /\ state = "INIT" /\ ~ BusBusy => wire = Stop /\ ~ stopping
<1> USE DEF IInv
<1>1. Active /\ ~ tip /\ stat.al = al /\ stat.nack = nack
  BY DEF Place, StatusAgrees
<1>2. wire.op \in Ops
  BY DEF TypeOK, HwTypeOK, Command
<1>3. ASSUME ~ al, state # "INIT" PROVE bus = "ours" /\ ~ stopping /\ wire.op # "stop"
  <2>1. wire.op # "stop"
    <3>1. state \in {"ADDR", "ADDR10", "START", "WRITE", "READ"}
      BY <1>1, <1>3 DEF Active, TypeOK, States
    <3> QED
      BY <1>1, <3>1, OpFacts DEF WireAgrees
  <2> QED
    BY <1>1, <1>2, <1>3, <2>1, OpFacts DEF BusAgrees, Ops
<1>4. ASSUME ~ al, state = "INIT", ~ BusBusy PROVE wire = Stop /\ ~ stopping
  <2>1. bus # "ours"
    BY <1>4 DEF StatusAgrees, BusBusy
  <2> QED
    BY <1>1, <1>2, <1>4, <2>1 DEF BusAgrees, Ops
<1> QED
  BY <1>1, <1>3, <1>4

(* Both failing polls: the error is kept until the call returns it. *)
LEMMA FailInv == IInv /\ (PollArbLost \/ PollNack) => IInv'
<1> SUFFICES ASSUME IInv, PollArbLost \/ PollNack PROVE IInv'
  OBVIOUS
<1> USE DEF IInv
<1>1. /\ pc = "act" /\ ~ stat.tip /\ state' = "ERROR" /\ wire' = Stop
      /\ ret' \in {"EAGAIN", "ENXIO"} /\ pc' = "check" /\ stopping' = TRUE
      /\ UNCHANGED <<tip, bus, al, nack, rxr, xfer, m, pos, nmsgs, rx, stat, left, result>>
      /\ stat.al \/ state # "INIT"
  BY DEF PollArbLost, PollNack, Proceed, Fail, PollReturns, IssueStop, ArbLost
<1>2. ~ tip /\ (bus = "ours" \/ al) /\ Active
  BY <1>1, ActFacts DEF TypeOK, HwTypeOK
<1>3. TypeOK'
  BY <1>1, CommandFacts DEF TypeOK, HwTypeOK, PCs, States
<1>4. Place' /\ WireAgrees' /\ BusAgrees' /\ StatusAgrees'
  BY <1>1, <1>2, OpFacts DEF Place, WireAgrees, Active, BusAgrees, StatusAgrees
<1>5. StoredSoFar'
  BY <1>1 DEF StoredSoFar, BytesInPlace, OkIsComplete
<1> QED
  BY <1>3, <1>4, <1>5

(* The address bytes. *)
LEMMA AddressInv == IInv /\ (PollAddr \/ PollAddr10) => IInv'
<1> SUFFICES ASSUME IInv, PollAddr \/ PollAddr10 PROVE IInv'
  OBVIOUS
<1> USE DEF IInv
<1>1. /\ pc = "act" /\ ~ stat.tip /\ ~ stat.al
      /\ pc' = "check" /\ ret' = "0" /\ tip' = TRUE
      /\ UNCHANGED <<stopping, bus, nack, rxr, xfer, m, pos, nmsgs, rx, stat, left, result>>
  BY DEF PollAddr, PollAddr10, Proceed, Issue, PollReturns, ArbLost
<1>2. ~ al /\ Active /\ m \in 1 .. Len(xfer) /\ pc # "idle" /\ state # "ERROR" /\ m \in Nat
  BY <1>1, ActFacts DEF Place, TypeOK, Active
<1>3. \/ /\ PollAddr /\ state \in {"INIT", "ADDR"} /\ wire' = Start(m)
         /\ state' = IF xfer[m].ten THEN "ADDR10" ELSE "START"
      \/ /\ PollAddr10 /\ state = "ADDR10" /\ wire' = Addr2(m) /\ state' = "START"
  BY DEF PollAddr, PollAddr10, Proceed, Issue
<1>4. ~ stopping /\ pos = 0 /\ ~ al'
  <2>1. state = "INIT" => ~ BusBusy
    BY <1>3 DEF PollAddr
  <2>2. pos = 0
    BY <1>2, <1>3 DEF WireAgrees
  <2>3. ~ al'
    BY <1>2 DEF PollAddr, PollAddr10, Issue
  <2> QED
    BY <1>1, <1>2, <2>1, <2>2, <2>3, ActFacts
<1>5. TypeOK'
  <2>1. wire' \in Command
    BY <1>2, <1>3, CommandFacts
  <2>2. al' \in BOOLEAN
    BY <1>4, Zenon DEF PollAddr, PollAddr10, Issue
  <2>3. state' \in States
    BY <1>3 DEF States
  <2> QED
    BY <1>1, <2>1, <2>2, <2>3 DEF TypeOK, HwTypeOK, PCs
<1>6. Active'
  BY <1>1, <1>3 DEF Active
<1>2a. Place'
  BY <1>1, <1>2, <1>3, <1>6 DEF Place, Active
<1>8. WireAgrees'
  <2>1. CASE PollAddr
    BY <2>1, <1>1, <1>3, <1>4 DEF WireAgrees, Active, PollAddr10, Proceed
  <2>2. CASE PollAddr10
    <3>1. xfer[m].ten
      BY <2>2, <1>2 DEF PollAddr10, Proceed, WireAgrees
    <3> QED
      BY <2>2, <3>1, <1>1, <1>3, <1>4 DEF WireAgrees, Active, PollAddr, PollAddr10, Proceed
  <2> QED
    BY <2>1, <2>2
<1>9. BusAgrees'
  <2>1. CASE wire'.op = "start"
    BY <2>1, <1>1, <1>4 DEF BusAgrees
  <2>2. CASE wire'.op = "addr2"
    <3>1. state = "ADDR10"
      BY <2>2, <1>3, OpFacts
    <3>2. bus = "ours"
      BY <1>1, <1>2, <3>1, ActFacts
    <3> QED
      BY <2>2, <3>2, <1>1, <1>4 DEF BusAgrees
  <2> QED
    BY <2>1, <2>2, <1>3, OpFacts
<1>10. StatusAgrees' /\ StoredSoFar'
  BY <1>1, <1>2, <1>4 DEF StatusAgrees, StoredSoFar, BytesInPlace, OkIsComplete
<1> QED
  BY <1>5, <1>2a, <1>8, <1>9, <1>10

(* Where a transfer stands when the controller has moved a byte: the       *)
(* command on the wires is byte PosNow of message m, or its address when   *)
(* PosNow is 0, and what was read so far is stored.                        *)
LEMMA MovedFacts ==
    ASSUME IInv, Moved
    PROVE  /\ pc = "act" /\ ~ tip /\ ~ al /\ bus = "ours" /\ ~ stopping /\ Active
           /\ ~ stat.tip
           /\ nack => wire.op = "read"
           /\ m \in 1 .. Len(xfer) /\ nmsgs = Len(xfer) - m + 1 /\ result = "none"
           /\ wire.msg = m /\ wire.op \in {"start", "addr2", "write", "read"}
           /\ PosNow \in 0 .. xfer[m].len
           /\ \/ PosNow = 0 /\ AddressSent(xfer, wire)
              \/ PosNow > 0 /\ wire.op \in {"write", "read"} /\ wire.byte = PosNow
           /\ rx' \in SUBSET (Slot \X Slot)
           /\ \A s \in rx' : s[1] = s[2] /\ s[1] \in ReadSlots(xfer)
           /\ \A s \in ReadSlots(xfer) :
                 s[1] < m \/ (s[1] = m /\ s[2] <= PosNow) => <<s, s>> \in rx'
<1> USE DEF IInv
<1>1. /\ pc = "act" /\ ~ stat.tip /\ ~ stat.al /\ rx' = Stored
      /\ state \in {"START", "WRITE", "READ"}
  BY DEF Moved, Proceed, ArbLost
<1>2. /\ ~ tip /\ ~ al /\ bus = "ours" /\ ~ stopping /\ Active
      /\ m \in 1 .. Len(xfer) /\ nmsgs = Len(xfer) - m + 1 /\ result = "none"
  BY <1>1, ActFacts DEF Place
<1>2a. nack => state = "READ"
  BY <1>1, ActFacts DEF Moved, Nacked
<1>3. /\ xfer \in Transfers /\ m \in Nat /\ pos \in Nat
      /\ xfer[m].len \in Nat /\ xfer[m].ten \in BOOLEAN
  BY <1>2, MessageFacts DEF TypeOK
<1>4. CASE state = "READ"
  <2>1. xfer[m].rd /\ pos < xfer[m].len /\ wire = Read(m, pos + 1, pos + 1 = xfer[m].len)
    BY <1>2, <1>4 DEF WireAgrees
  <2>2. PosNow = pos + 1 /\ rx' = rx \cup {<<<<m, pos + 1>>, rxr>>}
    BY <1>1, <1>4 DEF PosNow, Stored
  <2>3. wire.op = "read" /\ wire.msg = m /\ wire.byte = pos + 1
    BY <2>1, OpFacts
  <2>4. rxr = <<m, pos + 1>>
    BY <1>2, <2>3 DEF BusAgrees
  <2>5. <<m, pos + 1>> \in ReadSlots(xfer) /\ <<m, pos + 1>> \in Slot
    <3>1. pos + 1 \in 1 .. xfer[m].len /\ pos + 1 \in Nat
      BY <1>3, <2>1
    <3> QED
      BY <1>2, <1>3, <2>1, <3>1, ReadSlotFacts DEF Slot
  <2>6. \A s \in rx' : s[1] = s[2] /\ s[1] \in ReadSlots(xfer)
    BY <2>2, <2>4, <2>5 DEF StoredSoFar, BytesInPlace
  <2>7. ASSUME NEW s \in ReadSlots(xfer), s[1] < m \/ (s[1] = m /\ s[2] <= PosNow)
        PROVE  <<s, s>> \in rx'
    <3>1. s = <<s[1], s[2]>> /\ s[1] \in Nat /\ s[2] \in Nat
      <4>1. s = <<s[1], s[2]>> /\ s[1] \in 1 .. Len(xfer) /\ s[2] \in 1 .. xfer[s[1]].len
        BY <1>3, ReadSlotFacts
      <4>2. xfer[s[1]].len \in Nat /\ Len(xfer) \in Nat
        BY <1>3, <4>1, MessageFacts
      <4> QED
        BY <4>1, <4>2
    <3>2. CASE s[1] < m \/ (s[1] = m /\ s[2] <= pos)
      BY <3>2, <2>2, <1>2 DEF StoredSoFar, Active
    <3>3. CASE s[1] = m /\ s[2] = pos + 1
      BY <3>1, <3>3, <2>2, <2>4
    <3> QED
      BY <3>1, <3>2, <3>3, <2>2, <2>7, <1>3
  <2>8. rx' \in SUBSET (Slot \X Slot)
    BY <2>2, <2>4, <2>5 DEF TypeOK
  <2> QED
    BY <1>1, <1>2, <1>3, <2>1, <2>2, <2>3, <2>6, <2>7, <2>8
<1>5. CASE state = "WRITE"
  <2>1. pos \in 1 .. xfer[m].len /\ wire = Write(m, pos) /\ PosNow = pos /\ rx' = rx
    BY <1>1, <1>2, <1>5 DEF WireAgrees, PosNow, Stored
  <2> QED
    BY <1>1, <1>2, <1>3, <1>5, <1>2a, <2>1, OpFacts DEF TypeOK, StoredSoFar, BytesInPlace, Active
<1>6. CASE state = "START"
  <2>1. /\ pos = 0 /\ PosNow = 0 /\ rx' = rx
        /\ wire = IF xfer[m].ten THEN Addr2(m) ELSE Start(m)
    BY <1>1, <1>2, <1>6 DEF WireAgrees, PosNow, Stored
  <2>2. wire.msg = m /\ wire.op \in {"start", "addr2"} /\ AddressSent(xfer, wire)
    BY <2>1, OpFacts DEF AddressSent
  <2> QED
    BY <1>1, <1>2, <1>3, <1>6, <1>2a, <2>1, <2>2 DEF TypeOK, StoredSoFar, BytesInPlace, Active
<1> QED
  BY <1>1, <1>4, <1>5, <1>6

(* Sending the command for byte p + 1 of message k keeps the agreement. *)
LEMMA NextByteInv ==
    ASSUME IInv, Moved,
           NEW k \in 1 .. Len(xfer), NEW p \in Nat, p < xfer[k].len,
           NextByte(k, p), m' = k, nmsgs' = Len(xfer) - k + 1,
           \A s \in ReadSlots(xfer) :
              s[1] < k \/ (s[1] = k /\ s[2] <= p) => <<s, s>> \in rx'
    PROVE  IInv'
<1> USE DEF IInv
<1>1. /\ pc' = "check" /\ ret' = "0" /\ tip' = TRUE /\ state' = Direction(k)
      /\ UNCHANGED <<stopping, bus, nack, rxr, xfer, stat, left, result>>
  BY DEF NextByte, PollReturns, Issue, Moved
<1>2. /\ ~ al' /\ ~ tip /\ bus = "ours" /\ ~ stopping /\ result = "none"
  BY MovedFacts DEF NextByte, Issue
<1>3. xfer \in Transfers /\ Len(xfer) \in Nat /\ k \in Nat /\ xfer[k].len \in Nat
  BY MessageFacts DEF TypeOK
<1>4. \/ /\ xfer[k].rd /\ state' = "READ" /\ pos' = p
         /\ wire' = Read(k, p + 1, p + 1 = xfer[k].len)
      \/ /\ ~ xfer[k].rd /\ state' = "WRITE" /\ pos' = p + 1
         /\ wire' = Write(k, p + 1)
  BY <1>1 DEF NextByte, Direction, LastByte, Issue
<1>5. TypeOK'
  <2>1. wire' \in Command
    <3>1. (p + 1 = xfer[k].len) \in BOOLEAN /\ p + 1 \in Nat
      OBVIOUS
    <3> QED
      BY <3>1, <1>3, <1>4, CommandFacts
  <2>2. al' \in BOOLEAN
    BY Zenon DEF NextByte, Issue
  <2>3. state' \in States /\ pos' \in Nat /\ nmsgs' \in Nat
    BY <1>3, <1>4 DEF States
  <2>4. rx' \in SUBSET (Slot \X Slot)
    BY MovedFacts
  <2> QED
    BY <1>1, <1>3, <2>1, <2>2, <2>3, <2>4 DEF TypeOK, HwTypeOK, PCs
<1>6. Active'
  BY <1>1, <1>4 DEF Active
<1>2a. Place'
  BY <1>1, <1>2, <1>4, <1>6 DEF Place, Active
<1>8. WireAgrees'
  BY <1>1, <1>3, <1>4 DEF WireAgrees
<1>9. BusAgrees'
  BY <1>1, <1>2, <1>4, OpFacts DEF BusAgrees
<1>10. StatusAgrees'
  BY <1>1 DEF StatusAgrees
<1>11. StoredSoFar'
  <2>1. BytesInPlace'
    BY <1>1, MovedFacts DEF BytesInPlace
  <2>2. ASSUME NEW s \in ReadSlots(xfer), s[1] < m' \/ (s[1] = m' /\ s[2] <= pos')
        PROVE  <<s, s>> \in rx'
    <3>1. s[1] \in Nat /\ s[2] \in Nat /\ xfer[s[1]].rd
      <4>1. s[1] \in 1 .. Len(xfer) /\ s[2] \in 1 .. xfer[s[1]].len /\ xfer[s[1]].rd
        BY <1>3, ReadSlotFacts
      <4>2. xfer[s[1]].len \in Nat
        BY <1>3, <4>1, MessageFacts
      <4> QED
        BY <1>3, <4>1, <4>2
    <3>2. s[1] < k \/ (s[1] = k /\ s[2] <= p)
      BY <1>4, <2>2, <3>1
    <3> QED
      BY <3>2
  <2> QED
    BY <1>1, <1>2, <2>1, <2>2 DEF StoredSoFar, OkIsComplete
<1> QED
  BY <1>5, <1>2a, <1>8, <1>9, <1>10, <1>11

(* Another byte of the same message. *)
LEMMA ByteInv == IInv /\ PollByte => IInv'
<1> SUFFICES ASSUME IInv, PollByte PROVE IInv'
  OBVIOUS
<1>1. Moved /\ NextByte(m, PosNow) /\ m' = m /\ nmsgs' = nmsgs
  BY DEF PollByte
<1>2. /\ m \in 1 .. Len(xfer) /\ nmsgs = Len(xfer) - m + 1
      /\ PosNow \in 0 .. xfer[m].len /\ ~ PosNow >= xfer[m].len
      /\ xfer[m].len \in Nat
  BY <1>1, MovedFacts, MessageFacts DEF PollByte, MessageDone, IInv, TypeOK
<1>3. PosNow \in Nat /\ PosNow < xfer[m].len
  BY <1>2
<1>4. \A s \in ReadSlots(xfer) :
        s[1] < m \/ (s[1] = m /\ s[2] <= PosNow) => <<s, s>> \in rx'
  BY <1>1, MovedFacts
<1> QED
  BY <1>1, <1>2, <1>3, <1>4, NextByteInv

(* What is stored when message m is over: all of it. *)
LEMMA MessageDoneFacts ==
    ASSUME IInv, Moved, MessageDone(PosNow)
    PROVE  /\ PosNow = xfer[m].len
           /\ EndsMessage(xfer, wire)
           /\ \A s \in ReadSlots(xfer) : s[1] < m + 1 => <<s, s>> \in rx'
<1>1. /\ xfer \in Transfers /\ m \in 1 .. Len(xfer) /\ m \in Nat
      /\ xfer[m].len \in Nat /\ Len(xfer) \in Nat
  BY MovedFacts, MessageFacts DEF IInv, TypeOK
<1>2. PosNow = xfer[m].len
  BY <1>1, MovedFacts DEF MessageDone
<1>3. EndsMessage(xfer, wire)
  BY <1>1, <1>2, MovedFacts DEF EndsMessage
<1>4. ASSUME NEW s \in ReadSlots(xfer), s[1] < m + 1 PROVE <<s, s>> \in rx'
  <2>1. s[1] \in 1 .. Len(xfer) /\ s[2] \in 1 .. xfer[s[1]].len
    BY <1>1, ReadSlotFacts
  <2>2. s[1] < m \/ (s[1] = m /\ s[2] <= PosNow)
    BY <1>1, <1>2, <1>4, <2>1
  <2> QED
    BY <2>2, MovedFacts
<1> QED
  BY <1>2, <1>3, <1>4

(* On to the next message, after a START or without one. *)
LEMMA NextMessageInv == IInv /\ PollNextMessage => IInv'
<1> SUFFICES ASSUME IInv, PollNextMessage PROVE IInv'
  OBVIOUS
<1>1. /\ Moved /\ MessageDone(PosNow) /\ nmsgs' = nmsgs - 1 /\ m' = m + 1 /\ nmsgs' # 0
      /\ UNCHANGED xfer
  BY DEF PollNextMessage, Moved
<1>2. /\ xfer \in Transfers /\ m \in 1 .. Len(xfer) /\ nmsgs = Len(xfer) - m + 1
      /\ Len(xfer) \in Nat
  BY <1>1, MovedFacts, MessageFacts DEF IInv, TypeOK
<1>3. m + 1 \in 1 .. Len(xfer) /\ m + 1 \in 2 .. Len(xfer) /\ nmsgs' = Len(xfer) - (m + 1) + 1
  BY <1>1, <1>2
<1>4. \A s \in ReadSlots(xfer) :
        s[1] < m + 1 \/ (s[1] = m + 1 /\ s[2] <= 0) => <<s, s>> \in rx'
  <2> SUFFICES ASSUME NEW s \in ReadSlots(xfer),
                      s[1] < m + 1 \/ (s[1] = m + 1 /\ s[2] <= 0)
               PROVE  <<s, s>> \in rx'
    OBVIOUS
  <2>1. s[1] \in 1 .. Len(xfer) /\ s[2] \in 1 .. xfer[s[1]].len
    BY <1>2, ReadSlotFacts
  <2>2. xfer[s[1]].len \in Nat
    BY <1>2, <2>1, MessageFacts
  <2>3. s[1] < m + 1
    BY <2>1, <2>2
  <2> QED
    BY <1>1, <2>3, MessageDoneFacts
<1>5. CASE xfer[m + 1].nostart /\ NextByte(m + 1, 0)
  <2>1. 0 < xfer[m + 1].len
    BY <1>2, <1>3, <1>5, MessageFacts
  <2> QED
    BY <1>1, <1>3, <1>4, <1>5, <2>1, NextByteInv
<1>6. CASE /\ ~ xfer[m + 1].nostart /\ state' = "ADDR" /\ pos' = 0
           /\ PollReturns("0") /\ UNCHANGED hw
  <2> USE DEF IInv
  <2>1. /\ pc' = "check" /\ ret' = "0" /\ UNCHANGED <<stat, left, result, hw>>
    BY <1>6 DEF PollReturns
  <2>2. Active'
    BY <2>1, <1>6 DEF Active
  <2>3. TypeOK'
    BY <1>1, <1>2, <1>3, <1>6, <2>1, MovedFacts DEF TypeOK, HwTypeOK, hw, PCs, States
  <2>4. Place'
    BY <1>1, <1>3, <1>6, <2>1, <2>2, MovedFacts DEF Place, Active
  <2>5. WireAgrees'
    <3>1. /\ wire' = wire /\ wire.msg = m /\ wire.op # "stop" /\ EndsMessage(xfer, wire)
          /\ ~ tip /\ tip' = tip /\ nack' = nack /\ (nack => wire.op = "read")
      BY <1>1, <2>1, MovedFacts, MessageDoneFacts DEF hw
    <3> QED
      BY <1>1, <1>2, <1>6, <3>1 DEF WireAgrees
  <2>6. BusAgrees'
    BY <2>1 DEF BusAgrees, hw
  <2>7. StatusAgrees'
    BY <2>1 DEF StatusAgrees
  <2>8. StoredSoFar'
    <3>1. BytesInPlace'
      BY <1>1, MovedFacts DEF BytesInPlace
    <3> QED
      BY <1>1, <1>4, <1>6, <2>1, <3>1, MovedFacts DEF StoredSoFar, OkIsComplete
  <2> QED
    BY <2>3, <2>4, <2>5, <2>6, <2>7, <2>8
<1> QED
  BY <1>5, <1>6 DEF PollNextMessage

(* The end: everything is stored, STOP is sent. *)
LEMMA DoneInv == IInv /\ PollDone => IInv'
<1> SUFFICES ASSUME IInv, PollDone PROVE IInv'
  OBVIOUS
<1> USE DEF IInv
<1>1. /\ Moved /\ MessageDone(PosNow) /\ nmsgs' = nmsgs - 1 /\ m' = m + 1 /\ nmsgs' = 0
      /\ pos' = 0 /\ state' = "DONE" /\ wire' = Stop /\ stopping' = TRUE
      /\ pc' = "check" /\ ret' = "0"
      /\ UNCHANGED <<xfer, tip, bus, al, nack, rxr, stat, left, result>>
  BY DEF PollDone, Moved, IssueStop, PollReturns
<1>2. /\ xfer \in Transfers /\ m \in 1 .. Len(xfer) /\ nmsgs = Len(xfer) - m + 1
      /\ Len(xfer) \in Nat /\ ~ tip /\ bus = "ours" /\ result = "none"
  BY <1>1, MovedFacts, MessageFacts DEF TypeOK
<1>3. m' = Len(xfer) + 1
  BY <1>1, <1>2
<1>4. TypeOK'
  BY <1>1, <1>2, CommandFacts, MovedFacts DEF TypeOK, HwTypeOK, PCs, States
<1>5. Place' /\ WireAgrees' /\ BusAgrees' /\ StatusAgrees'
  BY <1>1, <1>2, <1>3, OpFacts DEF Place, WireAgrees, Active, BusAgrees, StatusAgrees
<1>6. StoredSoFar'
  <2>1. BytesInPlace'
    BY <1>1, MovedFacts DEF BytesInPlace
  <2>2. ASSUME NEW s \in ReadSlots(xfer) PROVE <<s, s>> \in rx'
    <3>1. s[1] < m + 1
      BY <1>2, <1>3, <1>1, ReadSlotFacts
    <3> QED
      BY <1>1, <3>1, MessageDoneFacts
  <2> QED
    BY <1>1, <1>2, <2>1, <2>2 DEF StoredSoFar, OkIsComplete
<1> QED
  BY <1>4, <1>5, <1>6

LEMMA NextInv == IInv /\ [Next]_vars => IInv'
<1>1. IInv /\ UNCHANGED vars => IInv'
  BY DEF IInv, TypeOK, HwTypeOK, Place, WireAgrees, Active, BusAgrees, StatusAgrees,
         StoredSoFar, BytesInPlace, OkIsComplete, vars, hw, drv, call
<1> QED
  BY <1>1, HardwareInv, XferInv, LoopInv, ReturnInv, FailInv, AddressInv, ByteInv,
     NextMessageInv, DoneInv DEF Next, Driver, Poll

-----------------------------------------------------------------------------
(* Theorems. *)

(* The driver and the controller stay in agreement, in every state that   *)
(* can be reached.                                                        *)
THEOREM Agreement == Spec => []IInv
<1> QED
  BY InitInv, NextInv, PTL DEF Spec

(* Every variable keeps its type; in particular nmsgs never goes below 0  *)
(* and the deadline never lies more than a second ahead.                  *)
THEOREM TypeCorrect == Spec => []TypeOK
<1>1. IInv => TypeOK
  BY DEF IInv
<1> QED
  BY <1>1, Agreement, PTL

(* i2c->pos stays inside the buffer it points into, and bytes that are    *)
(* read arrive where they belong.                                         *)
THEOREM BuffersSafe == Spec => []BytesInPlace
<1>1. IInv => BytesInPlace
  BY DEF IInv, StoredSoFar
<1> QED
  BY <1>1, Agreement, PTL

(* A transfer that reports success has filled all that was to be read.    *)
THEOREM OkMeansComplete == Spec => []OkIsComplete
<1>1. IInv => OkIsComplete
  BY DEF IInv, StoredSoFar
<1> QED
  BY <1>1, Agreement, PTL

(* The steps that leave the wires and the flags of the controller alone,  *)
(* and the steps that write a command.                                    *)
Quiet  == Xfer \/ LoopHead \/ TimeOut \/ Check \/ Tick \/ ReadStatus \/ PollBusy
Writes == PollArbLost \/ PollNack \/ PollAddr \/ PollAddr10 \/ PollByte
             \/ PollNextMessage \/ PollDone

LEMMA QuietFacts == Quiet => UNCHANGED <<wire, al, tip, stopping, nack>>
  BY DEF Quiet, Xfer, LoopHead, TimeOut, Check, Tick, ReadStatus, PollBusy, hw

LEMMA WritesFacts == IInv /\ Writes => pc = "act" /\ ~ stat.tip
<1> SUFFICES ASSUME IInv, Writes PROVE pc = "act" /\ ~ stat.tip
  OBVIOUS
<1>1. Moved => pc = "act" /\ ~ stat.tip
  BY MovedFacts
<1> QED
  BY <1>1 DEF Writes, PollArbLost, PollNack, PollAddr, PollAddr10, PollByte,
              PollNextMessage, PollDone, Proceed

LEMMA NextSplit == Next => Quiet \/ Writes \/ Hardware
  BY DEF Next, Driver, Poll, Quiet, Writes

LEMMA HardwareFacts == Hardware => wire' = wire /\ (al => al') /\ pc' = pc
  BY DEF Hardware, HwNext, Complete, LoseArbitration, EndStop, OtherMaster, call

(* What is counted as a command written is one of the steps that do so.   *)
LEMMA QuietWritesNone == Quiet => ~ CommandWritten
<1> SUFFICES ASSUME Quiet, pc = "act", pc' = "check" PROVE ret' = "EBUSY"
  BY QuietFacts DEF CommandWritten
<1> QED
  BY DEF Quiet, Xfer, LoopHead, TimeOut, Check, Tick, ReadStatus, PollBusy, PollReturns

(* A step that writes a command finds the controller done with the last,  *)
(* but for the STOP that a lost arbitration has every call write.         *)
LEMMA OneCommandStep ==
    IInv /\ Next /\ CommandWritten =>
        /\ ~ tip
        /\ stopping => state = "INIT" /\ al /\ wire' = Stop
<1> SUFFICES ASSUME IInv, Next, CommandWritten
             PROVE  ~ tip /\ (stopping => state = "INIT" /\ al /\ wire' = Stop)
  OBVIOUS
<1>1. Writes
  BY NextSplit, QuietWritesNone, HardwareFacts DEF CommandWritten
<1>2. pc = "act" /\ ~ stat.tip
  BY <1>1, WritesFacts
<1>3. ~ tip
  BY <1>2, ActFacts
<1>4. stopping => state = "INIT" /\ al /\ wire' = Stop
  <2>1. CASE PollArbLost
    <3>1. wire' = Stop /\ stat.al
      BY <2>1 DEF PollArbLost, ArbLost, Fail, IssueStop
    <3>2. al /\ Active
      BY <1>2, <3>1, ActFacts
    <3>3. stopping => wire.op = "stop"
      BY OpFacts DEF IInv, BusAgrees
    <3>4. state # "INIT" => wire.op # "stop"
      BY <3>2, OpFacts DEF IInv, TypeOK, States, WireAgrees, Active
    <3> QED
      BY <3>1, <3>2, <3>3, <3>4
  <2>2. CASE PollNack
    <3>1. state \in {"START", "WRITE"} /\ Active
      BY <1>2, <2>2, ActFacts DEF PollNack, Proceed
    <3>2. wire.op # "stop"
      BY <3>1, OpFacts DEF IInv, WireAgrees
    <3> QED
      BY <3>2, OpFacts DEF IInv, BusAgrees
  <2>3. CASE PollAddr
    <3>1. ~ stat.al /\ (state = "INIT" => ~ BusBusy)
      BY <2>3 DEF PollAddr, Proceed, ArbLost
    <3> QED
      BY <1>2, <3>1, ActFacts
  <2>4. CASE PollAddr10
    <3>1. ~ stat.al /\ state = "ADDR10"
      BY <2>4 DEF PollAddr10, Proceed, ArbLost
    <3> QED
      BY <1>2, <3>1, ActFacts
  <2>5. CASE PollByte \/ PollNextMessage \/ PollDone
    <3>1. Moved
      BY <2>5 DEF PollByte, PollNextMessage, PollDone
    <3> QED
      BY <3>1, MovedFacts
  <2> QED
    BY <1>1, <2>1, <2>2, <2>3, <2>4, <2>5 DEF Writes
<1> QED
  BY <1>3, <1>4

(* The driver never gives the controller a command before it is done with *)
(* the last one, STOP included; only a STOP may follow a STOP under way,  *)
(* in a call that finds arbitration lost.                                 *)
THEOREM OneCommand == Spec => OneCommandAtATime
<1> QED
  BY OneCommandStep, Agreement, PTL DEF Spec, OneCommandAtATime

(* After a byte that was refused the driver sends STOP.                   *)
THEOREM NackStops == Spec => NackIsFollowedByStop
<1>1. IInv /\ [Next]_vars =>
        [pc = "act" /\ state # "INIT" /\ Refused /\ wire' # wire => wire' = Stop]_vars
  <2> SUFFICES ASSUME IInv, Next, pc = "act", state # "INIT", Refused, wire' # wire
               PROVE  wire' = Stop
    OBVIOUS
  <2>1. Writes
    BY NextSplit, QuietFacts, HardwareFacts
  <2>2. pc = "act" /\ ~ stat.tip
    BY <2>1, WritesFacts
  <2>3. stat.nack = nack /\ Active
    BY <2>2, ActFacts
  <2>4. CASE PollArbLost \/ PollNack \/ PollDone
    BY <2>4 DEF PollArbLost, PollNack, PollDone, Fail, IssueStop
  <2>5. CASE PollByte \/ PollNextMessage
    <3>1. Moved /\ wire.op # "read"
      BY <2>5 DEF PollByte, PollNextMessage, Refused
    <3>2. state # "READ"
      BY <2>3, <3>1, OpFacts DEF IInv, WireAgrees
    <3> QED
      BY <2>3, <3>1, <3>2 DEF Moved, Nacked, Refused
  <2>6. CASE PollAddr10
    <3>1. xfer[m].ten /\ wire = Start(m)
      BY <2>6, <2>3 DEF PollAddr10, Proceed, IInv, WireAgrees
    <3> QED
      BY <3>1, OpFacts DEF Refused
  <2>7. CASE PollAddr
    <3>1. state = "ADDR"
      BY <2>7 DEF PollAddr, Proceed
    <3>2. nack => wire.op = "read"
      BY <2>3, <3>1 DEF IInv, WireAgrees
    <3> QED
      BY <3>2 DEF Refused
  <2> QED
    BY <2>1, <2>4, <2>5, <2>6, <2>7 DEF Writes
<1> QED
  BY <1>1, Agreement, PTL DEF Spec, NackIsFollowedByStop

(* Arbitration that is lost once is lost for good: the only command that  *)
(* clears the flag is the START that the flag keeps from being sent.      *)
THEOREM ArbLostStays == Spec => ArbLostIsForever
<1>1. IInv /\ [Next]_vars => [al => al']_vars
  <2> SUFFICES ASSUME IInv, Next, al PROVE al'
    OBVIOUS
  <2>1. CASE Quiet \/ Hardware
    BY <2>1, QuietFacts, HardwareFacts
  <2>2. CASE Writes
    <3>1. stat.al
      BY <2>2, WritesFacts, ActFacts
    <3>2. ~ Moved
      BY MovedFacts
    <3>3. PollArbLost \/ PollNack
      BY <2>2, <3>1, <3>2 DEF Writes, PollAddr, PollAddr10, PollByte, PollNextMessage,
         PollDone, Proceed, ArbLost
    <3> QED
      BY <3>3 DEF PollArbLost, PollNack, Fail, IssueStop
  <2> QED
    BY <2>1, <2>2, NextSplit
<1> QED
  BY <1>1, Agreement, PTL DEF Spec, ArbLostIsForever

(* A bus that a timeout has left held, or lost: no call starts again.  The *)
(* status a call reads shows BUSY or ARBLOST, and INIT is as far as it     *)
(* comes.                                                                  *)
NoReturn ==
    /\ result # "ok"
    /\ al \/ (bus = "ours" /\ ~ stopping)
    /\ pc # "idle" => state \in {"INIT", "ERROR"}

LEMMA NoReturnStep == IInv /\ NoReturn /\ [Next]_vars => NoReturn'
<1> SUFFICES ASSUME IInv, NoReturn, [Next]_vars PROVE NoReturn'
  OBVIOUS
<1>1. CASE UNCHANGED vars
  BY <1>1 DEF NoReturn, vars, hw, drv, call
<1>2. CASE Hardware
  BY <1>2 DEF NoReturn, Hardware, HwNext, Complete, LoseArbitration, EndStop, OtherMaster,
              drv, call
<1>3. CASE Xfer \/ LoopHead \/ Tick \/ ReadStatus \/ PollBusy \/ TimeOut
  BY <1>3 DEF NoReturn, Xfer, LoopHead, Tick, ReadStatus, PollBusy, PollReturns, TimeOut,
              hw, drv
<1>4. CASE Check
  <2>1. state = "ERROR" => ret # "ok"
    BY DEF IInv, TypeOK
  <2>2. state # "DONE"
    BY <1>4 DEF Check, NoReturn
  <2> QED
    BY <1>4, <2>1, <2>2 DEF Check, NoReturn, hw, drv
<1>5. CASE Writes
  <2>1. pc = "act" /\ ~ stat.tip
    BY <1>5, WritesFacts
  <2>2. Active /\ state = "INIT" /\ stat.al = al /\ (al \/ BusBusy)
    <3>1. Active /\ stat.al = al
      BY <2>1, ActFacts
    <3>2. state = "INIT"
      BY <2>1, <3>1 DEF NoReturn, Active
    <3>3. ~ stat.busy => bus # "ours"
      BY <2>1 DEF IInv, StatusAgrees
    <3> QED
      BY <3>1, <3>2, <3>3 DEF NoReturn, BusBusy
  <2>3. PollArbLost
    BY <1>5, <2>2 DEF Writes, PollAddr, PollAddr10, PollNack, PollByte, PollNextMessage,
                      PollDone, Moved, Proceed, ArbLost
  <2>4. state' = "ERROR" /\ UNCHANGED <<al, result>>
    BY <2>3 DEF PollArbLost, Fail, IssueStop, PollReturns
  <2>5. al
    BY <2>2, <2>3 DEF PollArbLost, ArbLost
  <2> QED
    BY <2>4, <2>5 DEF NoReturn
<1> QED
  BY <1>1, <1>2, <1>3, <1>4, <1>5, NextSplit DEF Quiet

(* A call that timed out with the bus in its hands sent no STOP, and no   *)
(* call of this adapter succeeds after it.                                *)
THEOREM TimeoutStrands == Spec => TimeoutStrandsBus
<1>1. Stranded => NoReturn
  BY DEF Stranded, NoReturn
<1>2. NoReturn => result # "ok"
  BY DEF NoReturn
<1> QED
  BY <1>1, <1>2, NoReturnStep, Agreement, PTL DEF Spec, TimeoutStrandsBus

-----------------------------------------------------------------------------
(* OcoresI2C implements I2CTransfer. *)

(* The promise speaks about commands in the same words. *)
LEMMA FollowsSame ==
    \A t, c, d : /\ Follows(t, c, d) <=> Promise!Follows(t, c, d)
                 /\ Completes(t, c) <=> Promise!Completes(t, c)
  BY DEF Follows, Completes, EndsMessage, AddressSent, Opening, Data, Start, Addr2, Write,
     Read, Promise!Follows, Promise!Completes, Promise!EndsMessage, Promise!AddressSent,
     Promise!Opening, Promise!Data, Promise!Start, Promise!Addr2, Promise!Write,
     Promise!Read

LEMMA InitRefines == Init => Promise!Init
  BY DEF Init, HwInit, Promise!Init, Phase, Stop, Promise!Stop

(* A step that changes neither the wires nor the call is no step of the   *)
(* promise.                                                               *)
LEMMA SilentRefines ==
    IInv /\ (LoopHead \/ Tick \/ ReadStatus \/ PollBusy \/ Hardware)
        => UNCHANGED Promise!vars
<1> SUFFICES ASSUME IInv, LoopHead \/ Tick \/ ReadStatus \/ PollBusy \/ Hardware
             PROVE  UNCHANGED <<xfer, Phase, wire, result>>
  BY DEF Promise!vars
<1>1. UNCHANGED <<xfer, wire, result, state>> /\ (pc = "idle" <=> pc' = "idle")
  BY HardwareFacts DEF LoopHead, Tick, ReadStatus, PollBusy, PollReturns, Hardware,
     hw, drv, call
<1> QED
  BY <1>1 DEF Phase

LEMMA CallRefines == IInv /\ Xfer => Promise!Call
  BY DEF Xfer, Promise!Call, Phase, hw

LEMMA ReturnRefines ==
    IInv /\ (TimeOut \/ Check) => Promise!Next \/ UNCHANGED Promise!vars
<1> SUFFICES ASSUME IInv, TimeOut \/ Check PROVE Promise!Next \/ UNCHANGED Promise!vars
  OBVIOUS
<1> USE DEF IInv, hw, drv
<1>1. CASE TimeOut
  <2>1. Active
    BY <1>1 DEF TimeOut, Place
  <2>2. Promise!GiveUp
    BY <1>1, <2>1 DEF TimeOut, Promise!GiveUp, Phase, Active
  <2> QED
    BY <2>2 DEF Promise!Next
<1>2. CASE Check /\ state \in {"DONE", "ERROR"}
  <2>1. Promise!Return
    BY <1>2 DEF Check, Place, Promise!Return, Phase
  <2> QED
    BY <2>1 DEF Promise!Next
<1>3. CASE Check /\ state \notin {"DONE", "ERROR"}
  BY <1>3 DEF Check, Phase, Promise!vars
<1> QED
  BY <1>1, <1>2, <1>3

LEMMA FailRefines == IInv /\ (PollArbLost \/ PollNack) => Promise!Abort
<1> SUFFICES ASSUME IInv, PollArbLost \/ PollNack PROVE Promise!Abort
  OBVIOUS
<1>1. /\ pc = "act" /\ ~ stat.tip /\ state' = "ERROR" /\ wire' = Stop /\ pc' = "check"
      /\ UNCHANGED <<xfer, result>>
  BY DEF PollArbLost, PollNack, Proceed, Fail, PollReturns, IssueStop
<1>2. Active
  BY <1>1, ActFacts
<1> QED
  BY <1>1, <1>2 DEF Promise!Abort, Promise!Stop, Stop, Phase, Active

(* The first START opens the transfer, a repeated one or the second       *)
(* address byte continues it.                                             *)
LEMMA AddressRefines == IInv /\ (PollAddr \/ PollAddr10) => Promise!Next
<1> SUFFICES ASSUME IInv, PollAddr \/ PollAddr10 PROVE Promise!Next
  OBVIOUS
<1>1. /\ pc = "act" /\ ~ stat.tip /\ ~ stat.al /\ pc' = "check"
      /\ state' \in {"ADDR10", "START"} /\ UNCHANGED <<xfer, result>>
  BY DEF PollAddr, PollAddr10, Proceed, Issue, PollReturns, ArbLost
<1>2. Active /\ ~ al /\ Phase' = "open"
  BY <1>1, ActFacts DEF Phase
<1>3. CASE PollAddr /\ state = "INIT"
  <2>1. wire = Stop /\ m = 1 /\ wire' = Start(m)
    BY <1>1, <1>2, <1>3, ActFacts DEF PollAddr, Issue, IInv, WireAgrees
  <2>2. Promise!Open
    BY <1>1, <1>2, <1>3, <2>1
       DEF Promise!Open, Phase, Promise!Stop, Stop, Promise!Start, Start
  <2> QED
    BY <2>2 DEF Promise!Next
<1>4. CASE PollAddr /\ state # "INIT"
  <2>1. state = "ADDR" /\ wire' = Start(m)
    BY <1>4 DEF PollAddr, Proceed, Issue
  <2>2. /\ m > 1 /\ m \in 1 .. Len(xfer) /\ ~ xfer[m].nostart /\ xfer \in Transfers
        /\ wire.msg = m - 1 /\ EndsMessage(xfer, wire)
    BY <1>2, <2>1 DEF IInv, WireAgrees, Place, TypeOK
  <2>3. wire.msg < Len(xfer) /\ wire.msg + 1 = m /\ Opening(xfer, wire.msg + 1) = Start(m)
    BY <2>2, MessageFacts DEF Opening
  <2>4. Follows(xfer, wire, wire')
    BY <2>1, <2>2, <2>3 DEF Follows
  <2>5. Promise!Continue
    BY <1>1, <1>2, <2>1, <2>4, FollowsSame DEF Promise!Continue, Phase
  <2> QED
    BY <2>5 DEF Promise!Next
<1>5. CASE PollAddr10
  <2>1. state = "ADDR10" /\ wire' = Addr2(m) /\ xfer[m].ten /\ wire = Start(m)
    BY <1>2, <1>5 DEF PollAddr10, Proceed, Issue, IInv, WireAgrees
  <2>2. Follows(xfer, wire, wire')
    BY <2>1, OpFacts DEF Follows
  <2>3. Promise!Continue
    BY <1>1, <1>2, <2>1, <2>2, FollowsSame DEF Promise!Continue, Phase
  <2> QED
    BY <2>3 DEF Promise!Next
<1> QED
  BY <1>3, <1>4, <1>5

(* The next byte, of this message or of the next one. *)
LEMMA ByteRefines ==
    ASSUME IInv, Moved,
           NEW k \in 1 .. Len(xfer), NEW p \in Nat, NextByte(k, p),
           p < xfer[k].len,
           \/ k = m /\ p = PosNow
           \/ k = m + 1 /\ p = 0 /\ xfer[k].nostart /\ EndsMessage(xfer, wire)
    PROVE  Promise!Next
<1>1. /\ pc' = "check" /\ state' \in {"READ", "WRITE"} /\ UNCHANGED <<xfer, result>>
  BY DEF NextByte, PollReturns, Direction, Moved
<1>2. wire' = Data(xfer, k, p + 1)
  BY DEF NextByte, Data, Direction, LastByte, Issue
<1>3. /\ xfer \in Transfers /\ Len(xfer) \in Nat /\ xfer[k].len \in Nat
      /\ m \in 1 .. Len(xfer) /\ wire.msg = m /\ Active /\ state \in {"START", "WRITE", "READ"}
  BY MovedFacts, MessageFacts DEF Moved, Proceed, IInv, TypeOK
<1>4. CASE k = m /\ p = PosNow
  <2>1. ASSUME PosNow = 0, AddressSent(xfer, wire)
        PROVE  Follows(xfer, wire, wire')
    <3>1. p = 0 /\ wire.msg = k /\ xfer[wire.msg].len > 0
      BY <1>3, <1>4, <2>1
    <3>2. p + 1 = 1
      BY <3>1
    <3>3. wire' = Data(xfer, wire.msg, 1)
      BY <1>2, <3>1, <3>2
    <3> QED
      BY <2>1, <3>1, <3>3 DEF Follows
  <2>2. ASSUME PosNow > 0, wire.op \in {"write", "read"}, wire.byte = PosNow
        PROVE  Follows(xfer, wire, wire')
    <3>1. p = wire.byte /\ wire.msg = k
      BY <1>3, <1>4, <2>2
    <3>2. wire' = Data(xfer, wire.msg, wire.byte + 1) /\ wire.byte < xfer[wire.msg].len
      BY <1>2, <3>1
    <3> QED
      BY <2>2, <3>2 DEF Follows
  <2>3. Follows(xfer, wire, wire')
    BY <2>1, <2>2, MovedFacts
  <2>4. Promise!Continue
    BY <1>1, <1>3, <2>3, FollowsSame DEF Promise!Continue, Phase, Active
  <2> QED
    BY <2>4 DEF Promise!Next
<1>5. CASE k = m + 1 /\ p = 0 /\ xfer[k].nostart /\ EndsMessage(xfer, wire)
  <2>1. wire' = Opening(xfer, wire.msg + 1) /\ wire.msg < Len(xfer)
    BY <1>2, <1>3, <1>5 DEF Opening
  <2>2. Follows(xfer, wire, wire')
    BY <1>5, <2>1 DEF Follows
  <2>3. Promise!Continue
    BY <1>1, <1>3, <2>2, FollowsSame DEF Promise!Continue, Phase, Active
  <2> QED
    BY <2>3 DEF Promise!Next
<1> QED
  BY <1>4, <1>5

LEMMA MovedRefines == IInv /\ (PollByte \/ PollNextMessage) =>
                        Promise!Next \/ UNCHANGED Promise!vars
<1> SUFFICES ASSUME IInv, PollByte \/ PollNextMessage
             PROVE  Promise!Next \/ UNCHANGED Promise!vars
  OBVIOUS
<1>1. Moved
  BY DEF PollByte, PollNextMessage
<1>2. /\ xfer \in Transfers /\ m \in 1 .. Len(xfer) /\ nmsgs = Len(xfer) - m + 1
      /\ Len(xfer) \in Nat /\ xfer[m].len \in Nat /\ PosNow \in 0 .. xfer[m].len
      /\ Active
  BY <1>1, MovedFacts, MessageFacts DEF IInv, TypeOK
<1>3. CASE PollByte
  <2>1. NextByte(m, PosNow) /\ PosNow \in Nat /\ PosNow < xfer[m].len
    BY <1>2, <1>3 DEF PollByte, MessageDone
  <2> QED
    BY <1>1, <1>2, <2>1, ByteRefines
<1>4. CASE PollNextMessage
  <2>1. MessageDone(PosNow) /\ nmsgs' = nmsgs - 1 /\ nmsgs' # 0
    BY <1>4 DEF PollNextMessage
  <2>2. EndsMessage(xfer, wire) /\ m + 1 \in 1 .. Len(xfer) /\ m + 1 \in 2 .. Len(xfer)
    BY <1>1, <1>2, <2>1, MessageDoneFacts
  <2>3. CASE xfer[m + 1].nostart /\ NextByte(m + 1, 0)
    <3>1. 0 < xfer[m + 1].len
      BY <1>2, <2>2, <2>3, MessageFacts
    <3> QED
      BY <1>1, <2>2, <2>3, <3>1, ByteRefines
  <2>4. CASE state' = "ADDR" /\ PollReturns("0") /\ UNCHANGED hw
    BY <1>1, <1>2, <2>4, MovedFacts
       DEF PollReturns, hw, Phase, Active, Promise!vars, Moved, Proceed
  <2> QED
    BY <1>4, <2>3, <2>4 DEF PollNextMessage
<1> QED
  BY <1>3, <1>4

LEMMA DoneRefines == IInv /\ PollDone => Promise!Finish
<1> SUFFICES ASSUME IInv, PollDone PROVE Promise!Finish
  OBVIOUS
<1>1. /\ Moved /\ MessageDone(PosNow) /\ nmsgs' = nmsgs - 1 /\ nmsgs' = 0
      /\ state' = "DONE" /\ wire' = Stop /\ pc' = "check" /\ UNCHANGED <<xfer, result>>
      /\ state \in {"START", "WRITE", "READ"}
  BY DEF PollDone, Moved, Proceed, IssueStop, PollReturns
<1>2. /\ m \in 1 .. Len(xfer) /\ nmsgs = Len(xfer) - m + 1 /\ xfer \in Transfers
      /\ Len(xfer) \in Nat /\ wire.msg = m /\ EndsMessage(xfer, wire) /\ pc = "act"
  BY <1>1, MovedFacts, MessageDoneFacts, MessageFacts DEF IInv, TypeOK
<1>3. Completes(xfer, wire)
  <2>1. wire.msg = Len(xfer)
    BY <1>1, <1>2
  <2> QED
    BY <1>2, <2>1 DEF Completes
<1> QED
  BY <1>1, <1>2, <1>3, FollowsSame DEF Promise!Finish, Phase, Promise!Stop, Stop

LEMMA NextRefines == IInv /\ [Next]_vars => [Promise!Next]_(Promise!vars)
<1> SUFFICES ASSUME IInv, [Next]_vars PROVE Promise!Next \/ UNCHANGED Promise!vars
  OBVIOUS
<1>1. CASE UNCHANGED vars
  BY <1>1 DEF vars, hw, drv, call, Promise!vars, Phase
<1>2. CASE Xfer
  BY <1>2, CallRefines DEF Promise!Next
<1>3. CASE PollArbLost \/ PollNack
  BY <1>3, FailRefines DEF Promise!Next
<1>4. CASE PollDone
  BY <1>4, DoneRefines DEF Promise!Next
<1>5. CASE LoopHead \/ Tick \/ ReadStatus \/ PollBusy \/ Hardware
  BY <1>5, SilentRefines
<1>6. CASE TimeOut \/ Check
  BY <1>6, ReturnRefines
<1>7. CASE PollAddr \/ PollAddr10
  BY <1>7, AddressRefines
<1>8. CASE PollByte \/ PollNextMessage
  BY <1>8, MovedRefines
<1> QED
  BY <1>1, <1>2, <1>3, <1>4, <1>5, <1>6, <1>7, <1>8 DEF Next, Driver, Poll

(* The polled driver keeps what I2CTransfer promises to callers: the order *)
(* of the commands, a START only after STOP, success only after the whole  *)
(* transfer.                                                               *)
THEOREM Implementation == Spec => ImplementsTransfer
<1> QED
  BY InitRefines, NextRefines, Agreement, PTL DEF Spec, Promise!Spec, ImplementsTransfer
=============================================================================
