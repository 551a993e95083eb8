--------------------------- MODULE OcoresIrq_proofs ---------------------------
(***************************************************************************)
(* Theorems about OcoresIrq, for every set of transfers and every Budget.  *)
(*                                                                         *)
(* Caller and handler share struct ocores_i2c without a lock.  What keeps  *)
(* them apart is that only one of controller, interrupt and handler has    *)
(* the next move (Turn), and that a call comes back after the last of      *)
(* them.  Both end with the first call that comes back too soon: hence     *)
(* most of the invariant is about hurt = {}.  While a call polls, it is    *)
(* the invariant of OcoresI2C_proofs, whose lemmas do the work.            *)
(***************************************************************************)
EXTENDS OcoresIrq, OcoresI2C_proofs

IrqPCs  == {"mode", "start", "wait", "sleep"}
Waiting == pc \in {"wait", "sleep"}
Steps   == {"loop", "read", "act", "check"}

(* What holds whatever has been left behind: a channel with a handler     *)
(* never polls, one without is never interrupted.                         *)
Channel ==
    /\ handler \in BOOLEAN /\ pending \in BOOLEAN
    /\ isr \in {"idle", "act"} /\ alive \in BOOLEAN
    /\ hurt \subseteq {"late", "early", "odd"}
    /\ pc \in PCs \cup IrqPCs
    /\ ret # "ok"
    /\ ~ handler => ~ pending /\ isr = "idle" /\ ~ alive /\ StatusAgrees
    /\ handler => pc \notin Steps

(* One of caller, controller, interrupt and handler has the next move on  *)
(* a channel with a handler, in an odd call too, until a call comes back  *)
(* too soon.                                                              *)
Baton ==
    handler /\ hurt \subseteq {"odd"} =>
        /\ pc \in {"idle", "mode", "start"} =>
              ~ tip /\ ~ stopping /\ ~ pending /\ isr = "idle"
        /\ pc \in {"mode", "start"} => state \in {"INIT", "START"}
        /\ pending => Waiting /\ ~ tip /\ ~ stopping
        /\ isr = "act" => Waiting /\ alive /\ ~ tip /\ ~ stopping /\ ~ pending
        /\ Waiting => IF state \in Over THEN ~ tip ELSE ~ stopping

IrqTypes ==
    /\ HwTypeOK
    /\ xfer \in Transfers
    /\ m \in Nat /\ pos \in Nat /\ nmsgs \in Nat
    /\ state \in States
    /\ rx \in SUBSET (Slot \X Slot)
    /\ stat \in StatusType
    /\ ret \in {"0", "EBUSY", "EAGAIN", "ENXIO"}
    /\ left \in 0 .. Budget
    /\ result \in Results \cup {"EIO"}

(* A channel that polls, and one between calls that may poll. *)
PolledAgrees ==
    ~ handler /\ pc \in PCs =>
        /\ IInv
        /\ pc = "check" /\ state \in Over => wire = Stop
        /\ pc \in Steps /\ state = "INIT" => ~ stopping

(* When no call is under way on the wires, nothing is. *)
Between ==
    pc \in {"idle", "mode", "start"} =>
        wire = Stop /\ ~ stopping /\ ~ pending /\ isr = "idle"

Called ==
    pc \in {"mode", "start"} =>
        /\ m = 1 /\ pos = 0 /\ nmsgs = Len(xfer) /\ rx = {} /\ result = "none"
        /\ state \in {"INIT", "START"}
        /\ pc = "start" => state = "START"

(* The place in the message array of a call that waits. *)
WaitPlace ==
    Waiting =>
        /\ result = "none" /\ state \in {"START", "WRITE", "READ"} \cup Over
        /\ state \notin Over => m \in 1 .. Len(xfer) /\ nmsgs = Len(xfer) - m + 1
        /\ state = "DONE" => m = Len(xfer) + 1
        /\ ~ handler => state = "START"

(* The latest command on the wires is the one of that place. *)
WaitWire ==
    Waiting =>
        /\ state = "START" => pos = 0 /\ wire = Start(m)
        /\ state = "WRITE" => /\ ~ xfer[m].rd /\ pos \in 1 .. xfer[m].len
                              /\ wire = Write(m, pos)
        /\ state = "READ"  => /\ xfer[m].rd /\ pos < xfer[m].len
                              /\ wire = Read(m, pos + 1, pos + 1 = xfer[m].len)
        /\ state \in Over  => wire = Stop
        /\ state \notin Over => ~ stopping

(* While an interrupt is on its way, and while the handler acts, the       *)
(* controller does nothing; the status the handler has read is still true. *)
Turn ==
    /\ pending => Waiting /\ ~ tip /\ ~ stopping
    /\ isr = "act" => /\ Waiting /\ alive /\ ~ tip /\ ~ stopping /\ ~ pending
                      /\ istat.al = al /\ istat.nack = nack

WaitStored ==
    /\ BytesInPlace /\ OkIsComplete
    /\ Waiting /\ state # "ERROR" =>
          \A s \in ReadSlots(xfer) :
              s[1] < m \/ (s[1] = m /\ s[2] <= pos) => <<s, s>> \in rx

Sound ==
    /\ IrqTypes /\ PolledAgrees /\ Between /\ Called
    /\ WaitPlace /\ WaitWire /\ BusAgrees /\ Turn /\ WaitStored

IrqIInv == Channel /\ Baton /\ (hurt = {} => Sound)

-----------------------------------------------------------------------------
(* What the polled branch does to the call. *)
LEMMA PollSteps ==
    ASSUME Poll
    PROVE  pc = "act" /\ pc' = "check" /\ ret' \in {"0", "EBUSY", "EAGAIN", "ENXIO"}
  BY DEF Poll, PollBusy, PollArbLost, PollAddr, PollAddr10, PollNack, PollByte,
         PollNextMessage, PollDone, Moved, Proceed, Fail, NextByte, PollReturns

LEMMA DriverSteps ==
    ASSUME Driver, ret # "ok"
    PROVE  pc \in Steps /\ pc' \in PCs /\ ret' # "ok"
<1>1. CASE Poll
  BY <1>1, PollSteps DEF Steps, PCs
<1>2. CASE LoopHead \/ TimeOut \/ Check \/ ReadStatus
  BY <1>2 DEF LoopHead, TimeOut, Check, ReadStatus, Steps, PCs
<1> QED
  BY <1>1, <1>2 DEF Driver

LEMMA ControllerIsHardware == Controller \/ Other => Hardware
  BY DEF Controller, Other, Hardware, HwNext, Complete, LoseArbitration, EndStop,
         OtherMaster, call

(* The status that was read, when hardware moves and when a poll acts. *)
LEMMA StatusKept ==
    ASSUME StatusAgrees, Hardware \/ Driver \/ Tick
    PROVE  StatusAgrees'
<1>1. CASE Hardware
  BY <1>1 DEF StatusAgrees, Hardware, HwNext, Complete, LoseArbitration, EndStop,
              OtherMaster, call
<1>2. CASE Poll
  BY <1>2, PollSteps DEF StatusAgrees
<1>3. CASE ReadStatus
  <2>1. /\ stat'.tip = tip /\ stat'.al = al /\ stat'.nack = nack
        /\ stat'.busy = (bus # "free") /\ UNCHANGED <<tip, al, nack, bus>>
    BY <1>3 DEF ReadStatus, Status, hw
  <2> QED
    BY <2>1 DEF StatusAgrees
<1>4. CASE LoopHead \/ TimeOut \/ Check \/ Tick
  BY <1>4 DEF LoopHead, TimeOut, Check, Tick, StatusAgrees, hw
<1> QED
  BY <1>1, <1>2, <1>3, <1>4 DEF Driver

-----------------------------------------------------------------------------
(* What holds whatever has been left behind. *)

LEMMA InitChannel == IrqInit => Channel
  BY DEF IrqInit, Init, Channel, PCs, IrqPCs, Steps, StatusAgrees

LEMMA HurtStep ==
    ASSUME Channel, Noting
    PROVE  /\ hurt' \subseteq {"late", "early", "odd"}
           /\ hurt' = {} => hurt = {}
  BY DEF Channel, Noting, Leavings

LEMMA CallerChannel ==
    ASSUME Channel, Noting, IrqXfer \/ Caller
    PROVE  Channel'
<1> USE DEF Channel
<1>1. CASE IrqXfer
  <2> QED
    BY <1>1, HurtStep DEF IrqXfer, irq, IrqPCs, Steps, StatusAgrees
<1>2. CASE ChooseMode
  <2>1. handler => pc' = "start"
    BY <1>2 DEF ChooseMode, UseIrq
  <2>2. pc' \in {"loop", "start"}
    BY <1>2 DEF ChooseMode
  <2> QED
    BY <1>2, <2>1, <2>2, HurtStep
       DEF ChooseMode, Noting, irq, hw, drv, PCs, IrqPCs, Steps, StatusAgrees
<1>3. CASE IrqStart \/ IrqReturn \/ Sleep \/ Expire
  <2>1. /\ pc \in {"start", "wait", "sleep"} /\ pc' \in {"wait", "sleep", "idle"}
        /\ UNCHANGED <<handler, pending, isr, state, ret>>
    BY <1>3 DEF IrqStart, IrqReturn, Sleep, Expire, irq, drv
  <2>2. hurt' \subseteq {"late", "early", "odd"}
    BY HurtStep
  <2>3. alive' \in BOOLEAN /\ (~ alive => ~ alive')
    <3>1. CASE IrqReturn
      BY <3>1 DEF IrqReturn
    <3>2. CASE IrqStart \/ Sleep \/ Expire
      <4>1. alive' = alive
        BY <3>2 DEF IrqStart, Sleep, Expire, irq
      <4> QED
        BY <4>1
    <3> QED
      BY <1>3, <3>1, <3>2
  <2>4. StatusAgrees'
    BY <2>1 DEF StatusAgrees
  <2>5. pc' \in PCs \cup IrqPCs /\ pc' \notin Steps
    BY <2>1 DEF PCs, IrqPCs, Steps
  <2> QED
    BY <2>1, <2>2, <2>3, <2>4, <2>5
<1>4. CASE Polled
  <2>1. Driver /\ UNCHANGED irq /\ pc \in Steps /\ pc' \in PCs /\ ret' # "ok"
    BY <1>4, DriverSteps DEF Polled
  <2> QED
    BY <2>1, HurtStep, StatusKept DEF irq, Steps
<1> QED
  BY <1>1, <1>2, <1>3, <1>4 DEF Caller

LEMMA IsrChannel == ASSUME Channel, Noting, Isr PROVE Channel'
<1> USE DEF Channel
<1>1. /\ isr = "act" /\ isr' = "idle" /\ alive' = FALSE /\ UNCHANGED <<handler, pending>>
      /\ UNCHANGED ret
  BY DEF Isr, IsrOver, IsrArbLost, IsrNack, IsrNextByte, IsrNextMessage, IsrDone, IsrMoved,
         IsrLeaves, IsrFails, call
<1>2. handler
  BY <1>1
<1>3. pc' = pc \/ (pc = "sleep" /\ pc' = "wait")
  BY DEF Isr, IsrOver, IsrArbLost, IsrNack, IsrNextByte, IsrNextMessage, IsrDone, IsrMoved,
         IsrFails, call
<1> QED
  BY <1>1, <1>2, <1>3, HurtStep DEF IrqPCs, PCs, Steps

LEMMA OutsideChannel ==
    ASSUME Channel, Noting, Controller \/ Other \/ Time
    PROVE  Channel'
<1> USE DEF Channel
<1>1. Hardware \/ Tick
  BY ControllerIsHardware DEF Time
<1>2. /\ UNCHANGED <<handler, isr, alive, pc, state, ret>>
      /\ pending' = pending \/ pending' = (pending \/ handler)
  BY DEF Controller, Other, Time, Tick, irq, drv, call
<1>3. pending' \in BOOLEAN /\ (~ handler => ~ pending')
  BY <1>2
<1> QED
  BY <1>1, <1>2, <1>3, HurtStep, StatusKept

LEMMA IsrEnterChannel == ASSUME Channel, IsrEnter PROVE Channel'
  BY DEF Channel, IsrEnter, vars, drv, call

LEMMA ChannelStep == Channel /\ [IrqNext]_irqVars => Channel'
<1> SUFFICES ASSUME Channel, [IrqNext]_irqVars PROVE Channel'
  OBVIOUS
<1>1. CASE UNCHANGED irqVars
  BY <1>1 DEF irqVars, irq, vars, hw, drv, call, Channel, StatusAgrees
<1>2. CASE IrqNext
  BY <1>2, CallerChannel, IsrChannel, OutsideChannel, IsrEnterChannel
     DEF IrqNext, Running, Passing
<1> QED
  BY <1>1, <1>2

-----------------------------------------------------------------------------
(* Who has the next move on a channel with a handler. *)

LEMMA LeavingsSoFar ==
    ASSUME Noting, hurt' \subseteq {"odd"}
    PROVE  /\ hurt \subseteq {"odd"}
           /\ pc # "idle" /\ pc' = "idle" =>
                 result' # "ETIMEDOUT" /\ ~ stopping /\ ~ pending /\ isr # "act"
<1>1. Leavings \subseteq {"odd"} /\ hurt \subseteq {"odd"}
  BY DEF Noting
<1>2. "late" \notin Leavings /\ "early" \notin Leavings
  BY <1>1
<1> QED
  BY <1>1, <1>2 DEF Leavings

LEMMA CallerBaton ==
    ASSUME Channel, Baton, Noting, IrqXfer \/ Caller
    PROVE  Baton'
<1> SUFFICES ASSUME handler', hurt' \subseteq {"odd"} PROVE Baton'
  BY DEF Baton
<1>1. hurt \subseteq {"odd"}
  BY LeavingsSoFar
<1> USE <1>1 DEF Baton, Channel, Waiting, irq, hw, drv
<1>2. CASE IrqXfer
  BY <1>2 DEF IrqXfer, FirstState
<1>3. CASE ChooseMode
  BY <1>3 DEF ChooseMode, UseIrq
<1>4. CASE IrqStart
  BY <1>4 DEF IrqStart, Issue, Over
<1>5. CASE IrqReturn
  <2>1. pc = "wait" /\ pc' = "idle" /\ handler
        /\ UNCHANGED <<tip, stopping, pending, isr, state>>
    BY <1>5 DEF IrqReturn
  <2>2. ~ stopping /\ ~ pending /\ isr = "idle" /\ result' # "ETIMEDOUT"
    BY <2>1, LeavingsSoFar
  <2>3. state \in Over
    BY <1>5, <2>2 DEF IrqReturn, EndsWait
  <2> QED
    BY <2>1, <2>2, <2>3
<1>6. CASE Sleep \/ Expire
  <2>1. /\ pc \in {"wait", "sleep"} /\ pc' \in {"wait", "sleep"}
        /\ UNCHANGED <<handler, tip, stopping, pending, isr, alive, state>>
    BY <1>6 DEF Sleep, Expire
  <2> QED
    BY <2>1
<1>7. CASE Polled
  BY <1>7, DriverSteps DEF Polled
<1> QED
  BY <1>2, <1>3, <1>4, <1>5, <1>6, <1>7 DEF Caller

LEMMA IsrBaton == ASSUME Channel, Baton, Noting, Isr PROVE Baton'
<1> SUFFICES ASSUME handler', hurt' \subseteq {"odd"} PROVE Baton'
  BY DEF Baton
<1>1. /\ isr = "act" /\ isr' = "idle" /\ UNCHANGED <<handler, pending>>
      /\ pc' = pc \/ (pc = "sleep" /\ pc' = "wait")
  BY DEF Isr, IsrOver, IsrArbLost, IsrNack, IsrNextByte, IsrNextMessage, IsrDone, IsrMoved,
         IsrLeaves, IsrFails, call
<1>2. handler /\ Waiting /\ ~ tip /\ ~ stopping /\ ~ pending
  BY <1>1, LeavingsSoFar DEF Baton
<1>3. Waiting'
  BY <1>1, <1>2 DEF Waiting
<1>4. IF state' \in Over THEN ~ tip' ELSE ~ stopping'
  <2>1. CASE IsrOver
    BY <2>1, <1>2 DEF IsrOver, hw, drv
  <2>2. CASE IsrArbLost \/ IsrNack \/ IsrDone
    BY <2>2, <1>2 DEF IsrArbLost, IsrNack, IsrDone, IsrFails, IssueStop, Over
  <2>3. CASE IsrNextByte \/ IsrNextMessage
    <3>1. state \notin Over /\ stopping' = stopping
      BY <2>3 DEF IsrNextByte, IsrNextMessage, IsrMoved, IsrByte, Issue
    <3>2. state' \in {"START", "READ", "WRITE", state}
      BY <2>3 DEF IsrNextByte, IsrNextMessage, IsrByte, IsrDirection
    <3> QED
      BY <1>2, <3>1, <3>2 DEF Over
  <2> QED
    BY <2>1, <2>2, <2>3 DEF Isr
<1> QED
  BY <1>1, <1>2, <1>3, <1>4 DEF Baton, Waiting

LEMMA OutsideBaton ==
    ASSUME Channel, Baton, Noting, Controller \/ Other \/ Time
    PROVE  Baton'
<1> SUFFICES ASSUME handler', hurt' \subseteq {"odd"} PROVE Baton'
  BY DEF Baton
<1>1. hurt \subseteq {"odd"}
  BY LeavingsSoFar
<1>2. UNCHANGED <<handler, isr, alive, pc, state>>
  BY DEF Controller, Other, Time, Tick, irq, drv, call
<1> USE <1>1, <1>2 DEF Baton, Channel, Waiting, irq, hw
<1>3. CASE Controller
  <2>1. tip \/ stopping
    BY <1>3 DEF Controller, Complete, LoseArbitration, EndStop
  <2>2. Waiting /\ isr = "idle" /\ ~ pending
    BY <2>1 DEF PCs, IrqPCs, Steps
  <2>3. ~ tip' /\ ~ stopping'
    BY <1>3, <2>2 DEF Controller, Complete, LoseArbitration, EndStop
  <2> QED
    BY <2>2, <2>3
<1>4. CASE Other \/ Time
  <2>1. UNCHANGED <<tip, stopping, pending>>
    BY <1>4 DEF Other, OtherMaster, Time, Tick
  <2> QED
    BY <2>1
<1> QED
  BY <1>3, <1>4

LEMMA IsrEnterBaton == ASSUME Channel, Baton, IsrEnter PROVE Baton'
<1>1. /\ pending /\ handler /\ ~ pending' /\ alive' = (pc # "idle")
      /\ UNCHANGED <<handler, hurt, pc, state, tip, stopping>>
  BY DEF IsrEnter, Interrupted, vars, hw, drv, call
<1>2. hurt \subseteq {"odd"} => Waiting /\ ~ tip /\ ~ stopping
  BY <1>1 DEF Baton
<1> QED
  BY <1>1, <1>2 DEF Baton, Waiting

LEMMA BatonStep == Channel /\ Baton /\ [IrqNext]_irqVars => Baton'
<1> SUFFICES ASSUME Channel, Baton, [IrqNext]_irqVars PROVE Baton'
  OBVIOUS
<1>1. CASE UNCHANGED irqVars
  BY <1>1 DEF irqVars, irq, vars, hw, drv, call, Baton, Waiting
<1>2. CASE IrqNext
  BY <1>2, CallerBaton, IsrBaton, OutsideBaton, IsrEnterBaton DEF IrqNext, Running, Passing
<1> QED
  BY <1>1, <1>2

-----------------------------------------------------------------------------
(* What holds as long as no call has come back too soon. *)

LEMMA InitSound == IrqInit => Sound
<1> SUFFICES ASSUME IrqInit PROVE Sound
  OBVIOUS
<1>1. Init /\ IInv
  BY InitInv DEF IrqInit
<1>2. IrqTypes /\ PolledAgrees
  BY <1>1 DEF IInv, TypeOK, IrqTypes, PolledAgrees, Init
<1>3. /\ pc = "idle" /\ wire = Stop /\ ~ stopping /\ ~ pending /\ isr = "idle"
  BY <1>1 DEF Init, HwInit, IrqInit
<1>4. BusAgrees /\ WaitStored
  BY <1>1, <1>3 DEF IInv, StoredSoFar, WaitStored, Waiting
<1> QED
  BY <1>2, <1>3, <1>4 DEF Sound, Between, Called, WaitPlace, WaitWire, Turn, Waiting

(* No byte lies before the first one. *)
LEMMA NoSlotYet ==
    ASSUME NEW t \in Transfers, NEW s \in ReadSlots(t)
    PROVE  ~ (s[1] < 1 \/ (s[1] = 1 /\ s[2] <= 0))
<1>1. s[1] \in 1 .. Len(t) /\ s[2] \in 1 .. t[s[1]].len
  BY ReadSlotFacts
<1>2. Len(t) \in Nat /\ t[s[1]].len \in Nat
  BY <1>1, MessageFacts
<1> QED
  BY <1>1, <1>2

LEMMA XferSound == ASSUME Channel, Sound, IrqXfer PROVE Sound'
<1> USE DEF Sound, IrqXfer, hw
<1>1. xfer' \in Transfers /\ Len(xfer') \in Nat
  BY MessageFacts
<1>2. state' \in {"INIT", "START"}
  BY DEF FirstState
<1>3. IrqTypes'
  BY <1>1, <1>2, BudgetAssumption DEF IrqTypes, HwTypeOK, States, Results
<1>4. Between' /\ Called' /\ Turn'
  BY <1>2 DEF Between, Called, Turn, irq
<1>5. PolledAgrees' /\ WaitPlace' /\ WaitWire'
  BY DEF PolledAgrees, PCs, WaitPlace, WaitWire, Waiting
<1>6. BusAgrees' /\ WaitStored'
  BY DEF BusAgrees, WaitStored, Waiting, BytesInPlace, OkIsComplete
<1> QED
  BY <1>3, <1>4, <1>5, <1>6

(* A call that is not odd polls from INIT or waits from START. *)
LEMMA ChooseSound ==
    ASSUME Channel, Sound, ChooseMode, Leavings = {}
    PROVE  Sound'
<1> USE DEF Sound, ChooseMode, hw, drv
<1>1. \/ pc' = "loop" /\ state = "INIT"
      \/ pc' = "start" /\ state = "START"
  <2>1. "odd" \notin Leavings
    OBVIOUS
  <2>2. <<pc', state>> \notin {<<"loop", "START">>, <<"start", "INIT">>}
    BY <2>1 DEF Leavings
  <2>3. pc' \in {"loop", "start"} /\ state \in {"INIT", "START"}
    BY DEF Called
  <2> QED
    BY <2>2, <2>3
<1>2. IrqTypes' /\ BusAgrees'
  BY DEF IrqTypes, HwTypeOK, BusAgrees
<1>3. PolledAgrees'
  <2> SUFFICES ASSUME pc' = "loop" PROVE IInv'
    BY <1>1 DEF PolledAgrees, PCs, Between
  <2>1. /\ m = 1 /\ pos = 0 /\ nmsgs = Len(xfer) /\ rx = {} /\ result = "none"
        /\ state = "INIT" /\ xfer \in Transfers /\ Len(xfer) \in Nat /\ Len(xfer) > 0
    BY <1>1, MessageFacts DEF Called, IrqTypes
  <2>2. TypeOK'
    BY <1>2, <2>1 DEF IrqTypes, TypeOK, PCs, Results
  <2>3. Place' /\ WireAgrees' /\ StatusAgrees'
    BY <2>1 DEF Place, WireAgrees, StatusAgrees, Active
  <2>4. StoredSoFar'
    BY <2>1, NoSlotYet DEF StoredSoFar, BytesInPlace, OkIsComplete
  <2> QED
    BY <1>2, <2>2, <2>3, <2>4 DEF IInv
<1>4. Between' /\ Called' /\ Turn'
  BY <1>1 DEF Between, Called, Turn, irq
<1>5. WaitPlace' /\ WaitWire' /\ WaitStored'
  BY <1>1 DEF WaitPlace, WaitWire, WaitStored, Waiting, BytesInPlace, OkIsComplete
<1> QED
  BY <1>2, <1>3, <1>4, <1>5

(* START is written without a look at the status register, and finds the  *)
(* controller idle.                                                       *)
LEMMA StartSound == ASSUME Channel, Sound, IrqStart PROVE Sound'
<1> USE DEF Sound, IrqStart, drv, irq
<1>1. /\ m = 1 /\ pos = 0 /\ nmsgs = Len(xfer) /\ rx = {} /\ result = "none"
      /\ state = "START" /\ xfer \in Transfers /\ Len(xfer) \in Nat /\ Len(xfer) > 0
  BY MessageFacts DEF Called, IrqTypes
<1>2. ~ stopping /\ ~ pending /\ isr = "idle"
  BY DEF Between
<1>3. wire' = Start(1) /\ tip' = TRUE /\ UNCHANGED <<stopping, bus, nack, rxr>>
  BY DEF Issue
<1>4. IrqTypes'
  <2>1. wire' \in Command
    BY <1>3, CommandFacts
  <2>2. al' \in BOOLEAN
    BY Zenon DEF Issue
  <2> QED
    BY <1>3, <2>1, <2>2, BudgetAssumption DEF IrqTypes, HwTypeOK
<1>5. BusAgrees'
  BY <1>2, <1>3, OpFacts DEF BusAgrees
<1>6. WaitPlace' /\ WaitWire'
  BY <1>1, <1>2, <1>3 DEF WaitPlace, WaitWire, Waiting, Over
<1>7. WaitStored'
  BY <1>1, NoSlotYet DEF WaitStored, BytesInPlace, OkIsComplete
<1>8. PolledAgrees' /\ Between' /\ Called' /\ Turn'
  BY <1>2 DEF PolledAgrees, PCs, Between, Called, Turn
<1> QED
  BY <1>4, <1>5, <1>6, <1>7, <1>8

(* A call that comes back neither late nor early leaves nothing behind. *)
LEMMA ReturnSound ==
    ASSUME Channel, Sound, IrqReturn, Leavings = {}
    PROVE  Sound'
<1> USE DEF Sound, IrqReturn, drv, hw
<1>1. state \in Over /\ ~ stopping /\ ~ pending /\ isr = "idle"
  <2>1. "late" \notin Leavings /\ "early" \notin Leavings
    OBVIOUS
  <2>2. result' # "ETIMEDOUT" /\ ~ (stopping \/ pending \/ isr = "act")
    BY <2>1 DEF Leavings
  <2> QED
    BY <2>2 DEF Channel, EndsWait
<1>2. Waiting /\ handler
  BY <1>1 DEF Channel, WaitPlace, Waiting, Over
<1>3. wire = Stop
  BY <1>1, <1>2 DEF WaitWire
<1>4. result' = IF state = "DONE" THEN "ok" ELSE "EIO"
  BY <1>1 DEF EndsWait
<1>5. IrqTypes' /\ BusAgrees'
  BY <1>4 DEF IrqTypes, HwTypeOK, BusAgrees, Results
<1>6. WaitStored'
  <2>1. BytesInPlace'
    BY DEF WaitStored, BytesInPlace
  <2>2. OkIsComplete'
    <3> SUFFICES ASSUME result' = "ok", NEW s \in ReadSlots(xfer)
                 PROVE  <<s, s>> \in rx
      BY DEF OkIsComplete
    <3>1. state = "DONE" /\ m = Len(xfer) + 1
      BY <1>2, <1>4 DEF WaitPlace
    <3>2. s[1] \in 1 .. Len(xfer) /\ Len(xfer) \in Nat
      BY ReadSlotFacts, MessageFacts DEF IrqTypes
    <3> QED
      BY <1>2, <3>1, <3>2 DEF WaitStored
  <2> QED
    BY <2>1, <2>2 DEF WaitStored, Waiting
<1>7. PolledAgrees' /\ Between' /\ Called' /\ WaitPlace' /\ WaitWire' /\ Turn'
  BY <1>1, <1>2, <1>3 DEF PolledAgrees, Between, Called, WaitPlace, WaitWire, Turn, Waiting
<1> QED
  BY <1>5, <1>6, <1>7

(* Going to sleep, waking up, and time. *)
LEMMA WaitSound == ASSUME Channel, Sound, Sleep \/ Expire \/ Time PROVE Sound'
<1> USE DEF Sound
<1>1. /\ UNCHANGED <<hw, drv, stat, ret, result, irq>>
      /\ pc' = pc \/ (pc \in {"wait", "sleep"} /\ pc' \in {"wait", "sleep"})
  BY DEF Sleep, Expire, Time, Tick, hw, drv
<1>2. left' \in 0 .. Budget
  BY BudgetAssumption DEF Sleep, Expire, Time, Tick, IrqTypes
<1>3. IrqTypes' /\ BusAgrees'
  BY <1>1, <1>2 DEF IrqTypes, HwTypeOK, BusAgrees, hw, drv
<1>4. PolledAgrees'
  <2>1. CASE Time
    <3>1. Tick /\ UNCHANGED <<irq, hw, drv, pc>>
      BY <2>1 DEF Time, Tick
    <3>2. IInv => IInv'
      BY <3>1, LoopInv
    <3> QED
      BY <3>1, <3>2 DEF PolledAgrees, irq, hw, drv
  <2>2. CASE Sleep \/ Expire
    BY <2>2 DEF Sleep, Expire, PolledAgrees, PCs
  <2> QED
    BY <2>1, <2>2
<1>5. Between' /\ Called' /\ WaitPlace' /\ WaitWire'
  BY <1>1 DEF Between, Called, WaitPlace, WaitWire, Waiting, hw, drv, irq
<1>6. Turn' /\ WaitStored'
  BY <1>1 DEF Turn, WaitStored, Waiting, BytesInPlace, OkIsComplete, hw, drv, irq
<1> QED
  BY <1>3, <1>4, <1>5, <1>6

(* A polled call: the invariant of OcoresI2C.  Its last command is STOP. *)
LEMMA OverMeansStop ==
    ASSUME IInv, Driver, pc' = "check", state' \in Over
    PROVE  wire' = Stop
<1>1. Poll
  BY DEF Driver, LoopHead, TimeOut, Check, ReadStatus
<1>2. CASE PollBusy
  <2>1. pc = "act" /\ state \in Over
    BY <1>2 DEF PollBusy, drv
  <2> QED
    BY <2>1 DEF IInv, Place, Active, Over
<1>3. CASE PollArbLost \/ PollNack \/ PollDone
  BY <1>3 DEF PollArbLost, PollNack, PollDone, Fail, IssueStop
<1>4. CASE PollAddr \/ PollAddr10
  BY <1>4 DEF PollAddr, PollAddr10, Over
<1>5. CASE PollByte \/ PollNextMessage
  BY <1>5 DEF PollByte, PollNextMessage, NextByte, Direction, Over
<1> QED
  BY <1>1, <1>2, <1>3, <1>4, <1>5 DEF Poll

(* A poll that leaves STATE_INIT leaves the STOP alone. *)
LEMMA InitKeepsStop == Driver /\ state' = "INIT" => state = "INIT" /\ stopping' = stopping
<1> SUFFICES ASSUME Driver, state' = "INIT" PROVE state = "INIT" /\ stopping' = stopping
  OBVIOUS
<1>1. CASE LoopHead \/ TimeOut \/ Check \/ ReadStatus \/ PollBusy
  BY <1>1 DEF LoopHead, TimeOut, Check, ReadStatus, PollBusy, hw, drv
<1>2. ~ (PollArbLost \/ PollNack \/ PollDone \/ PollAddr \/ PollAddr10)
  BY DEF PollArbLost, PollNack, PollDone, PollAddr, PollAddr10, Fail
<1>3. ~ (PollByte \/ PollNextMessage)
  BY DEF PollByte, PollNextMessage, NextByte, Direction
<1> QED
  BY <1>1, <1>2, <1>3 DEF Driver, Poll

LEMMA PolledSound ==
    ASSUME Channel, Sound, Polled, Leavings = {}
    PROVE  Sound'
<1> USE DEF Sound, Polled
<1>1. ~ handler /\ pc \in Steps /\ pc' \in PCs /\ UNCHANGED irq
  BY DriverSteps DEF Channel
<1>2. ~ pending' /\ isr' = "idle" /\ ~ handler'
  BY <1>1 DEF Channel, irq
<1>3. IInv /\ (pc = "check" /\ state \in Over => wire = Stop)
           /\ (state = "INIT" => ~ stopping)
  BY <1>1 DEF PolledAgrees, Steps, PCs
<1>4. IInv'
  BY <1>3, NextInv DEF Next
<1>5. ASSUME pc' = "idle"
      PROVE  Check /\ state \in Over /\ ~ stopping /\ wire = Stop
  <2>1. ~ TimeOut
    <3>1. "late" \notin Leavings
      OBVIOUS
    <3> QED
      BY <3>1, <1>5 DEF TimeOut, Leavings
  <2>2. Check
    BY <1>5, <2>1, PollSteps DEF Driver, LoopHead, ReadStatus
  <2>3. ~ stopping
    <3>1. "early" \notin Leavings /\ pc # "idle"
      BY <1>1 DEF Steps
    <3> QED
      BY <3>1, <1>5 DEF Leavings
  <2>4. state \in Over /\ pc = "check"
    BY <2>2, <1>5 DEF Check, Over
  <2> QED
    BY <2>2, <2>3, <2>4, <1>3
<1>6. PolledAgrees'
  <2>1. pc' = "check" /\ state' \in Over => wire' = Stop
    BY <1>3, OverMeansStop
  <2>2. state' = "INIT" => ~ stopping'
    BY <1>3, InitKeepsStop
  <2> QED
    BY <1>4, <2>1, <2>2 DEF PolledAgrees
<1>7. Between'
  <2> SUFFICES ASSUME pc' = "idle" PROVE wire' = Stop /\ ~ stopping'
    BY <1>1, <1>2 DEF Between, PCs
  <2> QED
    BY <1>5 DEF Check, hw
<1>8. IrqTypes' /\ BusAgrees'
  BY <1>4 DEF IInv, TypeOK, IrqTypes
<1>9. Called' /\ WaitPlace' /\ WaitWire' /\ Turn'
  BY <1>1, <1>2 DEF PCs, Called, WaitPlace, WaitWire, Turn, Waiting
<1>10. WaitStored'
  BY <1>1, <1>4 DEF IInv, StoredSoFar, WaitStored, Waiting, PCs
<1> QED
  BY <1>6, <1>7, <1>8, <1>9, <1>10

(* The controller and other masters. *)
LEMMA OutsideSound == ASSUME Channel, Sound, Controller \/ Other PROVE Sound'
<1> USE DEF Sound
<1>1. HwNext /\ Hardware /\ UNCHANGED <<drv, call, handler, isr, istat, alive, wire>>
  BY ControllerIsHardware DEF Hardware, HwNext, Controller, Other, Complete, LoseArbitration,
     EndStop, OtherMaster, irq
<1>2. IrqTypes' /\ BusAgrees'
  BY <1>1, HwTypeStep, BusStep DEF IrqTypes, drv, call
<1>3. PolledAgrees'
  <2>1. stopping' => stopping
    BY <1>1 DEF HwNext, Complete, LoseArbitration, EndStop, OtherMaster
  <2> QED
    BY <1>1, <2>1, HardwareInv DEF PolledAgrees, drv, call
<1>4. stopping => wire = Stop /\ ~ tip
  BY OpFacts DEF BusAgrees
<1>5. Controller => /\ tip \/ stopping
                    /\ ~ tip' /\ ~ stopping'
                    /\ UNCHANGED <<al, nack>> \/ tip
  BY <1>4 DEF Controller, Complete, LoseArbitration, EndStop
<1>6. Controller => ~ pending /\ isr # "act" /\ pc \notin {"idle", "mode", "start"}
  BY <1>5, OpFacts DEF Turn, Between, BusAgrees
<1>7. Other => UNCHANGED <<tip, stopping, al, nack, pending>>
  BY DEF Other, OtherMaster, irq
<1>8. Between'
  BY <1>1, <1>6, <1>7 DEF Between, call
<1>9. Called' /\ WaitPlace'
  BY <1>1 DEF Called, WaitPlace, Waiting, drv, call
<1>10. WaitWire'
  BY <1>1, <1>5, <1>7 DEF WaitWire, Waiting, drv, call
<1>11. Turn'
  <2>1. CASE Controller
    <3>1. isr' # "act"
      BY <1>1, <1>6, <2>1
    <3>2. pending' => handler
      BY <1>6, <2>1 DEF Controller
    <3>3. handler => Waiting
      BY <1>6, <2>1 DEF Channel, Steps, PCs, IrqPCs, Waiting
    <3> QED
      BY <1>1, <1>5, <2>1, <3>1, <3>2, <3>3 DEF Turn, Waiting, call
  <2>2. CASE Other
    BY <1>1, <1>7, <2>2 DEF Turn, Waiting, call
  <2> QED
    BY <2>1, <2>2
<1>12. WaitStored'
  BY <1>1 DEF WaitStored, Waiting, BytesInPlace, OkIsComplete, drv, call
<1> QED
  BY <1>2, <1>3, <1>8, <1>9, <1>10, <1>11, <1>12

LEMMA IsrEnterSound == ASSUME Channel, Sound, IsrEnter PROVE Sound'
<1> USE DEF Sound, IsrEnter, vars, hw, drv, call
<1>1. pending /\ handler /\ isr = "idle"
  BY DEF Interrupted
<1>2. Waiting /\ ~ tip /\ ~ stopping
  BY <1>1 DEF Turn
<1>3. istat'.al = al /\ istat'.nack = nack /\ alive'
  BY <1>2 DEF Status, Waiting
<1>4. Turn'
  BY <1>2, <1>3 DEF Turn, Waiting
<1>5. IrqTypes' /\ BusAgrees' /\ PolledAgrees'
  BY <1>1 DEF IrqTypes, HwTypeOK, BusAgrees, PolledAgrees
<1>6. Between' /\ Called' /\ WaitPlace' /\ WaitWire' /\ WaitStored'
  BY <1>2 DEF Between, Called, WaitPlace, WaitWire, WaitStored, Waiting, BytesInPlace,
              OkIsComplete
<1> QED
  BY <1>4, <1>5, <1>6

-----------------------------------------------------------------------------
(* The handler. *)

(* What the handler knows when it acts for a call that is not over. *)
LEMMA IsrFacts ==
    ASSUME Channel, Sound, isr = "act", state \notin Over
    PROVE  /\ Waiting /\ handler /\ alive /\ ~ pending
           /\ ~ tip /\ ~ stopping /\ istat.al = al /\ istat.nack = nack
           /\ state \in {"START", "WRITE", "READ"} /\ result = "none"
           /\ m \in 1 .. Len(xfer) /\ nmsgs = Len(xfer) - m + 1
           /\ xfer \in Transfers /\ Len(xfer) \in Nat /\ xfer[m].len \in Nat
           /\ wire.op \in {"start", "write", "read"} /\ wire.msg = m
           /\ bus = "ours" \/ al
<1> USE DEF Sound
<1>1. Waiting /\ handler /\ alive /\ ~ pending /\ ~ tip /\ ~ stopping
  BY DEF Channel, Turn
<1>2. /\ state \in {"START", "WRITE", "READ"} /\ result = "none"
      /\ m \in 1 .. Len(xfer) /\ nmsgs = Len(xfer) - m + 1
  BY <1>1 DEF WaitPlace
<1>3. xfer \in Transfers /\ Len(xfer) \in Nat /\ xfer[m].len \in Nat
  BY <1>2, MessageFacts DEF IrqTypes
<1>4. wire.op \in {"start", "write", "read"} /\ wire.msg = m
  BY <1>1, <1>2, OpFacts DEF WaitWire
<1>5. bus = "ours" \/ al
  BY <1>1, <1>4 DEF BusAgrees
<1> QED
  BY <1>1, <1>2, <1>3, <1>4, <1>5 DEF Turn

LEMMA IsrOverSound == ASSUME Channel, Sound, IsrOver PROVE Sound'
<1> USE DEF Sound, IsrOver, IsrLeaves, hw, drv
<1>1. Waiting /\ handler /\ ~ pending
  BY DEF Turn, Channel
<1>2. pc' \in {"wait", "sleep"}
  BY <1>1 DEF Waiting
<1>3. IrqTypes' /\ BusAgrees'
  BY DEF IrqTypes, HwTypeOK, BusAgrees
<1>4. PolledAgrees' /\ Between' /\ Called' /\ Turn'
  BY <1>1, <1>2 DEF PolledAgrees, Between, Called, Turn
<1>5. WaitPlace' /\ WaitWire' /\ WaitStored'
  BY <1>1, <1>2 DEF WaitPlace, WaitWire, WaitStored, Waiting, BytesInPlace, OkIsComplete
<1> QED
  BY <1>3, <1>4, <1>5

LEMMA IsrFailsSound == ASSUME Channel, Sound, IsrArbLost \/ IsrNack PROVE Sound'
<1> USE DEF Sound
<1>1. IsrLeaves /\ IsrFails /\ isr = "act" /\ state \notin Over
  BY DEF IsrArbLost, IsrNack, IsrLeaves
<1>2. /\ Waiting /\ handler /\ ~ pending /\ ~ tip /\ (bus = "ours" \/ al) /\ result = "none"
  BY <1>1, IsrFacts
<1>3. /\ state' = "ERROR" /\ wire' = Stop /\ stopping' = TRUE /\ isr' = "idle"
      /\ UNCHANGED <<tip, bus, al, nack, rxr, xfer, m, pos, nmsgs, rx, handler, pending>>
      /\ UNCHANGED <<pc, stat, ret, left, result>>
  BY <1>1 DEF IsrFails, IsrLeaves, IssueStop, call
<1>4. IrqTypes'
  BY <1>3, CommandFacts DEF IrqTypes, HwTypeOK, States
<1>5. BusAgrees'
  BY <1>2, <1>3, OpFacts DEF BusAgrees
<1>6. PolledAgrees' /\ Between' /\ Called' /\ Turn'
  BY <1>2, <1>3 DEF PolledAgrees, Between, Called, Turn, Waiting
<1>7. WaitPlace' /\ WaitWire'
  BY <1>2, <1>3 DEF WaitPlace, WaitWire, Waiting, Over
<1>8. WaitStored'
  BY <1>3 DEF WaitStored, BytesInPlace, OkIsComplete
<1> QED
  BY <1>4, <1>5, <1>6, <1>7, <1>8

(* Where a transfer stands when the controller has moved a byte: IsrPos   *)
(* bytes of message m are moved, and what was read so far is stored.      *)
LEMMA IsrMovedFacts ==
    ASSUME Channel, Sound, IsrMoved
    PROVE  /\ isr = "act" /\ state \notin Over /\ ~ al
           /\ Found(m) = {xfer[m]}
           /\ m + 1 <= Len(xfer) => Found(m + 1) = {xfer[m + 1]}
           /\ IsrPos \in 0 .. xfer[m].len
           /\ \/ IsrPos = 0 /\ wire = Start(m)
              \/ IsrPos > 0 /\ wire.op \in {"write", "read"} /\ wire.byte = IsrPos
           /\ rx' \in SUBSET (Slot \X Slot)
           /\ \A s \in rx' : s[1] = s[2] /\ s[1] \in ReadSlots(xfer)
           /\ \A s \in ReadSlots(xfer) :
                 s[1] < m \/ (s[1] = m /\ s[2] <= IsrPos) => <<s, s>> \in rx'
           /\ IsrDirection(xfer[m]) = Direction(m)
<1> USE DEF Sound
<1>1. isr = "act" /\ state \notin Over /\ ~ istat.al
  BY DEF IsrMoved, IsrLeaves
<1>2. /\ Waiting /\ handler /\ alive /\ ~ tip /\ ~ al
      /\ state \in {"START", "WRITE", "READ"}
      /\ m \in 1 .. Len(xfer) /\ xfer \in Transfers /\ Len(xfer) \in Nat
      /\ xfer[m].len \in Nat
  BY <1>1, IsrFacts
<1>3. Found(m) = {xfer[m]} /\ (m + 1 <= Len(xfer) => Found(m + 1) = {xfer[m + 1]})
  BY <1>2 DEF Found
<1>4. m \in Nat /\ pos \in Nat /\ rx \in SUBSET (Slot \X Slot)
  BY DEF IrqTypes
<1>5. CASE state = "READ"
  <2>1. xfer[m].rd /\ pos < xfer[m].len /\ wire = Read(m, pos + 1, pos + 1 = xfer[m].len)
    BY <1>2, <1>5 DEF WaitWire
  <2>2. /\ StoresByte /\ IsrPos = pos + 1 /\ rx' = rx \cup {<<<<m, pos + 1>>, rxr>>}
        /\ IsrDirection(xfer[m]) = Direction(m)
    BY <1>2, <1>5, <2>1 DEF IsrPos, StoresByte, IsrMoved, IsrDirection, Direction
  <2>3. wire.op = "read" /\ wire.msg = m /\ wire.byte = pos + 1
    BY <2>1, OpFacts
  <2>4. rxr = <<m, pos + 1>>
    BY <1>2, <2>3 DEF BusAgrees
  <2>5. <<m, pos + 1>> \in ReadSlots(xfer) /\ <<m, pos + 1>> \in Slot
    <3>1. pos + 1 \in 1 .. xfer[m].len /\ pos + 1 \in Nat
      BY <1>2, <1>4, <2>1
    <3> QED
      BY <1>2, <1>4, <2>1, <3>1, ReadSlotFacts DEF Slot
  <2>6. \A s \in rx' : s[1] = s[2] /\ s[1] \in ReadSlots(xfer)
    BY <2>2, <2>4, <2>5 DEF WaitStored, BytesInPlace
  <2>7. ASSUME NEW s \in ReadSlots(xfer), s[1] < m \/ (s[1] = m /\ s[2] <= IsrPos)
        PROVE  <<s, s>> \in rx'
    <3>1. s = <<s[1], s[2]>> /\ s[1] \in Nat /\ s[2] \in Nat
      <4>1. s = <<s[1], s[2]>> /\ s[1] \in 1 .. Len(xfer) /\ s[2] \in 1 .. xfer[s[1]].len
        BY <1>2, ReadSlotFacts
      <4>2. xfer[s[1]].len \in Nat
        BY <1>2, <4>1, MessageFacts
      <4> QED
        BY <1>2, <4>1, <4>2
    <3>2. CASE s[1] < m \/ (s[1] = m /\ s[2] <= pos)
      BY <3>2, <2>2, <1>2, <1>5 DEF WaitStored
    <3>3. CASE s[1] = m /\ s[2] = pos + 1
      BY <3>1, <3>3, <2>2, <2>4
    <3> QED
      BY <3>1, <3>2, <3>3, <2>2, <2>7, <1>4
  <2>8. rx' \in SUBSET (Slot \X Slot)
    BY <1>4, <2>2, <2>4, <2>5
  <2> QED
    BY <1>1, <1>2, <1>3, <1>4, <2>1, <2>2, <2>3, <2>6, <2>7, <2>8
<1>6. CASE state = "WRITE"
  <2>1. /\ ~ xfer[m].rd /\ pos \in 1 .. xfer[m].len /\ wire = Write(m, pos)
        /\ IsrPos = pos /\ rx' = rx
    BY <1>2, <1>6 DEF WaitWire, IsrPos, StoresByte, IsrMoved
  <2>2. IsrDirection(xfer[m]) = Direction(m)
    BY <1>6, <2>1 DEF IsrDirection, StoresByte, Direction
  <2> QED
    BY <1>1, <1>2, <1>3, <1>4, <1>6, <2>1, <2>2, OpFacts DEF WaitStored, BytesInPlace
<1>7. CASE state = "START"
  <2>1. pos = 0 /\ IsrPos = 0 /\ rx' = rx /\ wire = Start(m)
    BY <1>2, <1>7 DEF WaitWire, IsrPos, StoresByte, IsrMoved
  <2>2. IsrDirection(xfer[m]) = Direction(m)
    BY <1>7 DEF IsrDirection, StoresByte, Direction
  <2> QED
    BY <1>1, <1>2, <1>3, <1>4, <1>7, <2>1, <2>2 DEF WaitStored, BytesInPlace
<1> QED
  BY <1>2, <1>5, <1>6, <1>7

(* What every step of the handler leaves alone. *)
LEMMA IsrMovedKeeps ==
    ASSUME Channel, Sound, IsrMoved
    PROVE  /\ isr' = "idle" /\ ~ pending' /\ handler' /\ Waiting'
           /\ UNCHANGED <<xfer, pc, stat, ret, left, result>>
           /\ result' = "none"
<1>1. isr = "act" /\ state \notin Over /\ isr' = "idle"
      /\ UNCHANGED <<handler, pending, xfer, pc, stat, ret, left, result>>
  BY DEF IsrMoved, IsrLeaves, call
<1> QED
  BY <1>1, IsrFacts DEF Waiting

(* The rest of the invariant follows for any step that has moved a byte.  *)
LEMMA IsrMovedSound ==
    ASSUME Channel, Sound, IsrMoved,
           IrqTypes', WaitPlace', WaitWire', BusAgrees',
           \A s \in ReadSlots(xfer) :
              s[1] < m' \/ (s[1] = m' /\ s[2] <= pos') => <<s, s>> \in rx'
    PROVE  Sound'
<1>1. /\ isr' = "idle" /\ ~ pending' /\ handler' /\ Waiting'
      /\ xfer' = xfer /\ result' = "none"
  BY IsrMovedKeeps
<1>2. PolledAgrees' /\ Between' /\ Called' /\ Turn'
  BY <1>1 DEF PolledAgrees, Between, Called, Turn, Waiting
<1>3. BytesInPlace'
  BY <1>1, IsrMovedFacts DEF BytesInPlace
<1>4. WaitStored'
  BY <1>1, <1>3 DEF WaitStored, OkIsComplete
<1> QED
  BY <1>2, <1>4 DEF Sound

(* The command for byte p + 1 of message k. *)
LEMMA IsrByteSound ==
    ASSUME Channel, Sound, IsrMoved,
           NEW k \in 1 .. Len(xfer), NEW p \in Nat, p < xfer[k].len,
           IsrByte(xfer[k], k, p, Direction(k)), m' = k, nmsgs' = Len(xfer) - k + 1,
           \A s \in ReadSlots(xfer) :
              s[1] < k \/ (s[1] = k /\ s[2] <= p) => <<s, s>> \in rx'
    PROVE  Sound'
<1>1. /\ isr = "act" /\ state \notin Over /\ ~ al /\ bus = "ours" /\ ~ stopping
      /\ xfer \in Transfers /\ Len(xfer) \in Nat /\ xfer[k].len \in Nat /\ k \in Nat
  BY IsrMovedFacts, IsrFacts, MessageFacts
<1>2. /\ tip' = TRUE /\ ~ al' /\ state' = Direction(k)
      /\ UNCHANGED <<stopping, bus, nack, rxr>>
  BY <1>1 DEF IsrByte, Issue
<1>3. \/ /\ xfer[k].rd /\ state' = "READ" /\ pos' = p
         /\ wire' = Read(k, p + 1, p + 1 = xfer[k].len)
      \/ /\ ~ xfer[k].rd /\ state' = "WRITE" /\ pos' = p + 1
         /\ wire' = Write(k, p + 1)
  BY <1>2 DEF IsrByte, Direction, NackNext, Issue
<1>4. IrqTypes'
  <2>1. wire' \in Command
    <3>1. (p + 1 = xfer[k].len) \in BOOLEAN /\ p + 1 \in Nat
      OBVIOUS
    <3> QED
      BY <3>1, <1>1, <1>3, CommandFacts
  <2>2. al' \in BOOLEAN
    BY Zenon DEF IsrByte, Issue
  <2>3. state' \in States /\ pos' \in Nat /\ nmsgs' \in Nat
    BY <1>1, <1>3 DEF States
  <2> QED
    BY <1>2, <2>1, <2>2, <2>3, IsrMovedFacts, IsrMovedKeeps DEF Sound, IrqTypes, HwTypeOK
<1>5. WaitPlace'
  BY <1>1, <1>3, IsrMovedKeeps DEF WaitPlace, Over
<1>6. WaitWire'
  BY <1>1, <1>2, <1>3, IsrMovedKeeps DEF WaitWire, Over
<1>7. BusAgrees'
  BY <1>1, <1>2, <1>3, OpFacts DEF BusAgrees
<1>8. ASSUME NEW s \in ReadSlots(xfer), s[1] < m' \/ (s[1] = m' /\ s[2] <= pos')
      PROVE  <<s, s>> \in rx'
  <2>1. /\ s = <<s[1], s[2]>> /\ s[1] \in 1 .. Len(xfer) /\ s[2] \in 1 .. xfer[s[1]].len
        /\ xfer[s[1]].rd
    BY <1>1, ReadSlotFacts
  <2>2. s[2] \in Nat
    BY <1>1, <2>1, MessageFacts
  <2>3. CASE xfer[k].rd
    BY <1>3, <1>8, <2>3
  <2>4. CASE ~ xfer[k].rd
    BY <1>8, <2>1, <2>4
  <2> QED
    BY <2>3, <2>4
<1> QED
  BY <1>4, <1>5, <1>6, <1>7, <1>8, IsrMovedSound

LEMMA IsrNextByteSound == ASSUME Channel, Sound, IsrNextByte PROVE Sound'
<1> USE DEF IsrNextByte
<1>1. /\ Found(m) = {xfer[m]} /\ IsrPos \in 0 .. xfer[m].len
      /\ IsrDirection(xfer[m]) = Direction(m)
      /\ isr = "act" /\ state \notin Over
      /\ \A s \in ReadSlots(xfer) :
            s[1] < m \/ (s[1] = m /\ s[2] <= IsrPos) => <<s, s>> \in rx'
  BY IsrMovedFacts
<1>2. /\ m \in 1 .. Len(xfer) /\ nmsgs = Len(xfer) - m + 1 /\ xfer[m].len \in Nat
  BY <1>1, IsrFacts
<1>3. ~ AllMoved(xfer[m], IsrPos) /\ IsrByte(xfer[m], m, IsrPos, Direction(m))
  BY <1>1
<1>4. IsrPos \in Nat /\ IsrPos < xfer[m].len
  BY <1>1, <1>2, <1>3 DEF AllMoved
<1>5. m' = m /\ nmsgs' = Len(xfer) - m + 1
  BY <1>2
<1> QED
  BY <1>1, <1>2, <1>3, <1>4, <1>5, IsrByteSound

(* When all of message m is moved, what lies before message m + 1 is      *)
(* stored.                                                                 *)
LEMMA MessageIsMoved ==
    ASSUME Channel, Sound, IsrMoved, NEW g \in Found(m), AllMoved(g, IsrPos)
    PROVE  /\ g = xfer[m] /\ IsrPos = xfer[m].len
           /\ \A s \in ReadSlots(xfer) : s[1] < m + 1 => <<s, s>> \in rx'
<1>1. /\ Found(m) = {xfer[m]} /\ isr = "act" /\ state \notin Over
      /\ \A s \in ReadSlots(xfer) :
            s[1] < m \/ (s[1] = m /\ s[2] <= IsrPos) => <<s, s>> \in rx'
  BY IsrMovedFacts
<1>2. g = xfer[m] /\ IsrPos = xfer[m].len
  BY <1>1 DEF AllMoved
<1>3. m \in 1 .. Len(xfer) /\ xfer \in Transfers /\ Len(xfer) \in Nat /\ xfer[m].len \in Nat
  BY <1>1, IsrFacts
<1>4. ASSUME NEW s \in ReadSlots(xfer), s[1] < m + 1
      PROVE  <<s, s>> \in rx'
  <2>1. s[1] \in 1 .. Len(xfer) /\ s[2] \in 1 .. xfer[s[1]].len
    BY <1>3, ReadSlotFacts
  <2>2. CASE s[1] < m
    BY <1>1, <2>2
  <2>3. CASE s[1] = m
    <3>1. s[2] \in 1 .. xfer[m].len
      BY <2>1, <2>3
    <3>2. s[2] <= IsrPos
      BY <3>1, <1>2, <1>3
    <3> QED
      BY <1>1, <2>3, <3>2
  <2> QED
    BY <1>3, <1>4, <2>1, <2>2, <2>3
<1> QED
  BY <1>2, <1>4

LEMMA IsrNextMessageSound == ASSUME Channel, Sound, IsrNextMessage PROVE Sound'
<1>1. IsrMoved /\ nmsgs > 1 /\ nmsgs' = nmsgs - 1 /\ m' = m + 1
  BY DEF IsrNextMessage
<1>2. PICK g \in Found(m), n \in Found(m + 1) :
          /\ AllMoved(g, IsrPos)
          /\ \/ ~ n.nostart /\ state' = "START" /\ pos' = 0 /\ Issue(Start(m + 1))
             \/ n.nostart /\ IsrByte(n, m + 1, 0, IF n.rd THEN "READ" ELSE "WRITE")
  BY DEF IsrNextMessage
<1>3. isr = "act" /\ state \notin Over /\ ~ al /\ rx' \in SUBSET (Slot \X Slot)
  BY <1>1, IsrMovedFacts
<1>4. /\ m \in 1 .. Len(xfer) /\ nmsgs = Len(xfer) - m + 1 /\ bus = "ours" /\ ~ stopping
      /\ xfer \in Transfers /\ Len(xfer) \in Nat /\ xfer[m].len \in Nat
  BY <1>3, IsrFacts
<1>5. m + 1 \in 1 .. Len(xfer) /\ nmsgs' = Len(xfer) - (m + 1) + 1
  BY <1>1, <1>4
<1>6. n = xfer[m + 1]
  BY <1>1, <1>5, IsrMovedFacts
<1>7. \A s \in ReadSlots(xfer) : s[1] < m + 1 => <<s, s>> \in rx'
  BY <1>1, <1>2, MessageIsMoved
<1>8. ASSUME NEW s \in ReadSlots(xfer), s[1] < m + 1 \/ (s[1] = m + 1 /\ s[2] <= 0)
      PROVE  <<s, s>> \in rx'
  <2>1. s[1] \in 1 .. Len(xfer) /\ s[2] \in 1 .. xfer[s[1]].len
    BY <1>4, ReadSlotFacts
  <2>2. xfer[s[1]].len \in Nat
    BY <1>4, <2>1, MessageFacts
  <2> QED
    BY <1>7, <1>8, <2>1, <2>2
<1>9. CASE n.nostart
  <2>1. xfer[m + 1].len > 0
    BY <1>4, <1>5, <1>6, <1>9, MessageFacts
  <2>2. IsrByte(xfer[m + 1], m + 1, 0, Direction(m + 1))
    BY <1>2, <1>6, <1>9 DEF Direction
  <2> QED
    BY <1>1, <1>5, <1>8, <2>1, <2>2, IsrByteSound
<1>10. CASE ~ n.nostart
  <2>1. state' = "START" /\ pos' = 0 /\ Issue(Start(m + 1))
    BY <1>2, <1>10
  <2>2. /\ wire' = Start(m + 1) /\ tip' = TRUE /\ ~ al'
        /\ UNCHANGED <<stopping, bus, nack, rxr>>
    BY <2>1, <1>3 DEF Issue
  <2>3. IrqTypes'
    <3>1. wire' \in Command
      BY <2>2, <1>4, CommandFacts
    <3>2. state' \in States /\ pos' \in Nat /\ nmsgs' \in Nat /\ m' \in Nat
      BY <1>1, <1>4, <1>5, <2>1 DEF States
    <3>3. al' \in BOOLEAN
      BY <2>1, Zenon DEF Issue
    <3> QED
      BY <1>1, <1>3, <2>2, <3>1, <3>2, <3>3, IsrMovedKeeps DEF Sound, IrqTypes, HwTypeOK
  <2>4. WaitPlace' /\ WaitWire'
    BY <1>1, <1>4, <1>5, <2>1, <2>2, IsrMovedKeeps DEF WaitPlace, WaitWire, Over
  <2>5. BusAgrees'
    BY <1>4, <2>2, OpFacts DEF BusAgrees
  <2> QED
    BY <1>1, <1>8, <2>1, <2>3, <2>4, <2>5, IsrMovedSound
<1> QED
  BY <1>9, <1>10

LEMMA IsrDoneSound == ASSUME Channel, Sound, IsrDone PROVE Sound'
<1>1. /\ IsrMoved /\ nmsgs = 1 /\ nmsgs' = 0 /\ m' = m + 1 /\ pos' = 0
      /\ state' = "DONE" /\ IssueStop
  BY DEF IsrDone
<1>2. PICK g \in Found(m) : AllMoved(g, IsrPos)
  BY DEF IsrDone
<1>3. isr = "act" /\ state \notin Over /\ ~ al /\ rx' \in SUBSET (Slot \X Slot)
  BY <1>1, IsrMovedFacts
<1>4. /\ m \in 1 .. Len(xfer) /\ nmsgs = Len(xfer) - m + 1 /\ bus = "ours" /\ ~ tip
      /\ xfer \in Transfers /\ Len(xfer) \in Nat
  BY <1>3, IsrFacts
<1>5. m' = Len(xfer) + 1
  BY <1>1, <1>4
<1>6. wire' = Stop /\ stopping' = TRUE /\ UNCHANGED <<tip, bus, al, nack, rxr>>
  BY <1>1 DEF IssueStop
<1>7. IrqTypes'
  BY <1>1, <1>3, <1>4, <1>6, CommandFacts, IsrMovedKeeps
     DEF Sound, IrqTypes, HwTypeOK, States
<1>8. WaitPlace' /\ WaitWire'
  BY <1>1, <1>5, <1>6, IsrMovedKeeps DEF WaitPlace, WaitWire, Over
<1>9. BusAgrees'
  BY <1>4, <1>6, OpFacts DEF BusAgrees
<1>10. ASSUME NEW s \in ReadSlots(xfer), s[1] < m' \/ (s[1] = m' /\ s[2] <= pos')
       PROVE  <<s, s>> \in rx'
  <2>1. s[1] \in 1 .. Len(xfer)
    BY <1>4, ReadSlotFacts
  <2>2. s[1] < m + 1
    BY <1>4, <1>5, <1>1, <2>1
  <2> QED
    BY <1>1, <1>2, <2>2, MessageIsMoved
<1> QED
  BY <1>1, <1>7, <1>8, <1>9, <1>10, IsrMovedSound

LEMMA IsrSound == ASSUME Channel, Sound, Isr PROVE Sound'
  BY IsrOverSound, IsrFailsSound, IsrNextByteSound, IsrNextMessageSound, IsrDoneSound
     DEF Isr

-----------------------------------------------------------------------------
(* A step that leaves nothing behind keeps all of it. *)
LEMMA SoundStep ==
    ASSUME Channel, hurt = {} => Sound, [IrqNext]_irqVars, hurt' = {}
    PROVE  hurt = {} /\ Sound'
<1>1. CASE UNCHANGED irqVars
  BY <1>1 DEF irqVars, irq, vars, hw, drv, call, Sound, IrqTypes, HwTypeOK, PolledAgrees,
              IInv, TypeOK, Place, WireAgrees, StatusAgrees, StoredSoFar, Active,
              Between, Called, WaitPlace, WaitWire, BusAgrees, Turn, WaitStored, Waiting,
              BytesInPlace, OkIsComplete
<1>2. CASE IsrEnter
  <2>1. hurt = {}
    BY <1>2 DEF IsrEnter
  <2> QED
    BY <1>2, <2>1, IsrEnterSound
<1>3. CASE Noting /\ ~ IsrEnter
  <2>1. hurt = {} /\ Leavings = {} /\ Sound
    BY <1>3, HurtStep DEF Noting
  <2>2. CASE IrqXfer
    BY <2>1, <2>2, XferSound
  <2>3. CASE Caller
    BY <2>1, <2>3, ChooseSound, StartSound, ReturnSound, WaitSound, PolledSound DEF Caller
  <2>4. CASE Time
    BY <2>1, <2>4, WaitSound
  <2>5. CASE Isr
    BY <2>1, <2>5, IsrSound
  <2>6. CASE Controller \/ Other
    BY <2>1, <2>6, OutsideSound
  <2> QED
    BY <1>1, <1>3, <2>1, <2>2, <2>3, <2>4, <2>5, <2>6 DEF IrqNext, Running, Passing
<1> QED
  BY <1>1, <1>2, <1>3 DEF IrqNext, Running, Passing

LEMMA IrqInvStep == IrqIInv /\ [IrqNext]_irqVars => IrqIInv'
  BY ChannelStep, BatonStep, SoundStep DEF IrqIInv

(* Interrupt mode: caller, handler and controller agree on the place of a *)
(* transfer, on the command on the wires and on who has the next move, in *)
(* ocores_xfer, ocores_isr and ocores_process, for as long as no call has *)
(* come back too soon.                                                     *)
THEOREM IrqAgreement == IrqSpec => []IrqIInv
<1>1. IrqInit => Baton
  BY DEF IrqInit, Init, HwInit, Baton, Waiting
<1>2. IrqInit => IrqIInv
  BY <1>1, InitChannel, InitSound DEF IrqIInv
<1> QED
  BY <1>2, IrqInvStep, PTL DEF IrqSpec

(* Interrupt mode stores every byte that was read to its place, and a     *)
(* call that returns num has filled every buffer, as long as no call came *)
(* back before the controller was through (ocores_process, ocores_xfer).  *)
THEOREM IrqBuffers == IrqSpec => []IrqBuffersSafe
<1>1. IrqIInv => IrqBuffersSafe
  BY DEF IrqIInv, Sound, WaitStored, BytesInPlace, OkIsComplete, IrqBuffersSafe
<1> QED
  BY <1>1, IrqAgreement, PTL

(* ocores_isr follows the message pointer of a call that has returned only *)
(* after a call timed out or returned before its STOP was handled.        *)
THEOREM IrqMessages == IrqSpec => []HandlerHasItsMessages
<1>1. IrqIInv => HandlerHasItsMessages
  <2> SUFFICES ASSUME IrqIInv, isr = "act", ~ alive
               PROVE  hurt \cap {"late", "early"} # {}
    BY DEF HandlerHasItsMessages
  <2>1. handler /\ hurt \subseteq {"late", "early", "odd"}
    BY DEF IrqIInv, Channel
  <2>2. ~ (hurt \subseteq {"odd"})
    BY <2>1 DEF IrqIInv, Baton
  <2> QED
    BY <2>1, <2>2
<1> QED
  BY <1>1, IrqAgreement, PTL

-----------------------------------------------------------------------------
(* Interrupt mode writes START without a look at BUSY and every other      *)
(* command without a look at TIP (ocores_xfer, ocores_process): the        *)
(* controller is done with the command before all the same, as long as no  *)
(* call has come back too soon.                                            *)
LEMMA IrqOneCommandStep ==
    ASSUME IrqIInv, IrqNext, hurt = {}, IrqCommandWritten
    PROVE  ~ tip /\ ~ stopping
<1>1. Channel /\ Sound
  BY DEF IrqIInv
<1>2. CASE IrqStart
  BY <1>1, <1>2, OpFacts DEF IrqStart, Sound, Between, BusAgrees
<1>3. CASE Polled
  <2>1. Driver /\ pc \in Steps /\ ~ handler
    BY <1>1, <1>3, DriverSteps DEF Polled, Channel
  <2>2. IInv /\ Next /\ (state = "INIT" => ~ stopping)
    BY <1>1, <2>1 DEF Sound, PolledAgrees, Steps, PCs, Next
  <2>3. CommandWritten
    BY <2>1, <1>3 DEF IrqCommandWritten, Steps, Polled, irq
  <2> QED
    BY <2>2, <2>3, OneCommandStep
<1>4. CASE Isr /\ ~ IsrOver
  <2>1. isr = "act" /\ state \notin Over
    BY <1>4 DEF Isr, IsrArbLost, IsrNack, IsrNextByte, IsrNextMessage, IsrDone, IsrMoved,
                IsrLeaves
  <2> QED
    BY <1>1, <2>1, IsrFacts
<1>5. ~ (IrqXfer \/ ChooseMode \/ IrqReturn \/ Sleep \/ Expire \/ Time \/ IsrEnter
           \/ IsrOver \/ Controller \/ Other)
  BY DEF IrqCommandWritten, CommandWritten, IrqXfer, ChooseMode, IrqReturn, Sleep, Expire,
         Time, Tick, IsrEnter, IsrOver, Controller, Complete, LoseArbitration, EndStop,
         Other, OtherMaster, hw, vars, irq, drv, call
<1> QED
  BY <1>2, <1>3, <1>4, <1>5 DEF IrqNext, Running, Passing, Caller

(* Interrupt mode: as long as no call came back too soon, ocores_xfer and  *)
(* ocores_process write a command only when the controller is done with   *)
(* the one before, its STOP included, although neither looks.              *)
THEOREM IrqOneCommand == IrqSpec => IrqOneCommandAtATime
<1>1. IrqIInv /\ [IrqNext]_irqVars =>
        [hurt = {} /\ IrqCommandWritten => ~ tip /\ ~ stopping]_irqVars
  BY IrqOneCommandStep
<1> QED
  BY <1>1, IrqAgreement, PTL DEF IrqSpec, IrqOneCommandAtATime

-----------------------------------------------------------------------------
(* A channel without a handler on which a call has timed out holding the  *)
(* bus.  Arbitration is lost, the bus is ours, or START was written again *)
(* and will end in one of the two.  A call that polls stays in INIT, a    *)
(* call that waits stays in START, until one takes the branch of the      *)
(* other.                                                                  *)
NoWay ==
    \/ "odd" \in hurt
    \/ /\ result # "ok"
       /\ al \/ tip \/ (bus = "ours" /\ ~ stopping)
       /\ pc = "mode" => state \in {"INIT", "START"}
       /\ pc \in {"start", "wait", "sleep"} => state = "START"
       /\ pc \in Steps => state = "INIT" \/ (pc = "check" /\ state = "ERROR")

LEMMA NoWayCall ==
    ASSUME Channel, ~ handler, NoWay, "odd" \notin hurt, "odd" \notin Leavings,
           IrqXfer \/ ChooseMode \/ IrqStart \/ IrqReturn \/ Sleep \/ Expire \/ Time
    PROVE  NoWay'
<1> USE DEF NoWay, Steps
<1>1. CASE IrqXfer
  BY <1>1 DEF IrqXfer, UseIrq, FirstState, hw
<1>2. CASE ChooseMode
  <2>1. <<pc', state>> \notin {<<"loop", "START">>, <<"start", "INIT">>}
    BY <1>2 DEF ChooseMode, Leavings
  <2>2. pc' \in {"loop", "start"} /\ state \in {"INIT", "START"}
    BY <1>2 DEF ChooseMode
  <2>3. \/ pc' = "loop" /\ state = "INIT"
        \/ pc' = "start" /\ state = "START"
    BY <2>1, <2>2
  <2> QED
    BY <1>2, <2>3 DEF ChooseMode, hw, drv
<1>3. CASE IrqStart
  BY <1>3 DEF IrqStart, Issue, drv
<1>4. CASE IrqReturn
  BY <1>4 DEF IrqReturn, EndsWait, Over, hw, drv
<1>5. CASE Sleep \/ Expire
  BY <1>5 DEF Sleep, Expire, hw, drv
<1>6. CASE Time
  BY <1>6 DEF Time, Tick, hw, drv
<1> QED
  BY <1>1, <1>2, <1>3, <1>4, <1>5, <1>6

LEMMA NoWayPoll ==
    ASSUME Channel, ~ handler, NoWay, "odd" \notin hurt, Polled
    PROVE  NoWay'
<1> USE DEF NoWay, Steps
<1>1. CASE LoopHead \/ TimeOut \/ ReadStatus
  BY <1>1 DEF LoopHead, TimeOut, ReadStatus, hw, drv
<1>2. CASE Check
  BY <1>2 DEF Check, Channel, hw, drv
<1>3. CASE PollBusy
  BY <1>3 DEF PollBusy, PollReturns, hw, drv
<1>4. CASE PollArbLost
  <2>1. pc = "act" /\ ~ stat.tip /\ stat.al
    BY <1>4 DEF PollArbLost, ArbLost
  <2>2. al
    BY <2>1 DEF Channel, StatusAgrees
  <2> QED
    BY <1>4, <2>2 DEF PollArbLost, Fail, IssueStop, PollReturns
<1>5. ASSUME PollAddr \/ PollAddr10 \/ PollNack \/ PollByte \/ PollNextMessage \/ PollDone
      PROVE  FALSE
  <2>1. pc = "act" /\ ~ stat.tip /\ ~ ArbLost
    BY <1>5 DEF PollAddr, PollAddr10, PollNack, PollByte, PollNextMessage, PollDone, Moved,
                Proceed
  <2>2. state = "INIT"
    BY <2>1
  <2>3. ~ stat.busy
    BY <1>5, <2>2 DEF PollAddr, PollAddr10, PollNack, PollByte, PollNextMessage, PollDone,
                      Moved, Proceed, BusBusy
  <2> QED
    BY <2>1, <2>3 DEF Channel, StatusAgrees, ArbLost
<1> QED
  BY <1>1, <1>2, <1>3, <1>4, <1>5 DEF Polled, Driver, Poll

LEMMA NoWayOutside ==
    ASSUME NoWay, "odd" \notin hurt, Controller \/ Other
    PROVE  NoWay'
  BY DEF NoWay, Controller, Other, Complete, LoseArbitration, EndStop, OtherMaster, drv, call

LEMMA NoWayStep == IrqIInv /\ ~ handler /\ NoWay /\ [IrqNext]_irqVars => ~ handler' /\ NoWay'
<1> SUFFICES ASSUME IrqIInv, ~ handler, NoWay, [IrqNext]_irqVars
             PROVE  ~ handler' /\ NoWay'
  OBVIOUS
<1>1. Channel /\ isr = "idle" /\ ~ pending
  BY DEF IrqIInv, Channel
<1>2. CASE UNCHANGED irqVars
  BY <1>2 DEF irqVars, irq, vars, hw, drv, call, NoWay
<1>3. CASE IrqNext
  <2>1. ~ IsrEnter /\ ~ Isr
    BY <1>1 DEF IsrEnter, Interrupted, Isr, IsrOver, IsrArbLost, IsrNack, IsrNextByte,
                IsrNextMessage, IsrDone, IsrMoved, IsrLeaves
  <2>2. Noting /\ (IrqXfer \/ Caller \/ Time \/ Controller \/ Other)
    BY <1>3, <2>1 DEF IrqNext, Running, Passing
  <2>3. ~ handler'
    BY <2>2 DEF IrqXfer, Caller, ChooseMode, IrqStart, IrqReturn, Sleep, Expire, Polled,
                Time, Controller, Other, irq
  <2>4. CASE "odd" \in hurt'
    BY <2>3, <2>4 DEF NoWay
  <2>5. CASE "odd" \notin hurt'
    <3>1. "odd" \notin hurt /\ "odd" \notin Leavings
      BY <2>2, <2>5 DEF Noting
    <3> QED
      BY <1>1, <2>2, <2>3, <3>1, NoWayCall, NoWayPoll, NoWayOutside DEF Caller
  <2> QED
    BY <2>4, <2>5
<1> QED
  BY <1>2, <1>3

(* On a channel without a handler (register_intr_handler serves channel 0 *)
(* only), a call that timed out with the bus held, in either mode, is     *)
(* followed by no call that succeeds, unless that call takes the branch   *)
(* of one mode with the state of the other.                               *)
THEOREM SwitchStrands == IrqSpec => SwitchStrandsBus
<1>1. Stranded => NoWay
  BY DEF Stranded, NoWay, Steps
<1>2. NoWay => (result = "ok" => "odd" \in hurt)
  BY DEF NoWay
<1> QED
  BY <1>1, <1>2, NoWayStep, IrqAgreement, PTL DEF IrqSpec, SwitchStrandsBus

-----------------------------------------------------------------------------
(* Interrupt mode keeps the promise of I2CTransfer. *)

(* No message with a ten bit address: ocores_func does not offer them, and *)
(* ocores_process, unlike ocores_poll, would send only their first byte.  *)
SevenBitOnly == \A t \in Transfers : \A k \in 1 .. Len(t) : ~ t[k].ten

LEMMA IrqFollowsSame ==
    \A t, c, d : /\ Follows(t, c, d) <=> IrqPromise!Follows(t, c, d)
                 /\ Completes(t, c) <=> IrqPromise!Completes(t, c)
  BY DEF Follows, Completes, EndsMessage, AddressSent, Opening, Data, Start, Addr2, Write,
     Read, IrqPromise!Follows, IrqPromise!Completes, IrqPromise!EndsMessage,
     IrqPromise!AddressSent, IrqPromise!Opening, IrqPromise!Data, IrqPromise!Start,
     IrqPromise!Addr2, IrqPromise!Write, IrqPromise!Read

LEMMA IrqInitRefines == IrqInit => IrqPromise!Init
  BY DEF IrqInit, Init, HwInit, IrqPromise!Init, IrqPhase, IrqResult, Stop, IrqPromise!Stop

(* While a call polls, both modes are mapped to the same promise. *)
LEMMA SamePromise ==
    ASSUME IrqPhase = Phase, IrqPhase' = Phase', IrqResult = result, IrqResult' = result',
           [Promise!Next]_(Promise!vars)
    PROVE  [IrqPromise!Next]_(IrqPromise!vars)
<1>1. CASE UNCHANGED Promise!vars
  BY <1>1 DEF Promise!vars, IrqPromise!vars
<1>2. CASE Promise!Call \/ Promise!Open \/ Promise!Abort \/ Promise!Return \/ Promise!GiveUp
  BY <1>2 DEF Promise!Call, Promise!Open, Promise!Abort, Promise!Return, Promise!GiveUp,
     Promise!Stop, Promise!Start, IrqPromise!Next, IrqPromise!Call, IrqPromise!Open,
     IrqPromise!Abort, IrqPromise!Return, IrqPromise!GiveUp, IrqPromise!Stop,
     IrqPromise!Start
<1>3. CASE Promise!Continue
  BY <1>3, FollowsSame, IrqFollowsSame
     DEF Promise!Continue, IrqPromise!Next, IrqPromise!Continue
<1>4. CASE Promise!Finish
  BY <1>4, FollowsSame, IrqFollowsSame
     DEF Promise!Finish, Promise!Stop, IrqPromise!Next, IrqPromise!Finish, IrqPromise!Stop
<1> QED
  BY <1>1, <1>2, <1>3, <1>4 DEF Promise!Next

LEMMA IrqPolledRefines ==
    ASSUME Channel, Sound, Polled
    PROVE  [IrqPromise!Next]_(IrqPromise!vars)
<1>1. Driver /\ pc \in Steps /\ pc' \in PCs /\ ~ handler
  BY DriverSteps DEF Polled, Channel
<1>2. IInv /\ Next
  BY <1>1 DEF Sound, PolledAgrees, Steps, PCs, Next
<1>3. result # "EIO" /\ result' # "EIO"
  BY <1>2, NextInv DEF IInv, TypeOK, Results
<1>4. IrqPhase = Phase /\ IrqPhase' = Phase' /\ IrqResult = result /\ IrqResult' = result'
  BY <1>1, <1>3 DEF Steps, PCs, IrqPhase, IrqResult, Phase
<1>5. [Promise!Next]_(Promise!vars)
  BY <1>2, NextRefines
<1> QED
  BY <1>4, <1>5, SamePromise

(* The steps that neither write a command nor open or close a call. *)
LEMMA IrqSilentRefines ==
    ASSUME Channel, Sound, Leavings = {},
           ChooseMode \/ Sleep \/ Expire \/ Time \/ Controller \/ Other
    PROVE  UNCHANGED IrqPromise!vars
<1>1. UNCHANGED <<xfer, wire, result, state>>
  BY DEF ChooseMode, Sleep, Expire, Time, Tick, Controller, Complete, LoseArbitration,
         EndStop, Other, OtherMaster, hw, drv, call
<1>2. IrqPhase' = IrqPhase
  <2>1. CASE ChooseMode
    <3>1. <<pc', state>> \notin {<<"loop", "START">>, <<"start", "INIT">>}
      BY <2>1 DEF ChooseMode, Leavings
    <3>2. pc = "mode" /\ pc' \in {"loop", "start"} /\ state \in {"INIT", "START"}
      BY <2>1 DEF ChooseMode, Sound, Called
    <3>3. \/ pc' = "loop" /\ state = "INIT"
          \/ pc' = "start"
      BY <3>1, <3>2
    <3> QED
      BY <1>1, <3>2, <3>3 DEF IrqPhase, Phase
  <2>2. CASE ~ ChooseMode
    <3>1. pc' = pc \/ (pc \in {"wait", "sleep"} /\ pc' \in {"wait", "sleep"})
      BY <2>2 DEF Sleep, Expire, Time, Tick, Controller, Other, call
    <3> QED
      BY <1>1, <3>1 DEF IrqPhase, Phase
  <2> QED
    BY <2>1, <2>2
<1> QED
  BY <1>1, <1>2 DEF IrqPromise!vars, IrqResult

LEMMA IrqCallRefines ==
    ASSUME Channel, Sound, Leavings = {}, IrqXfer \/ IrqStart \/ IrqReturn
    PROVE  IrqPromise!Next
<1>1. CASE IrqXfer
  <2>1. IrqPromise!Call
    BY <1>1 DEF IrqXfer, IrqPromise!Call, IrqPhase, IrqResult, hw
  <2> QED
    BY <2>1 DEF IrqPromise!Next
<1>2. CASE IrqStart
  <2>1. wire = Stop /\ wire' = Start(1) /\ state' = "START" /\ UNCHANGED <<xfer, result>>
    BY <1>2 DEF IrqStart, Sound, Between, Called, Issue, drv
  <2>2. IrqPhase = "called" /\ IrqPhase' = "open"
    BY <1>2, <2>1 DEF IrqStart, IrqPhase, Phase
  <2>3. IrqPromise!Open
    BY <2>1, <2>2
       DEF IrqPromise!Open, IrqPromise!Stop, Stop, IrqPromise!Start, Start, IrqResult
  <2> QED
    BY <2>3 DEF IrqPromise!Next
<1>3. CASE IrqReturn
  <2>1. pc = "wait" /\ pc' = "idle" /\ UNCHANGED <<xfer, wire>>
    BY <1>3 DEF IrqReturn, hw, drv
  <2>2. "late" \notin Leavings
    OBVIOUS
  <2>3. state \in Over /\ result' = IF state = "DONE" THEN "ok" ELSE "EIO"
    BY <1>3, <2>1, <2>2 DEF IrqReturn, Leavings, EndsWait
  <2>4. /\ IrqPhase = IF state = "DONE" THEN "done" ELSE "failed"
        /\ IrqPhase' = "idle"
        /\ IrqResult' = IF state = "DONE" THEN "ok" ELSE "ENXIO"
    BY <2>1, <2>3 DEF IrqPhase, IrqResult, Phase, Over
  <2>5. IrqPromise!Return
    BY <2>1, <2>4 DEF IrqPromise!Return
  <2> QED
    BY <2>5 DEF IrqPromise!Next
<1> QED
  BY <1>1, <1>2, <1>3

(* The handler ends a transfer with STOP: it failed, or it is complete.   *)
LEMMA IsrFailsRefines ==
    ASSUME Channel, Sound, IsrArbLost \/ IsrNack
    PROVE  IrqPromise!Abort
<1>1. isr = "act" /\ state \notin Over
  BY DEF IsrArbLost, IsrNack, IsrLeaves
<1>2. /\ state' = "ERROR" /\ wire' = Stop /\ UNCHANGED <<xfer, pc, result>>
  BY DEF IsrArbLost, IsrNack, IsrFails, IssueStop, call
<1>3. Waiting /\ state \in {"START", "WRITE", "READ"}
  BY <1>1, IsrFacts
<1>4. IrqPhase = "open" /\ IrqPhase' = "failed"
  BY <1>2, <1>3 DEF Waiting, IrqPhase, Phase
<1> QED
  BY <1>2, <1>4 DEF IrqPromise!Abort, IrqPromise!Stop, Stop, IrqResult

(* A message of which every byte is moved is ended by the command on the  *)
(* wires.                                                                  *)
LEMMA IsrMovedEnds ==
    ASSUME SevenBitOnly, Channel, Sound, IsrMoved, IsrPos = xfer[m].len
    PROVE  EndsMessage(xfer, wire)
<1>1. isr = "act" /\ state \notin Over
      /\ \/ IsrPos = 0 /\ wire = Start(m)
         \/ IsrPos > 0 /\ wire.op \in {"write", "read"} /\ wire.byte = IsrPos
  BY IsrMovedFacts
<1>2. xfer \in Transfers /\ m \in 1 .. Len(xfer) /\ wire.msg = m
  BY <1>1, IsrFacts
<1>3. ~ xfer[m].ten
  BY <1>2 DEF SevenBitOnly
<1> QED
  BY <1>1, <1>2, <1>3, OpFacts DEF EndsMessage, AddressSent

LEMMA IsrDoneRefines ==
    ASSUME SevenBitOnly, Channel, Sound, IsrDone
    PROVE  IrqPromise!Finish
<1>1. /\ IsrMoved /\ nmsgs = 1 /\ state' = "DONE" /\ wire' = Stop
      /\ UNCHANGED <<xfer, pc, result>>
  BY DEF IsrDone, IsrMoved, IssueStop, call
<1>2. PICK g \in Found(m) : AllMoved(g, IsrPos)
  BY DEF IsrDone
<1>3. EndsMessage(xfer, wire) /\ isr = "act" /\ state \notin Over
  BY <1>1, <1>2, MessageIsMoved, IsrMovedFacts, IsrMovedEnds
<1>4. /\ Waiting /\ state \in {"START", "WRITE", "READ"} /\ wire.msg = m
      /\ m \in 1 .. Len(xfer) /\ nmsgs = Len(xfer) - m + 1 /\ Len(xfer) \in Nat
  BY <1>3, IsrFacts
<1>5. wire.msg = Len(xfer)
  BY <1>1, <1>4
<1>6. Completes(xfer, wire)
  BY <1>3, <1>5 DEF Completes
<1>7. IrqPhase = "open" /\ IrqPhase' = "done"
  BY <1>1, <1>4 DEF Waiting, IrqPhase, Phase
<1> QED
  BY <1>1, <1>6, <1>7, IrqFollowsSame
     DEF IrqPromise!Finish, IrqPromise!Stop, Stop, IrqResult

(* Every other step of the handler writes the command that has to follow. *)
LEMMA IsrContinues ==
    ASSUME Channel, Sound, IsrMoved, Follows(xfer, wire, wire'), state' \notin Over,
           state' # "INIT"
    PROVE  IrqPromise!Continue
<1>1. /\ isr = "act" /\ state \notin Over /\ UNCHANGED <<xfer, pc, result>>
  BY DEF IsrMoved, IsrLeaves, call
<1>2. Waiting /\ state \in {"START", "WRITE", "READ"}
  BY <1>1, IsrFacts
<1>3. IrqPhase = "open" /\ IrqPhase' = "open"
  BY <1>1, <1>2 DEF Waiting, IrqPhase, Phase, Over
<1> QED
  BY <1>1, <1>3, IrqFollowsSame DEF IrqPromise!Continue, IrqResult

LEMMA IsrNextByteRefines ==
    ASSUME SevenBitOnly, Channel, Sound, IsrNextByte
    PROVE  IrqPromise!Continue
<1> USE DEF IsrNextByte
<1>1. /\ Found(m) = {xfer[m]} /\ IsrPos \in 0 .. xfer[m].len
      /\ IsrDirection(xfer[m]) = Direction(m)
      /\ isr = "act" /\ state \notin Over
      /\ \/ IsrPos = 0 /\ wire = Start(m)
         \/ IsrPos > 0 /\ wire.op \in {"write", "read"} /\ wire.byte = IsrPos
  BY IsrMovedFacts
<1>2. /\ m \in 1 .. Len(xfer) /\ xfer \in Transfers /\ xfer[m].len \in Nat /\ wire.msg = m
  BY <1>1, IsrFacts
<1>3. ~ AllMoved(xfer[m], IsrPos) /\ IsrByte(xfer[m], m, IsrPos, Direction(m))
  BY <1>1
<1>4. IsrPos < xfer[m].len
  BY <1>1, <1>2, <1>3 DEF AllMoved
<1>5. wire' = Data(xfer, m, IsrPos + 1) /\ state' \in {"READ", "WRITE"}
  BY <1>3 DEF IsrByte, Direction, Data, NackNext, Issue
<1>6. Follows(xfer, wire, wire')
  <2>1. CASE IsrPos = 0 /\ wire = Start(m)
    <3>1. ~ xfer[m].ten /\ IsrPos + 1 = 1
      BY <1>2, <2>1 DEF SevenBitOnly
    <3>2. wire' = Data(xfer, wire.msg, 1) /\ xfer[wire.msg].len > 0
      BY <1>2, <1>4, <1>5, <2>1, <3>1
    <3>3. AddressSent(xfer, wire)
      BY <1>2, <2>1, <3>1, OpFacts DEF AddressSent
    <3> QED
      BY <3>2, <3>3 DEF Follows
  <2>2. CASE IsrPos > 0 /\ wire.op \in {"write", "read"} /\ wire.byte = IsrPos
    BY <1>2, <1>4, <1>5, <2>2 DEF Follows
  <2> QED
    BY <1>1, <2>1, <2>2
<1> QED
  BY <1>5, <1>6, IsrContinues DEF Over

LEMMA IsrNextMessageRefines ==
    ASSUME SevenBitOnly, Channel, Sound, IsrNextMessage
    PROVE  IrqPromise!Continue
<1>1. IsrMoved /\ nmsgs > 1
  BY DEF IsrNextMessage
<1>2. PICK g \in Found(m), n \in Found(m + 1) :
          /\ AllMoved(g, IsrPos)
          /\ \/ ~ n.nostart /\ state' = "START" /\ pos' = 0 /\ Issue(Start(m + 1))
             \/ n.nostart /\ IsrByte(n, m + 1, 0, IF n.rd THEN "READ" ELSE "WRITE")
  BY DEF IsrNextMessage
<1>3. EndsMessage(xfer, wire) /\ isr = "act" /\ state \notin Over
  BY <1>1, <1>2, MessageIsMoved, IsrMovedFacts, IsrMovedEnds
<1>4. /\ wire.msg = m /\ m \in 1 .. Len(xfer) /\ nmsgs = Len(xfer) - m + 1
      /\ Len(xfer) \in Nat
  BY <1>3, IsrFacts
<1>5. m + 1 <= Len(xfer) /\ wire.msg < Len(xfer)
  BY <1>1, <1>4
<1>6. n = xfer[m + 1]
  BY <1>1, <1>5, IsrMovedFacts
<1>7. wire' = Opening(xfer, m + 1) /\ state' \in {"START", "READ", "WRITE"}
  <2>1. CASE n.nostart
    <3>1. 0 + 1 = 1
      OBVIOUS
    <3> QED
      BY <1>2, <1>6, <2>1, <3>1 DEF IsrByte, Opening, Data, NackNext, Issue
  <2>2. CASE ~ n.nostart
    BY <1>2, <1>6, <2>2 DEF Opening, Issue
  <2> QED
    BY <2>1, <2>2
<1>8. Follows(xfer, wire, wire')
  BY <1>3, <1>4, <1>5, <1>7 DEF Follows
<1> QED
  BY <1>1, <1>7, <1>8, IsrContinues DEF Over

LEMMA IsrOverRefines ==
    ASSUME Channel, Sound, IsrOver \/ IsrEnter
    PROVE  UNCHANGED IrqPromise!vars
<1>1. /\ UNCHANGED <<xfer, wire, result, state>>
      /\ pc' = pc \/ (pc = "sleep" /\ pc' = "wait")
  BY DEF IsrOver, IsrEnter, hw, drv, vars, call
<1> QED
  BY <1>1 DEF IrqPromise!vars, IrqPhase, IrqResult, Phase

LEMMA IrqNextRefines ==
    ASSUME SevenBitOnly, IrqIInv, [IrqNext]_irqVars, hurt' = {}
    PROVE  [IrqPromise!Next]_(IrqPromise!vars)
<1>1. Channel /\ hurt = {} /\ Sound
  BY SoundStep DEF IrqIInv
<1>2. CASE UNCHANGED irqVars
  BY <1>2 DEF irqVars, vars, hw, drv, call, IrqPromise!vars, IrqPhase, IrqResult, Phase
<1>3. CASE IsrEnter \/ IsrOver
  BY <1>1, <1>3, IsrOverRefines
<1>4. CASE Isr /\ ~ IsrOver
  BY <1>1, <1>4, IsrFailsRefines, IsrDoneRefines, IsrNextByteRefines, IsrNextMessageRefines
     DEF Isr, IrqPromise!Next
<1>5. CASE Noting /\ (IrqXfer \/ Caller \/ Time \/ Controller \/ Other)
  <2>1. Leavings = {}
    BY <1>5 DEF Noting
  <2> QED
    BY <1>1, <1>5, <2>1, IrqCallRefines, IrqSilentRefines, IrqPolledRefines DEF Caller
<1> QED
  BY <1>2, <1>3, <1>4, <1>5 DEF IrqNext, Running, Passing

(* Interrupt mode keeps what I2CTransfer promises to callers, as long as  *)
(* no call has come back too soon: the commands of ocores_xfer and        *)
(* ocores_process come in the order of the messages, and num is returned  *)
(* only after all of them and their STOP.                                  *)
THEOREM IrqImplementation == SevenBitOnly => (IrqSpec => IrqKeepsPromise)
<1> SUFFICES ASSUME SevenBitOnly PROVE IrqSpec => IrqKeepsPromise
  OBVIOUS
<1>1. IrqIInv /\ [IrqNext]_irqVars =>
          [hurt' = {} => [IrqPromise!Next]_(IrqPromise!vars)]_irqVars
  BY IrqNextRefines
<1> QED
  BY <1>1, IrqInitRefines, IrqAgreement, PTL DEF IrqSpec, IrqKeepsPromise
=============================================================================
