------------------------------ MODULE OcoresI2C ------------------------------
(***************************************************************************)
(* Polled transfers of the Z9264F FPGA i2c driver (use_irq = 0, the        *)
(* default): ocores_xfer and ocores_poll on one adapter, against the       *)
(* controller of module OpenCores.                                         *)
(*                                                                         *)
(* The i2c core serialises the calls of one adapter, and without           *)
(* interrupts nobody else touches struct ocores_i2c, so one caller at a    *)
(* time is all there is; what interleaves is the driver, the controller,   *)
(* other masters and time.  A poll reads the status register in one step   *)
(* and acts on it in another.                                              *)
(***************************************************************************)
EXTENDS OpenCores

CONSTANT
    Budget      \* ticks a call may spend without progress (one second)

ASSUME BudgetAssumption == Budget \in Nat \ {0}

VARIABLES
    \* struct ocores_i2c
    xfer,       \* the caller's message array
    m,          \* the message i2c->msg points at, 1 for the first
    pos,        \* i2c->pos
    nmsgs,      \* i2c->nmsgs
    state,      \* i2c->state
    \* the caller's buffers
    rx,         \* the stores made: <<place stored to, place of the byte>>
    \* locals of ocores_xfer and ocores_poll
    pc,         \* "idle", or the next step of the call
    stat,       \* the status ocores_poll read
    ret,        \* what ocores_poll returned
    left,       \* ticks until `timeout'
    result      \* what the latest call returned

drv  == <<xfer, m, pos, nmsgs, state, rx>>
call == <<pc, stat, ret, left, result>>
vars == <<hw, drv, call>>

States  == {"DONE", "INIT", "ADDR", "ADDR10", "START", "WRITE", "READ", "ERROR"}
PCs     == {"idle", "loop", "read", "act", "check"}
Results == {"none", "ok", "EAGAIN", "ENXIO", "ETIMEDOUT"}

(* Types of every variable of struct ocores_i2c, of the call and of the *)
(* controller.                                                           *)
TypeOK ==
    /\ HwTypeOK
    /\ xfer \in Transfers
    /\ m \in Nat /\ pos \in Nat /\ nmsgs \in Nat
    /\ state \in States
    /\ rx \in SUBSET (Slot \X Slot)
    /\ pc \in PCs
    /\ stat \in StatusType
    /\ ret \in {"0", "EBUSY", "EAGAIN", "ENXIO"}
    /\ left \in 0 .. Budget
    /\ result \in Results

Init ==
    /\ HwInit
    /\ xfer \in Transfers /\ m = 1 /\ pos = 0 /\ nmsgs = 0
    /\ state = "DONE" /\ rx = {}
    /\ pc = "idle" /\ stat = Status /\ ret = "0" /\ left = 0
    /\ result = "none"

-----------------------------------------------------------------------------
(* Decisions of the code, each with a slip next to it.  The slips belong  *)
(* to no specification; they show that the properties below would notice. *)

(* Progress buys another second, EBUSY does not. *)
Slip_TimeAddsUp       == IF ret = "0" THEN left + Budget ELSE left
Slip_EveryPollExtends == Budget
Extended              == IF ret = "0" THEN Budget ELSE left

Slip_StopNotAwaited == FALSE
BusBusy             == stat.busy

Slip_ArbLostOnlyWhenOpen == stat.al /\ state # "INIT"
ArbLost                  == stat.al

Slip_AnswerIgnored == FALSE
Nacked             == stat.nack

(* All bytes of the message are moved when p of them are. *)
Slip_OneByteMore(p) == p > xfer[m].len
Slip_OneByteLess(p) == p + 1 >= xfer[m].len
MessageDone(p)      == p >= xfer[m].len

(* The byte after the first p of message k is to be answered with NACK. *)
Slip_LastNackLate(k, p) == p = xfer[k].len
LastByte(k, p)          == p + 1 = xfer[k].len

-----------------------------------------------------------------------------
(* ocores_xfer *)

(* A call takes the message array and gets one second.  Of an earlier     *)
(* call only the controller's state is left.                               *)
Xfer ==
    /\ pc = "idle" /\ pc' = "loop"
    /\ xfer' \in Transfers
    /\ m' = 1 /\ pos' = 0 /\ nmsgs' = Len(xfer')
    /\ state' = "INIT" /\ rx' = {}
    /\ left' = Budget /\ result' = "none"
    /\ UNCHANGED <<hw, stat, ret>>

LoopHead ==
    /\ pc = "loop" /\ left > 0
    /\ pc' = "read"
    /\ UNCHANGED <<hw, drv, stat, ret, left, result>>

(* Out of time: no STOP is sent. *)
TimeOut ==
    /\ pc = "loop" /\ left = 0
    /\ state' = "ERROR"
    /\ result' = "ETIMEDOUT" /\ pc' = "idle"
    /\ UNCHANGED <<hw, xfer, m, pos, nmsgs, rx, stat, ret, left>>

(* After a poll: return, or go round. *)
Check ==
    /\ pc = "check"
    /\ \/ /\ state = "DONE"
          /\ result' = "ok" /\ pc' = "idle" /\ UNCHANGED left
       \/ /\ state = "ERROR"
          /\ result' = ret /\ pc' = "idle" /\ UNCHANGED left
       \/ /\ state \notin {"DONE", "ERROR"}
          /\ left' = Extended
          /\ pc' = "loop" /\ UNCHANGED result
    /\ UNCHANGED <<hw, drv, stat, ret>>

Tick ==
    /\ pc # "idle" /\ left > 0
    /\ left' = left - 1
    /\ UNCHANGED <<hw, drv, pc, stat, ret, result>>

-----------------------------------------------------------------------------
(* ocores_poll *)

ReadStatus ==
    /\ pc = "read" /\ pc' = "act"
    /\ stat' = Status
    /\ UNCHANGED <<hw, drv, ret, left, result>>

(* Every way through ocores_poll ends in a return value. *)
PollReturns(r) ==
    /\ pc' = "check" /\ ret' = r
    /\ UNCHANGED <<stat, left, result>>

Fail(r) ==
    /\ state' = "ERROR" /\ IssueStop
    /\ PollReturns(r)
    /\ UNCHANGED <<xfer, m, pos, nmsgs, rx>>

PollBusy ==
    /\ pc = "act"
    /\ \/ stat.tip
       \/ ~ stat.tip /\ ~ ArbLost /\ state = "INIT" /\ BusBusy
    /\ PollReturns("EBUSY")
    /\ UNCHANGED <<hw, drv>>

(* Checked before STATE_INIT: it fails a call that has not started too. *)
PollArbLost ==
    /\ pc = "act" /\ ~ stat.tip
    /\ ArbLost
    /\ Fail("EAGAIN")

(* What is left to do once the status shows neither TIP nor ARBLOST. *)
Proceed(states) ==
    /\ pc = "act" /\ ~ stat.tip /\ ~ ArbLost
    /\ state \in states

(* INIT falls through to ADDR when the bus is free. *)
PollAddr ==
    /\ Proceed({"INIT", "ADDR"})
    /\ state = "INIT" => ~ BusBusy
    /\ Issue(Start(m))
    /\ state' = IF xfer[m].ten THEN "ADDR10" ELSE "START"
    /\ PollReturns("0")
    /\ UNCHANGED <<xfer, m, pos, nmsgs, rx>>

(* The answer to the first byte of a ten bit address is not looked at. *)
PollAddr10 ==
    /\ Proceed({"ADDR10"})
    /\ Issue(Addr2(m))
    /\ state' = "START"
    /\ PollReturns("0")
    /\ UNCHANGED <<xfer, m, pos, nmsgs, rx>>

PollNack ==
    /\ Proceed({"START", "WRITE"}) /\ Nacked
    /\ Fail("ENXIO")

Direction(k) == IF xfer[k].rd THEN "READ" ELSE "WRITE"

(* The next byte to move is the one after the first p of message k.  A   *)
(* byte written counts when it is sent, a byte read when it is stored.   *)
NextByte(k, p) ==
    /\ IF Direction(k) = "READ"
         THEN /\ Issue(Read(k, p + 1, LastByte(k, p)))
              /\ pos' = p
         ELSE /\ Issue(Write(k, p + 1))
              /\ pos' = p + 1
    /\ state' = Direction(k)
    /\ PollReturns("0")

(* i2c->pos and the stores once the byte that was read is in the buffer. *)
PosNow == IF state = "READ" THEN pos + 1 ELSE pos
Stored == IF state = "READ" THEN rx \cup {<<<<m, pos + 1>>, rxr>>} ELSE rx

(* The controller moved a byte, or an address, and nobody objected. *)
Moved ==
    /\ Proceed({"START", "WRITE", "READ"})
    /\ state # "READ" => ~ Nacked
    /\ rx' = Stored
    /\ UNCHANGED xfer

PollByte ==
    /\ Moved /\ ~ MessageDone(PosNow)
    /\ NextByte(m, PosNow)
    /\ UNCHANGED <<m, nmsgs>>

(* The message is over: go on to the next one, if there is one. *)
PollNextMessage ==
    /\ Moved /\ MessageDone(PosNow)
    /\ nmsgs' = nmsgs - 1 /\ m' = m + 1
    /\ nmsgs' # 0
    /\ \/ /\ ~ xfer[m + 1].nostart
          /\ state' = "ADDR" /\ pos' = 0
          /\ PollReturns("0") /\ UNCHANGED hw
       \/ /\ xfer[m + 1].nostart
          /\ NextByte(m + 1, 0)

PollDone ==
    /\ Moved /\ MessageDone(PosNow)
    /\ nmsgs' = nmsgs - 1 /\ m' = m + 1 /\ pos' = 0
    /\ nmsgs' = 0
    /\ state' = "DONE" /\ IssueStop
    /\ PollReturns("0")

-----------------------------------------------------------------------------
Poll   == PollBusy \/ PollArbLost \/ PollAddr \/ PollAddr10 \/ PollNack
             \/ PollByte \/ PollNextMessage \/ PollDone
Driver == LoopHead \/ TimeOut \/ Check \/ ReadStatus \/ Poll
Hardware == HwNext /\ UNCHANGED <<drv, call>>

Next == Xfer \/ Driver \/ Tick \/ Hardware

Spec == Init /\ [][Next]_vars

(* The calling thread runs and time passes; nothing is asked of the       *)
(* controller, of the slaves or of other masters.                          *)
FairSpec == Spec /\ WF_vars(Driver) /\ WF_vars(Tick)

-----------------------------------------------------------------------------
(* Safety *)

(* A command is written, be it the same as the one before: every poll     *)
(* writes one, unless it finds the controller busy or goes on to the next *)
(* message.                                                               *)
CommandWritten ==
    \/ wire' # wire
    \/ pc = "act" /\ pc' = "check" /\ ret' # "EBUSY" /\ state' # "ADDR"

(* The driver writes a command only when the controller has carried out   *)
(* the one before, a STOP included, although a STOP never shows as TIP,   *)
(* with one exception: ARBLOST is tested before BUSY, so that the call    *)
(* after a lost arbitration writes STOP again, whether or not the STOP of *)
(* the call before is still under way.  No other command ever meets it.   *)
OneCommandAtATime ==
    [][CommandWritten =>
          /\ ~ tip
          /\ stopping => state = "INIT" /\ al /\ wire' = Stop]_vars

(* Every byte stored to a buffer is the byte that was read for that very  *)
(* place, and the place is inside a message that is read: i2c->pos never  *)
(* runs over the end of a buffer, also across NOSTART boundaries.         *)
BytesInPlace ==
    \A s \in rx : s[1] = s[2] /\ s[1] \in ReadSlots(xfer)

(* A call that returns num has filled every buffer that is read. *)
OkIsComplete ==
    result = "ok" => \A s \in ReadSlots(xfer) : <<s, s>> \in rx

(* A byte the slave refused is followed by STOP and nothing else, but for *)
(* the first byte of a ten bit address, whose answer STATE_ADDR10 skips.  *)
Refused ==
    /\ ~ tip /\ nack
    /\ \/ wire.op \in {"write", "addr2"}
       \/ wire.op = "start" /\ ~ xfer[wire.msg].ten

NackIsFollowedByStop ==
    [][pc = "act" /\ state # "INIT" /\ Refused /\ wire' # wire => wire' = Stop]_vars

(* ARBLOST is cleared only by a START, and ocores_poll tests it before it *)
(* lets a call start: once arbitration is lost it stays lost, and no call *)
(* of this adapter moves a byte again.                                    *)
ArbLostIsForever == [][al => al']_vars

(* A call that timed out while the bus was ours sent no STOP: the bus     *)
(* stays held and no later call succeeds.                                 *)
Stranded == /\ pc = "idle" /\ result = "ETIMEDOUT"
            /\ bus = "ours" /\ ~ stopping

TimeoutStrandsBus == [](Stranded => [](result # "ok"))

(* Where the call stands in terms of what callers are promised. *)
Phase ==
    CASE pc = "idle"     -> "idle"
      [] pc # "idle" /\ state = "INIT"  -> "called"
      [] pc # "idle" /\ state = "DONE"  -> "done"
      [] pc # "idle" /\ state = "ERROR" -> "failed"
      [] OTHER -> "open"

Promise == INSTANCE I2CTransfer WITH phase <- Phase

(* The driver keeps the promise of I2CTransfer: the order of commands on  *)
(* the wires and the meaning of success.                                  *)
ImplementsTransfer == Promise!Spec

-----------------------------------------------------------------------------
(* Liveness *)

(* Every call returns, whatever the controller does: each round either    *)
(* makes progress, of which a transfer allows only so much, or lets the   *)
(* second run down.                                                       *)
EveryCallReturns == pc # "idle" ~> pc = "idle"
=============================================================================
