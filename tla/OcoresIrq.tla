------------------------------ MODULE OcoresIrq ------------------------------
(***************************************************************************)
(* Interrupt driven transfers of the Z9264F FPGA i2c driver: the other     *)
(* branch of ocores_xfer, ocores_isr with ocores_process, and the module   *)
(* parameter use_irq, which is writable at run time.                       *)
(*                                                                         *)
(* The caller writes START and sleeps; each interrupt makes the handler    *)
(* read the status and write the next command; the interrupt at the end of *)
(* STOP wakes the caller.  Nothing locks caller and handler against each   *)
(* other.  A channel has a handler when the driver was loaded with use_irq *)
(* set and it is channel 0 (register_intr_handler); the other channels, or *)
(* a driver loaded without, take the same branch when the parameter is set *)
(* later.  Clearing the parameter of a driver that has a handler is left   *)
(* out: poll and handler would then drive one transfer together.           *)
(***************************************************************************)
EXTENDS OcoresI2C

CONSTANTS
    MaxPos,     \* bound on i2c->pos when the handler runs over a buffer
    MaxAfter    \* bound on the calls made once something has been left behind

ASSUME BoundsAssumption ==
    /\ MaxPos \in Nat /\ MaxAfter \in Nat
    /\ \A t \in Transfers : \A k \in 1 .. Len(t) : t[k].len <= MaxPos

VARIABLES
    handler,    \* ocores_isr is installed and OCI2C_CTRL_IEN set
    pending,    \* an interrupt is on its way to the handler
    isr,        \* "idle", or "act": the handler has read the status
    istat,      \* that status
    alive,      \* the messages the handler points at belong to a running call
    hurt,       \* history: what calls have left behind (see Leavings)
    after       \* number of calls made since

irq     == <<handler, pending, isr, istat, alive>>
irqVars == <<vars, irq, hurt, after>>

Over == {"DONE", "ERROR"}

(* What a read of use_irq may return: 0, 1, or any other number, here 2.  *)
(* The parameter may be written between any two reads; it is not cleared  *)
(* on a driver that has a handler.                                        *)
UseIrq == IF handler THEN {1, 2} ELSE {0, 1, 2}

NoStatus == [tip |-> FALSE, al |-> FALSE, busy |-> FALSE, nack |-> FALSE]

IrqInit ==
    /\ Init
    /\ handler \in BOOLEAN
    /\ pending = FALSE /\ isr = "idle" /\ istat = NoStatus /\ alive = FALSE
    /\ hurt = {} /\ after = 0

-----------------------------------------------------------------------------
(* Decisions of the code, each with a slip next to it (used by no          *)
(* specification; they show that the properties would notice).             *)

(* i2c->state at the start of a call. *)
FirstState(v)          == IF v = 1 THEN "START" ELSE "INIT"

Slip_AnyNews == {"DONE", "ERROR", "READ"}
EndsWait     == Over

(* ocores_isr does not look at OCI2C_STAT_IF: it trusts the interrupt to  *)
(* be its own.                                                            *)
Slip_SharedLine == TRUE
Interrupted     == pending

Slip_SleepsForGood == FALSE
WaitIsOver         == left = 0

(* The first p bytes of message g are all of it. *)
Slip_AllButOne(g, p) == p + 1 >= g.len
AllMoved(g, p)       == p = g.len

(* The byte after the first p of message g is to be answered with NACK. *)
Slip_NackTooLate(g, p) == p = g.len
NackNext(g, p)         == p + 1 = g.len

Refusal == state \in {"START", "WRITE"} /\ istat.nack

StoresByte == state \notin {"START", "WRITE"}

-----------------------------------------------------------------------------
(* The caller, interrupt branch of ocores_xfer *)

(* The whole call starts over; the mode is read once for i2c->state ... *)
IrqXfer ==
    /\ pc = "idle" /\ pc' = "mode"
    /\ xfer' \in Transfers
    /\ m' = 1 /\ pos' = 0 /\ nmsgs' = Len(xfer')
    /\ \E v \in UseIrq : state' = FirstState(v)
    /\ rx' = {}
    /\ left' = Budget /\ result' = "none"
    /\ IF hurt = {} THEN UNCHANGED after
                    ELSE after < MaxAfter /\ after' = after + 1
    /\ UNCHANGED <<hw, stat, ret, irq>>

(* ... and once more for the branch to take. *)
ChooseMode ==
    /\ pc = "mode"
    /\ \E v \in UseIrq : pc' = IF v = 0 THEN "loop" ELSE "start"
    /\ UNCHANGED <<hw, drv, stat, ret, left, result, irq>>

(* START is written whatever the status register says. *)
IrqStart ==
    /\ pc = "start" /\ pc' = "wait"
    /\ Issue(Start(1))
    /\ left' = Budget
    /\ UNCHANGED <<drv, stat, ret, result, irq>>

(* wait_event_timeout looks at the condition before it sleeps, when it is *)
(* woken, and when the second is over.                                    *)
IrqReturn ==
    /\ pc = "wait" /\ pc' = "idle"
    /\ \/ state \in EndsWait
          /\ result' = IF state = "DONE" THEN "ok" ELSE "EIO"
       \/ state \notin EndsWait /\ WaitIsOver
          /\ result' = "ETIMEDOUT"
    /\ alive' = FALSE
    /\ UNCHANGED <<hw, drv, stat, ret, left, handler, pending, isr, istat>>

Sleep ==
    /\ pc = "wait" /\ pc' = "sleep"
    /\ state \notin EndsWait /\ ~ WaitIsOver
    /\ UNCHANGED <<hw, drv, stat, ret, left, result, irq>>

Expire ==
    /\ pc = "sleep" /\ pc' = "wait"
    /\ WaitIsOver
    /\ UNCHANGED <<hw, drv, stat, ret, left, result, irq>>

(* The polled branch, as in OcoresI2C, on a channel without a handler. *)
Polled == Driver /\ UNCHANGED irq

Caller == ChooseMode \/ IrqStart \/ IrqReturn \/ Sleep \/ Expire \/ Polled

-----------------------------------------------------------------------------
(* The handler: ocores_process *)

IsrEnter ==
    /\ Interrupted /\ isr = "idle" /\ handler
    /\ pending' = FALSE /\ isr' = "act"
    /\ istat' = Status
    /\ alive' = (pc # "idle")
    /\ UNCHANGED <<vars, handler, hurt, after>>

IsrLeaves ==
    /\ isr = "act" /\ isr' = "idle"
    /\ istat' = NoStatus /\ alive' = FALSE      \* its locals are gone
    /\ UNCHANGED <<handler, pending>>

(* STOP has been sent: acknowledge the interrupt, wake the caller. *)
IsrOver ==
    /\ IsrLeaves /\ state \in Over
    /\ pc' = IF pc = "sleep" THEN "wait" ELSE pc
    /\ UNCHANGED <<hw, drv, stat, ret, left, result>>

IsrFails ==
    /\ state' = "ERROR" /\ IssueStop
    /\ UNCHANGED <<xfer, m, pos, nmsgs, rx, call>>

IsrArbLost ==
    /\ IsrLeaves /\ state \notin Over
    /\ istat.al
    /\ IsrFails

(* From here on the handler reads the messages: those of the call, or     *)
(* what is found in memory after the call returned.                       *)
Found(k) ==
    IF alive /\ k <= Len(xfer)
      THEN {xfer[k]}
      ELSE UNION {{t[j] : j \in 1 .. Len(t)} : t \in Transfers}

IsrNack ==
    /\ IsrLeaves /\ state \notin Over /\ ~ istat.al
    /\ Refusal
    /\ IsrFails

IsrPos == IF StoresByte THEN pos + 1 ELSE pos

(* After START and WRITE the direction is the message's, else it stays. *)
IsrDirection(g) ==
    IF StoresByte THEN state ELSE IF g.rd THEN "READ" ELSE "WRITE"

(* The next byte of message k, which is g, after p bytes in state d. *)
IsrByte(g, k, p, d) ==
    /\ state' = d
    /\ IF d = "READ"
         THEN Issue(Read(k, p + 1, NackNext(g, p))) /\ pos' = p
         ELSE Issue(Write(k, p + 1)) /\ pos' = p + 1

IsrMoved ==
    /\ IsrLeaves /\ state \notin Over /\ ~ istat.al /\ ~ Refusal
    /\ IsrPos < MaxPos + 1
    /\ rx' = IF StoresByte /\ alive THEN rx \cup {<<<<m, pos + 1>>, rxr>>} ELSE rx
    /\ UNCHANGED <<xfer, call>>

IsrNextByte ==
    /\ IsrMoved
    /\ IsrPos < MaxPos
    /\ \E g \in Found(m) :
          /\ ~ AllMoved(g, IsrPos)
          /\ IsrByte(g, m, IsrPos, IsrDirection(g))
    /\ UNCHANGED <<m, nmsgs>>

IsrNextMessage ==
    /\ IsrMoved
    /\ nmsgs > 1 /\ nmsgs' = nmsgs - 1 /\ m' = m + 1
    /\ \E g \in Found(m), n \in Found(m + 1) :
          /\ AllMoved(g, IsrPos)
          /\ \/ ~ n.nostart
                /\ state' = "START" /\ pos' = 0
                /\ Issue(Start(m + 1))
             \/ n.nostart
                /\ IsrByte(n, m + 1, 0, IF n.rd THEN "READ" ELSE "WRITE")

IsrDone ==
    /\ IsrMoved
    /\ nmsgs = 1 /\ nmsgs' = 0 /\ m' = m + 1 /\ pos' = 0
    /\ \E g \in Found(m) : AllMoved(g, IsrPos)
    /\ state' = "DONE" /\ IssueStop

Isr == IsrOver \/ IsrArbLost \/ IsrNack \/ IsrNextByte \/ IsrNextMessage \/ IsrDone

-----------------------------------------------------------------------------
(* The controller interrupts when it has carried out a command, STOP      *)
(* included, and when it lost arbitration; it starts a command only when  *)
(* a STOP under way is over.                                              *)
Controller ==
    /\ \/ Complete /\ ~ stopping
       \/ LoseArbitration
       \/ EndStop
    /\ pending' = (pending \/ handler)
    /\ UNCHANGED <<drv, call, handler, isr, istat, alive>>

Other == OtherMaster /\ UNCHANGED <<drv, call, irq>>

Time == Tick /\ UNCHANGED irq

(* History.  A call gives up ("late"), or returns while its STOP is not   *)
(* yet dealt with ("early"); a call takes the branch of one mode with the *)
(* state of the other ("odd"): use_irq was written between its two reads, *)
(* or is neither 0 nor 1, which sets the state for polling and then waits *)
(* for interrupts.                                                        *)
Leavings ==
    {h \in {"late", "early", "odd"} :
        \/ /\ pc # "idle" /\ pc' = "idle"
           /\ \/ h = "late" /\ result' = "ETIMEDOUT"
              \/ h = "early" /\ (stopping \/ pending \/ isr = "act")
        \/ /\ pc = "mode" /\ h = "odd"
           /\ <<pc', state>> \in {<<"loop", "START">>, <<"start", "INIT">>}}

Noting == hurt' = hurt \cup Leavings

Running == Caller /\ Noting /\ UNCHANGED after
Passing == Time /\ Noting /\ UNCHANGED after

IrqNext ==
    \/ IrqXfer /\ Noting
    \/ Running \/ Passing
    \/ IsrEnter
    \/ (Isr \/ Controller \/ Other) /\ Noting /\ UNCHANGED after

IrqSpec == IrqInit /\ [][IrqNext]_irqVars

(* The calling thread runs and time passes; nothing is asked of the       *)
(* handler or of the controller.                                          *)
IrqFairSpec == IrqSpec /\ WF_irqVars(Running) /\ WF_irqVars(Passing)

-----------------------------------------------------------------------------
(* Safety *)

(* As long as no call has come back before the controller was through and *)
(* none took the branch of one mode with the state of the other,          *)
(* interrupt mode is as sound as polled mode: every byte is stored to its *)
(* place and success means that every buffer is filled.                   *)
IrqBuffersSafe ==
    hurt = {} =>
        /\ \A s \in rx : s[1] = s[2] /\ s[1] \in ReadSlots(xfer)
        /\ result = "ok" => \A s \in ReadSlots(xfer) : <<s, s>> \in rx

(* The caller's START and every interrupt before STOP write a command, be *)
(* it the same as the one before.                                         *)
IrqCommandWritten ==
    \/ CommandWritten
    \/ pc = "start" /\ pc' = "wait"
    \/ isr = "act" /\ isr' = "idle" /\ state \notin Over

(* START is written without a look at BUSY, and the handler writes the    *)
(* next command without a look at TIP: that each command still finds the  *)
(* controller done with the one before rests on the same condition.       *)
IrqOneCommandAtATime ==
    [][hurt = {} /\ IrqCommandWritten => ~ tip /\ ~ stopping]_irqVars

(* The handler reads messages of a call that has returned only when a     *)
(* call returned too soon: on a timeout, which takes nothing back, or     *)
(* because it saw DONE before the interrupt of its STOP was handled.      *)
HandlerHasItsMessages ==
    isr = "act" /\ state \notin Over /\ ~ alive => hurt \cap {"late", "early"} # {}

(* A driver loaded without interrupts, or a channel other than 0, whose   *)
(* parameter is set at run time: the call times out with the bus held,    *)
(* and clearing the parameter again does not help.  Only a call that      *)
(* takes the branch of one mode with the state of the other gets through. *)
SwitchStrandsBus ==
    [](~ handler /\ Stranded => [](result = "ok" => "odd" \in hurt))

(* Where the call stands in terms of what callers are promised.  EIO is   *)
(* the error of interrupt mode, whichever error the handler saw.          *)
IrqPhase ==
    CASE pc = "idle" -> "idle"
      [] pc \in {"mode", "start"} -> "called"
      [] OTHER -> Phase

IrqResult == IF result = "EIO" THEN "ENXIO" ELSE result

IrqPromise == INSTANCE I2CTransfer WITH phase <- IrqPhase, result <- IrqResult

(* The promise of I2CTransfer, kept under the same condition. *)
IrqKeepsPromise ==
    /\ IrqPromise!Init
    /\ [][hurt' = {} => [IrqPromise!Next]_(IrqPromise!vars)]_irqVars

(* Every call returns, with and without a handler, whatever the handler,  *)
(* the controller and the parameter do.                                   *)
IrqEveryCallReturns == pc # "idle" ~> pc = "idle"
=============================================================================
