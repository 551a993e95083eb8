------------------------------ MODULE OpenCores ------------------------------
(***************************************************************************)
(* One channel of the FPGA's i2c master, as the driver sees it through its *)
(* status, command and data registers.  The core itself is hardware: this  *)
(* module is derived from the register definitions of the driver and from  *)
(* what the driver does with them.                                         *)
(*                                                                         *)
(* The command register takes one command at a time.  TIP is up while a    *)
(* START, WRITE or READ is carried out, but not for a STOP, which is seen  *)
(* only by BUSY going down at its end.  ARBLOST stays up until the next    *)
(* START is written.                                                       *)
(***************************************************************************)
EXTENDS I2CMessages

VARIABLES
    wire,       \* the latest command written, with what the data register held
    tip,        \* STAT_TIP: that command is being carried out
    stopping,   \* a STOP is being carried out
    bus,        \* who holds the bus: "free", "ours", or "other" master
    al,         \* STAT_ARBLOST
    nack,       \* STAT_NACK: the latest byte was not acknowledged
    rxr         \* the place of the byte in the receive register

hw == <<wire, tip, stopping, bus, al, nack, rxr>>

HwTypeOK ==
    /\ wire \in Command
    /\ tip \in BOOLEAN /\ stopping \in BOOLEAN
    /\ bus \in {"free", "ours", "other"}
    /\ al \in BOOLEAN /\ nack \in BOOLEAN
    /\ rxr \in Slot

HwInit ==
    /\ wire = Stop
    /\ tip = FALSE /\ stopping = FALSE
    /\ bus \in {"free", "other"}
    /\ al = FALSE /\ nack = FALSE
    /\ rxr = <<0, 0>>

(* The status register.  BUSY is up whoever holds the bus. *)
Status == [tip |-> tip, al |-> al, busy |-> bus # "free", nack |-> nack]

StatusType == [tip : BOOLEAN, al : BOOLEAN, busy : BOOLEAN, nack : BOOLEAN]

-----------------------------------------------------------------------------
(* Writing the command register.  A START clears ARBLOST. *)
Issue(c) ==
    /\ wire' = c
    /\ tip' = TRUE
    /\ al' = (al /\ c.op # "start")
    /\ UNCHANGED <<stopping, bus, nack, rxr>>

IssueStop ==
    /\ wire' = Stop
    /\ stopping' = TRUE
    /\ UNCHANGED <<tip, bus, al, nack, rxr>>

-----------------------------------------------------------------------------
(* The command ends.  A START takes the bus, unless another master has it; *)
(* the slave may refuse a byte; the answer to a byte read is the master's. *)
Complete ==
    /\ tip /\ bus # "other"
    /\ tip' = FALSE
    /\ bus' = "ours"
    /\ IF wire.op = "read"
         THEN nack' = wire.nack /\ rxr' = <<wire.msg, wire.byte>>
         ELSE nack' \in BOOLEAN /\ UNCHANGED rxr
    /\ UNCHANGED <<wire, stopping, al>>

(* The master finds the wires driven by someone else and gives up. *)
LoseArbitration ==
    /\ tip
    /\ tip' = FALSE
    /\ al' = TRUE
    /\ bus' \in {"free", "other"}
    /\ UNCHANGED <<wire, stopping, nack, rxr>>

EndStop ==
    /\ stopping
    /\ stopping' = FALSE
    /\ bus' \in IF bus = "other" THEN {"free", "other"} ELSE {"free"}
    /\ UNCHANGED <<wire, tip, al, nack, rxr>>

(* Another master on the same wires. *)
OtherMaster ==
    /\ \/ bus = "free" /\ bus' = "other"
       \/ bus = "other" /\ bus' = "free"
    /\ UNCHANGED <<wire, tip, stopping, al, nack, rxr>>

HwNext == Complete \/ LoseArbitration \/ EndStop \/ OtherMaster
=============================================================================
