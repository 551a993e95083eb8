----------------------------- MODULE I2CMessages -----------------------------
(***************************************************************************)
(* The i2c messages a caller hands to an adapter (struct i2c_msg) and the  *)
(* commands a master can put on the two wires, with the order in which a   *)
(* transfer has to use them.  Bytes are not modelled: a byte is named by   *)
(* its place, <<message, byte>>, both counted from 1.                      *)
(***************************************************************************)
EXTENDS Naturals, Sequences

CONSTANT
    Transfers   \* the message arrays that callers pass to master_xfer

(* I2C_M_RD, I2C_M_TEN, I2C_M_NOSTART and the length.  The address itself *)
(* takes no part in the control flow.                                     *)
Message == [rd : BOOLEAN, ten : BOOLEAN, nostart : BOOLEAN, len : Nat]

(* The i2c core refuses an empty array.  I2C_M_NOSTART is not one of the  *)
(* advertised features (ocores_func); of the callers that use it anyway,  *)
(* those that continue a message with zero bytes are left out.            *)
ASSUME TransfersAssumption ==
    /\ Transfers \subseteq Seq(Message)
    /\ \A t \in Transfers :
          /\ Len(t) > 0
          /\ \A k \in 2 .. Len(t) : t[k].nostart => t[k].len > 0

-----------------------------------------------------------------------------
(* Commands.  "start" carries the first address byte of message msg,      *)
(* "addr2" the second byte of a ten bit address, "write" and "read" the   *)
(* byte they move; nack is the answer the master gives to a byte it read. *)
Ops == {"start", "addr2", "write", "read", "stop"}

Command == [op : Ops, msg : Nat, byte : Nat, nack : BOOLEAN]

Start(m)      == [op |-> "start", msg |-> m, byte |-> 0, nack |-> FALSE]
Addr2(m)      == [op |-> "addr2", msg |-> m, byte |-> 0, nack |-> FALSE]
Write(m, b)   == [op |-> "write", msg |-> m, byte |-> b, nack |-> FALSE]
Read(m, b, n) == [op |-> "read",  msg |-> m, byte |-> b, nack |-> n]
Stop          == [op |-> "stop",  msg |-> 0, byte |-> 0, nack |-> FALSE]

(* Byte b of message m of transfer t on the wire.  The last byte of a     *)
(* message that is read, and no other, is answered with NACK.             *)
Data(t, m, b) ==
    IF t[m].rd THEN Read(m, b, b = t[m].len) ELSE Write(m, b)

(* The address of message c.msg is complete after command c. *)
AddressSent(t, c) ==
    \/ c.op = "start" /\ ~ t[c.msg].ten
    \/ c.op = "addr2"

(* Command c moves the last byte of its message. *)
EndsMessage(t, c) ==
    \/ c.op \in {"write", "read"} /\ c.byte = t[c.msg].len
    \/ AddressSent(t, c) /\ t[c.msg].len = 0

(* The first command of message m, when it is not the first message: a   *)
(* repeated START, or at once the first byte if it asks for no START.    *)
Opening(t, m) == IF t[m].nostart THEN Data(t, m, 1) ELSE Start(m)

(* Command d is the one that has to come after command c in transfer t. *)
Follows(t, c, d) ==
    \/ /\ c.op = "start" /\ t[c.msg].ten
       /\ d = Addr2(c.msg)
    \/ /\ AddressSent(t, c) /\ t[c.msg].len > 0
       /\ d = Data(t, c.msg, 1)
    \/ /\ c.op \in {"write", "read"} /\ c.byte < t[c.msg].len
       /\ d = Data(t, c.msg, c.byte + 1)
    \/ /\ EndsMessage(t, c) /\ c.msg < Len(t)
       /\ d = Opening(t, c.msg + 1)

(* Command c is the last one before STOP of a transfer that succeeds. *)
Completes(t, c) == EndsMessage(t, c) /\ c.msg = Len(t)

(* The places of the bytes of transfer t, and of those that are read. *)
Slot         == Nat \X Nat
Slots(t)     == UNION {{m} \X (1 .. t[m].len) : m \in 1 .. Len(t)}
ReadSlots(t) == {s \in Slots(t) : t[s[1]].rd}
=============================================================================
