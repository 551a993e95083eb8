----------------------------- MODULE SmfReadings -----------------------------
(***************************************************************************)
(* The registers of the SMF, the board controller of S6100 and Z9100, and  *)
(* the readings dell_pmc takes of them: one byte (smf_read_reg) or two in  *)
(* consecutive registers (smf_read_reg16).                                 *)
(***************************************************************************)
EXTENDS Integers, Sequences

CONSTANTS
    Readers,    \* threads that read sysfs attributes
    Registers,  \* addresses of the registers that are read
    Values,     \* what a register may hold
    Readings    \* the calls: register and number of bytes

Addresses == {a \in Nat : a <= 65535}

ASSUME ReadingsAssumption ==
    /\ Registers \subseteq Addresses
    /\ Readings \subseteq [reg : Registers, size : {1, 2}]
    /\ \A q \in Readings : q.size = 2 => q.reg + 1 \in Registers

Memory == [Registers -> Values]

(* The k-th byte of reading q, and what the registers of q hold. *)
Address(q, k) == q.reg + k - 1
Contents(q, memory) == [k \in 1 .. q.size |-> memory[Address(q, k)]]
=============================================================================
