---------------------------- MODULE CpldAttributes ----------------------------
(***************************************************************************)
(* The port registers of an I/O module's CPLD (S6100) and of the Z9100     *)
(* CPLD as sysfs shows them: qsfp_lpmode, qsfp_reset and qsfp_modprs, 16   *)
(* ports each, kept in two 8 bit registers, and iom_cpld_vers, kept in     *)
(* one.  A get reads the two one after the other, a set writes them one    *)
(* after the other.  A register is                                         *)
(* reached by two i2c transfers, one that sets the CPLD's pointer and one  *)
(* that reads the byte it points at, or by one that does both and writes.  *)
(* Each byte access is made under update_lock; the pair is not.  Any       *)
(* transfer may fail.                                                      *)
(***************************************************************************)
EXTENDS Naturals, FiniteSets

CONSTANTS
    Users,      \* threads in get_lpmode, set_lpmode, ...
    NoUser,     \* update_lock is free
    Settable,   \* attributes that can be set
    ReadOnly,   \* attributes that cannot
    OneByte,    \* of these, the ones kept in one register
    Bytes,      \* what a register may hold
    Version     \* what the registers of OneByte do hold

ASSUME AttributesAssumption ==
    /\ Settable \cap ReadOnly = {} /\ OneByte \subseteq ReadOnly
    /\ NoUser \notin Users /\ {0, Version} \subseteq Bytes

Attributes == Settable \cup ReadOnly
Registers  == (Attributes \X {0, 1}) \ (OneByte \X {1})
Pairs      == Bytes \X Bytes
Calls      == ({"get"} \X Attributes) \cup ({"set"} \X Settable)
NoCall     == <<"none", "none">>

VARIABLES
    regs,       \* registers of the CPLD
    pointer,    \* the register it points at
    lock,       \* data->update_lock
    pc,         \* the next step of each user
    op,         \* its call: get or set, and the attribute
    value,      \* devdata: the bytes it read, or is to write
    half,       \* the register it is at: 0, 1; 2 when it is done
    result,     \* what the call is going to return
    disturbed   \* history: a transfer of the call failed, or its attribute
                \* was meanwhile set by another user or changed by a plug

cpld == <<regs, pointer>>
user == <<lock, pc, op, value, half, result, disturbed>>
vars == <<cpld, user>>

PCs == {"idle", "lock", "point", "read", "write", "unlock"}

(* Every variable has its type. *)
TypeOK ==
    /\ regs \in [Registers -> Bytes]
    /\ pointer \in Registers
    /\ lock \in Users \cup {NoUser}
    /\ pc \in [Users -> PCs]
    /\ op \in [Users -> Calls \cup {NoCall}]
    /\ value \in [Users -> Pairs]
    /\ half \in [Users -> 0 .. 2]
    /\ result \in [Users -> {"ok", "read error"}]
    /\ disturbed \in [Users -> BOOLEAN]

Init ==
    /\ regs \in {r \in [Registers -> Bytes] : \A a \in OneByte : r[<<a, 0>>] = Version}
    /\ pointer \in Registers
    /\ lock = NoUser
    /\ pc = [u \in Users |-> "idle"]
    /\ op = [u \in Users |-> NoCall]
    /\ value = [u \in Users |-> <<0, 0>>]
    /\ half = [u \in Users |-> 0]
    /\ result = [u \in Users |-> "ok"]
    /\ disturbed = [u \in Users |-> FALSE]

-----------------------------------------------------------------------------
(* Decisions of the code, each with a slip next to it (used by no          *)
(* specification; they show that the properties would notice).             *)

Slip_NotWaiting == TRUE
LockFree        == lock = NoUser

Slip_StillHeld == lock
Released       == NoUser

NextHalf(u) == half[u] + 1

Slip_LowTwice(u) == <<op[u][2], 0>>
Register(u)      == <<op[u][2], half[u]>>

Halves(u) == IF op[u][2] \in OneByte THEN 1 ELSE 2

Done(u) == half[u] = Halves(u)

-----------------------------------------------------------------------------
GoTo(u, from, to) == pc[u] = from /\ pc' = [pc EXCEPT ![u] = to]

(* A set of attribute a begins: who is at it already is disturbed, and u   *)
(* is by a set that is going on.                                           *)
DisturbedBy(u, o) ==
    [w \in Users |->
        IF w = u THEN \E x \in Users \ {u} : op[x] = <<"set", o[2]>>
        ELSE disturbed[w] \/ (o[1] = "set" /\ op[w][2] = o[2])]

(* A get or a set of an attribute starts; kstrtoul has parsed the value. *)
Call(u) ==
    /\ GoTo(u, "idle", "lock")
    /\ \E o \in Calls :
          /\ op' = [op EXCEPT ![u] = o]
          /\ disturbed' = DisturbedBy(u, o)
          /\ IF o[1] = "set"
             THEN \E v \in Pairs : value' = [value EXCEPT ![u] = v]
             ELSE UNCHANGED value
    /\ UNCHANGED <<cpld, lock, half, result>>

Acquire(u) ==
    /\ LockFree
    /\ GoTo(u, "lock", IF op[u][1] = "get" THEN "point" ELSE "write")
    /\ lock' = u
    /\ UNCHANGED <<cpld, op, value, half, result, disturbed>>

TransferFails(u) == disturbed' = [disturbed EXCEPT ![u] = TRUE]

(* i2c_smbus_write_byte_data: its result is overwritten at once. *)
Point(u) ==
    /\ GoTo(u, "point", "read")
    /\ \/ pointer' = Register(u) /\ UNCHANGED disturbed
       \/ TransferFails(u) /\ UNCHANGED pointer
    /\ UNCHANGED <<regs, lock, op, value, half, result>>

(* i2c_smbus_read_byte: a byte, from wherever the CPLD points. *)
Read(u) ==
    /\ GoTo(u, "read", "unlock")
    /\ value' = [value EXCEPT ![u] = IF half[u] = 0 THEN <<regs[pointer], 0>>
                                                    ELSE <<@[1], regs[pointer]>>]
    /\ half' = [half EXCEPT ![u] = NextHalf(u)]
    /\ UNCHANGED <<cpld, lock, op, result, disturbed>>

ReadFails(u) ==
    /\ GoTo(u, "read", "unlock")
    /\ TransferFails(u)
    /\ result' = [result EXCEPT ![u] = "read error"]
    /\ UNCHANGED <<cpld, lock, op, value, half>>

(* i2c_smbus_write_word_data: register and value in one transfer, whose    *)
(* result nobody looks at.                                                 *)
Write(u) ==
    /\ GoTo(u, "write", "unlock")
    /\ half' = [half EXCEPT ![u] = NextHalf(u)]
    /\ \/ /\ pointer' = Register(u)
          /\ regs' = [regs EXCEPT ![Register(u)] = value[u][IF half[u] = 0 THEN 1 ELSE 2]]
          /\ UNCHANGED disturbed
       \/ TransferFails(u) /\ UNCHANGED cpld
    /\ UNCHANGED <<lock, op, value, result>>

(* On to the second register, *)
Unlock(u) ==
    /\ result[u] = "ok" /\ ~ Done(u)
    /\ GoTo(u, "unlock", "lock")
    /\ lock' = Released
    /\ UNCHANGED <<cpld, op, value, half, result, disturbed>>

(* or back from the call, whose local variables are gone. *)
Return(u) ==
    /\ result[u] = "read error" \/ Done(u)
    /\ GoTo(u, "unlock", "idle")
    /\ lock' = Released
    /\ op' = [op EXCEPT ![u] = NoCall]
    /\ value' = [value EXCEPT ![u] = <<0, 0>>]
    /\ half' = [half EXCEPT ![u] = 0]
    /\ result' = [result EXCEPT ![u] = "ok"]
    /\ disturbed' = [disturbed EXCEPT ![u] = FALSE]
    /\ UNCHANGED cpld

Working(u) == Point(u) \/ Read(u) \/ ReadFails(u) \/ Write(u) \/ Unlock(u) \/ Return(u)

(* A module is plugged or unplugged: qsfp_modprs changes by itself. *)
Plug ==
    /\ \E g \in (ReadOnly \ OneByte) \X {0, 1} :
          /\ \E b \in Bytes : regs' = [regs EXCEPT ![g] = b]
          /\ disturbed' = [u \in Users |-> disturbed[u] \/ op[u][2] = g[1]]
    /\ UNCHANGED <<pointer, lock, pc, op, value, half, result>>

Next == Plug \/ \E u \in Users : Call(u) \/ Acquire(u) \/ Working(u)

Spec == Init /\ [][Next]_vars

(* A user that holds the lock goes on, and the mutex wakes those that wait *)
(* for it in turn.                                                         *)
FairSpec == Spec /\ \A u \in Users : WF_vars(Working(u)) /\ SF_vars(Acquire(u))

-----------------------------------------------------------------------------
(* Properties.                                                             *)

Returns(u, o) == /\ pc[u] # "idle" /\ pc'[u] = "idle"
                 /\ op[u][1] = o /\ result[u] = "ok" /\ ~ disturbed[u]

Holds(a) == IF a \in OneByte THEN <<regs[<<a, 0>>], 0>>
                              ELSE <<regs[<<a, 0>>], regs[<<a, 1>>]>>

(* A get that no set and no failed transfer came in the way of shows the   *)
(* two registers of its attribute, low byte first (get_lpmode, get_reset,  *)
(* get_modprs): whatever other gets and sets move the CPLD's pointer, the  *)
(* byte it reads is the one it pointed at.                                 *)
QuietGetIsExact ==
    [][\A u \in Users : Returns(u, "get") => value[u] = Holds(op[u][2])]_vars

(* A set that no other set of its attribute and no failed transfer came in *)
(* the way of has both bytes in place when it returns (set_lpmode,         *)
(* set_reset).                                                             *)
QuietSetTakesEffect ==
    [][\A u \in Users : Returns(u, "set") => value[u] = Holds(op[u][2])]_vars

(* Every get and set returns.                                              *)
EveryCallReturns == \A u \in Users : pc[u] # "idle" ~> pc[u] = "idle"
=============================================================================
