------------------------------ MODULE SmfMailbox ------------------------------
(***************************************************************************)
(* The SMF is reached through four I/O ports: two that select a register,  *)
(* one to read it and one to write it.  dell_pmc reads sensors through     *)
(* them, a reading being several port accesses under a mutex; the scripts  *)
(* iom_power_on.sh and iom_power_off.sh use the same ports from user       *)
(* space, one process per access and with no lock, to command the power of *)
(* the I/O modules.  At boot the script is run first and then the driver   *)
(* is loaded.                                                              *)
(***************************************************************************)
EXTENDS SmfReadings

CONSTANTS
    NoReader,   \* the mutex is free
    NumIoms     \* I/O modules: 4 on the S6100

ASSUME NoReaderAssumption == NoReader \notin Readers
ASSUME IomsAssumption == NumIoms \in 1 .. 39

VARIABLES
    mem,        \* registers of the SMF
    high, low,  \* ports 0x210 and 0x211: the register selected
    issued,     \* commands the SMF was given since the service started
    \* the driver
    loaded,     \* dell_pmc is loaded
    mutex,      \* data->lock
    pc, call, got,  \* each thread: next step, reading, bytes so far
    \* the scripts
    line,       \* the next line of the script, "off" when none is running
    iom,        \* the module it has come to
    power,      \* what it commands: 1 on, 2 off
    \* history
    quiet       \* registers of the reading have not changed since it began

smf    == <<mem, high, low, issued>>
thread == <<mutex, pc, call, got, quiet>>
script == <<line, iom, power>>
vars   == <<smf, loaded, thread, script>>

Byte == 0 .. 255
Inside == {"high", "low", "fetch", "unlock"}    \* holding the mutex
PCs == Inside \cup {"idle", "lock"}

(* 0x04D9 for the first module, 0x04DA for the second, ... *)
IomRegister(n) == 1241 + n
IomCommands(n, p) == {<<IomRegister(k), p>> : k \in 0 .. n - 1}

(* An address is split between two ports. *)
HighPart(a) == a \div 256
LowPart(a)  == a % 256
Selected    == high * 256 + low

(* Every variable has its type. *)
TypeOK ==
    /\ mem \in Memory
    /\ high \in Byte /\ low \in Byte
    /\ issued \subseteq Addresses \X {1, 2}
    /\ loaded \in BOOLEAN
    /\ mutex \in Readers \cup {NoReader}
    /\ pc \in [Readers -> PCs]
    /\ call \in [Readers -> Readings]
    /\ got \in [Readers -> Seq(Values)]
    /\ quiet \in [Readers -> BOOLEAN]
    /\ line \in {"off", "high", "low", "value", "load"}
    /\ iom \in 0 .. NumIoms
    /\ power \in {1, 2}

Init ==
    /\ mem \in Memory
    /\ \E a \in Registers : high = HighPart(a) /\ low = LowPart(a)
    /\ issued = {}
    /\ loaded = FALSE
    /\ mutex = NoReader
    /\ pc = [r \in Readers |-> "idle"]
    /\ call \in [Readers -> Readings]
    /\ got = [r \in Readers |-> <<>>]
    /\ quiet = [r \in Readers |-> FALSE]
    /\ line = "off" /\ iom = 0 /\ power = 1

-----------------------------------------------------------------------------
(* Decisions of the code, each with a slip next to it (used by no          *)
(* specification; they show that the properties would notice).             *)

NextAddress(r)  == Address(call[r], Len(got[r]) + 1)

(* reg + 1 is computed before it is split. *)
Slip_NoCarry(r) == HighPart(call[r].reg)
HighByte(r)     == HighPart(NextAddress(r))

Slip_NotWaiting == TRUE
MutexFree       == mutex = NoReader

Slip_StillHeld == mutex
Released       == NoReader

Slip_OneModuleMore == iom > NumIoms
LastModuleDone     == iom = NumIoms

(* The init script waits for iom_power_on.sh before it loads the driver. *)
Slip_InBackground == {"low", "value", "load"}
LoadsAt           == {"load"}

(* Before rmmod removes the attributes it waits for their readers. *)
Slip_NotDrained == TRUE
Drained         == \A r \in Readers : pc[r] = "idle"

-----------------------------------------------------------------------------
(* The SMF: a new measurement of any registers. *)

Unchanged(q, old, new) == Contents(q, old) = Contents(q, new)

Measure ==
    /\ mem' \in Memory
    /\ quiet' = [r \in Readers |-> quiet[r] /\ Unchanged(call[r], mem, mem')]
    /\ UNCHANGED <<high, low, issued, loaded, mutex, pc, call, got, script>>

-----------------------------------------------------------------------------
(* A thread in smf_read_reg or smf_read_reg16 *)

GoTo(r, from, to) == pc[r] = from /\ pc' = [pc EXCEPT ![r] = to]

Begin(r) ==
    /\ loaded
    /\ GoTo(r, "idle", "lock")
    /\ \E q \in Readings : call' = [call EXCEPT ![r] = q]
    /\ got' = [got EXCEPT ![r] = <<>>]
    /\ quiet' = [quiet EXCEPT ![r] = TRUE]
    /\ UNCHANGED <<smf, loaded, mutex, script>>

Lock(r) ==
    /\ MutexFree
    /\ GoTo(r, "lock", "high")
    /\ mutex' = r
    /\ UNCHANGED <<smf, loaded, call, got, quiet, script>>

SelectHigh(r) ==
    /\ GoTo(r, "high", "low")
    /\ high' = HighByte(r)
    /\ UNCHANGED <<mem, low, issued, loaded, mutex, call, got, quiet, script>>

SelectLow(r) ==
    /\ GoTo(r, "low", "fetch")
    /\ low' = LowPart(NextAddress(r))
    /\ UNCHANGED <<mem, high, issued, loaded, mutex, call, got, quiet, script>>

(* What the port shows for an address that is no register is anything. *)
Fetch(r) ==
    /\ GoTo(r, "fetch", IF Len(got[r]) + 1 < call[r].size THEN "high" ELSE "unlock")
    /\ \E v \in Values :
          /\ Selected \in Registers => v = mem[Selected]
          /\ got' = [got EXCEPT ![r] = Append(@, v)]
    /\ UNCHANGED <<smf, loaded, mutex, call, quiet, script>>

Unlock(r) ==
    /\ GoTo(r, "unlock", "idle")
    /\ mutex' = Released
    /\ UNCHANGED <<smf, loaded, call, got, quiet, script>>

Working(r) == SelectHigh(r) \/ SelectLow(r) \/ Fetch(r) \/ Unlock(r)
Thread(r)  == Begin(r) \/ Lock(r) \/ Working(r)

-----------------------------------------------------------------------------
(* The init script: power_on, then the driver; and back. *)

(* An assumption on who calls: a start is that of a boot, or follows a     *)
(* stop, so that the driver is not loaded.  The script does not test it;  *)
(* with the driver loaded its lines meet the threads as those of          *)
(* PowerOffByHand do.                                                     *)
Start ==
    /\ ~ loaded /\ line = "off"
    /\ line' = "high" /\ iom' = 0 /\ power' = 1
    /\ issued' = {}
    /\ UNCHANGED <<mem, high, low, loaded, thread>>

(* The high byte is written for the first module only. *)
ScriptHigh ==
    /\ line = "high" /\ line' = "low"
    /\ high' = HighPart(IomRegister(0))
    /\ UNCHANGED <<mem, low, issued, loaded, thread, iom, power>>

ScriptLow ==
    /\ line = "low" /\ ~ LastModuleDone /\ line' = "value"
    /\ low' = LowPart(IomRegister(iom))
    /\ UNCHANGED <<mem, high, issued, loaded, thread, iom, power>>

ScriptValue ==
    /\ line = "value" /\ line' = "low"
    /\ issued' = issued \cup {<<Selected, power>>}
    /\ iom' = iom + 1
    /\ UNCHANGED <<mem, high, low, loaded, thread, power>>

(* The script is over. *)
ScriptEnd ==
    /\ line = "low" /\ LastModuleDone
    /\ line' = IF power = 1 THEN "load" ELSE "off"
    /\ UNCHANGED <<smf, loaded, thread, iom, power>>

Load ==
    /\ ~ loaded /\ line \in LoadsAt
    /\ loaded' = TRUE
    /\ line' = IF line = "load" THEN "off" ELSE line
    /\ UNCHANGED <<smf, thread, iom, power>>

Unload ==
    /\ loaded /\ Drained
    /\ loaded' = FALSE
    /\ UNCHANGED <<smf, thread, script>>

Script  == ScriptHigh \/ ScriptLow \/ ScriptValue \/ ScriptEnd
Service == Start \/ Script \/ Load \/ Unload

(* iom_power_off.sh, which nothing calls: the operator may. *)
PowerOffByHand ==
    /\ line = "off"
    /\ line' = "high" /\ iom' = 0 /\ power' = 2
    /\ UNCHANGED <<smf, loaded, thread>>

-----------------------------------------------------------------------------
Next == Measure \/ Service \/ \E r \in Readers : Thread(r)

Spec == Init /\ [][Next]_vars

(* A thread that holds the mutex goes on, and the mutex wakes those that *)
(* wait for it in turn.                                                   *)
FairSpec == Spec /\ \A r \in Readers : WF_vars(Working(r)) /\ SF_vars(Lock(r))

ByHandSpec == Init /\ [][Next \/ PowerOffByHand]_vars

-----------------------------------------------------------------------------
(* A byte that a thread has read is the one its register holds, as long as *)
(* the SMF has not measured anew since the call; a call that is over has   *)
(* all its bytes.                                                          *)
QuietReadingIsExact ==
    \A r \in Readers :
        /\ quiet[r] => \A k \in 1 .. Len(got[r]) : got[r][k] = mem[Address(call[r], k)]
        /\ pc[r] = "unlock" => Len(got[r]) = call[r].size

(* No command but the ones of the scripts ever reaches the SMF: register   *)
(* and value of a command are those of one module.                         *)
IomCommandsArrive ==
    issued \subseteq IomCommands(NumIoms, 1) \cup IomCommands(NumIoms, 2)

(* Whenever the driver is there to be read, every I/O module has been      *)
(* commanded on, and nothing else has been commanded.                      *)
ModulesPoweredBeforeSensors == loaded => issued = IomCommands(NumIoms, 1)

(* Threads do not see the ports: a reading is what SmfRegisters promises.  *)
Promise == INSTANCE SmfRegisters WITH reading <- {r \in Readers : pc[r] # "idle"}
ImplementsRegisters == Promise!Spec

(* Every call of smf_read_reg and smf_read_reg16 returns. *)
EveryReadReturns == \A r \in Readers : pc[r] = "lock" ~> pc[r] = "idle"
=============================================================================
