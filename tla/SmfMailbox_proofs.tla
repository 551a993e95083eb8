-------------------------- MODULE SmfMailbox_proofs --------------------------
(***************************************************************************)
(* Proofs about SmfMailbox: with the script run before the driver is       *)
(* loaded, readings are exact and implement SmfRegisters, and the commands *)
(* of the script arrive, for any number of threads, readings and modules.  *)
(*                                                                         *)
(* What makes the properties inductive is who owns the ports: the holder   *)
(* of the mutex while the driver is loaded, the script otherwise.          *)
(***************************************************************************)
EXTENDS SmfMailbox, TLAPS

(* Who owns the ports. *)
Owner ==
    /\ \A r \in Readers : pc[r] \in Inside <=> mutex = r
    /\ \A r \in Readers : pc[r] # "idle" => loaded
    /\ loaded => line = "off"

(* What the owner has written to them. *)
Ports ==
    /\ \A r \in Readers : pc[r] \in {"low", "fetch"} => high = HighByte(r)
    /\ \A r \in Readers : pc[r] = "fetch" => low = LowPart(NextAddress(r))
    /\ line \in {"low", "value"} => high = HighPart(IomRegister(0))
    /\ line = "value" => iom < NumIoms /\ low = LowPart(IomRegister(iom))

(* How far a reading and the script have come. *)
Progress ==
    /\ \A r \in Readers : Len(got[r]) <= call[r].size
    /\ \A r \in Readers : pc[r] = "lock" => got[r] = <<>>
    /\ \A r \in Readers : pc[r] \in {"high", "low", "fetch"} => Len(got[r]) < call[r].size
    /\ power = 1
    /\ line = "high" => iom = 0
    /\ line = "load" => iom = NumIoms
    /\ line # "off" => issued = IomCommands(iom, 1)
    /\ issued \subseteq IomCommands(NumIoms, 1)

IInv ==
    /\ TypeOK
    /\ Owner
    /\ Ports
    /\ Progress
    /\ QuietReadingIsExact
    /\ ModulesPoweredBeforeSensors

-----------------------------------------------------------------------------
(* Facts about addresses and commands. *)

(* The two ports hold an address without loss. *)
LEMMA Split ==
    ASSUME NEW a \in Addresses
    PROVE  /\ HighPart(a) \in Byte /\ LowPart(a) \in Byte
           /\ high = HighPart(a) /\ low = LowPart(a) => Selected = a
<1>1. a \in Int /\ 0 <= a /\ a <= 65535
  BY DEF Addresses
<1>2. a \div 256 \in 0 .. 255 /\ a % 256 \in 0 .. 255
  BY SMT, <1>1
<1>3. (a \div 256) * 256 + (a % 256) = a
  BY SMT, <1>1
<1> QED
  BY SMT, <1>2, <1>3 DEF HighPart, LowPart, Selected, Byte

(* The bytes of a reading are in registers. *)
LEMMA InRegisters ==
    ASSUME NEW q \in Readings, NEW k \in 1 .. q.size
    PROVE  q.size \in {1, 2} /\ Address(q, k) \in Registers
<1>1. /\ q.reg \in Registers /\ q.size \in {1, 2} /\ q.reg \in Addresses
      /\ q.size = 2 => q.reg + 1 \in Registers
  BY ReadingsAssumption
<1>3. q.reg \in Int
  <2>1. \A a \in Addresses : a \in Int
    BY DEF Addresses
  <2> QED
    BY <1>1, <2>1
<1>2. Address(q, k) = q.reg \/ (q.size = 2 /\ Address(q, k) = q.reg + 1)
  BY <1>1, <1>3 DEF Address
<1> QED
  BY <1>1, <1>2

(* The registers of the modules are all in one page. *)
LEMMA IomSplit ==
    ASSUME NEW n \in 0 .. NumIoms - 1
    PROVE  /\ IomRegister(n) \in Addresses
           /\ HighPart(IomRegister(n)) = HighPart(IomRegister(0))
<1>1. \A k \in 0 .. 38 : (1241 + k) \div 256 = 4
  BY SMT
<1>2. n \in 0 .. 38 /\ 0 \in 0 .. 38
  BY SMT, IomsAssumption
<1>3. HighPart(IomRegister(n)) = 4 /\ HighPart(IomRegister(0)) = 4
  BY SMT, <1>1, <1>2 DEF HighPart, IomRegister
<1>4. IomRegister(n) \in Addresses
  BY SMT, <1>2 DEF IomRegister, Addresses
<1> QED
  BY <1>3, <1>4

(* Commands are issued one module after the other. *)
LEMMA CommandsGrow ==
    ASSUME NEW n \in Nat
    PROVE  IomCommands(n + 1, 1) = IomCommands(n, 1) \cup {<<IomRegister(n), 1>>}
<1>1. 0 .. (n + 1) - 1 = (0 .. n - 1) \cup {n}
  OBVIOUS
<1> QED
  BY <1>1 DEF IomCommands

LEMMA CommandsMonotonic ==
    ASSUME NEW n \in Nat, n <= NumIoms
    PROVE  IomCommands(n, 1) \subseteq IomCommands(NumIoms, 1)
<1>1. 0 .. n - 1 \subseteq 0 .. NumIoms - 1
  BY IomsAssumption
<1> QED
  BY <1>1 DEF IomCommands

(* A measurement that leaves the contents of a reading alone leaves every  *)
(* byte of it alone.                                                       *)
LEMMA ContentsSame ==
    ASSUME NEW q \in Readings, NEW old, NEW new, Unchanged(q, old, new),
           NEW k \in 1 .. q.size
    PROVE  old[Address(q, k)] = new[Address(q, k)]
<1>1. Contents(q, old)[k] = Contents(q, new)[k]
  BY DEF Unchanged
<1> QED
  BY <1>1 DEF Contents
-----------------------------------------------------------------------------
LEMMA InitInv == Init => IInv
<1> SUFFICES ASSUME Init PROVE IInv
  OBVIOUS
<1>1. \A a \in Registers : a \in Addresses
  BY ReadingsAssumption
<1>2. TypeOK
  <2>1. PICK a \in Registers : high = HighPart(a) /\ low = LowPart(a)
    BY DEF Init
  <2>2. high \in Byte /\ low \in Byte
    BY <1>1, <2>1, Split
  <2>3. got \in [Readers -> Seq(Values)]
    BY DEF Init
  <2>4. iom \in 0 .. NumIoms
    BY IomsAssumption DEF Init
  <2> QED
    BY <2>2, <2>3, <2>4 DEF Init, TypeOK, PCs
<1>3. Owner
  BY NoReaderAssumption DEF Init, Owner, Inside
<1>4. Ports /\ QuietReadingIsExact /\ ModulesPoweredBeforeSensors
  BY DEF Init, Ports, QuietReadingIsExact, ModulesPoweredBeforeSensors
<1>5. Progress
  <2>1. \A q \in Readings : q.size \in {1, 2}
    BY ReadingsAssumption
  <2>2. \A r \in Readers : Len(got[r]) = 0 /\ call[r].size \in {1, 2}
    BY <2>1 DEF Init
  <2> QED
    BY <2>2 DEF Init, Progress
<1> QED
  BY <1>2, <1>3, <1>4, <1>5 DEF IInv

(* A thread never has more bytes than its reading. *)
LEMMA GotFits ==
    ASSUME NEW r \in Readers, IInv
    PROVE  /\ call[r] \in Readings /\ call[r].size \in {1, 2}
           /\ got[r] \in Seq(Values) /\ Len(got[r]) \in Nat
           /\ Len(got[r]) <= call[r].size
           /\ 1 .. Len(got[r]) \subseteq 1 .. call[r].size
<1>1. call[r] \in Readings /\ got[r] \in Seq(Values)
  BY DEF IInv, TypeOK
<1>2. call[r].size \in {1, 2}
  BY <1>1, ReadingsAssumption
<1>3. Len(got[r]) <= call[r].size
  BY DEF IInv, Progress
<1>4. Len(got[r]) \in Nat
  BY <1>1
<1> QED
  BY <1>1, <1>2, <1>3, <1>4

(* While it reads, the next byte is in a register. *)
LEMMA NextInRegisters ==
    ASSUME NEW r \in Readers, IInv, pc[r] \in {"high", "low", "fetch"}
    PROVE  NextAddress(r) \in Registers /\ NextAddress(r) \in Addresses
<1>1. Len(got[r]) + 1 \in 1 .. call[r].size
  BY GotFits DEF IInv, Progress
<1>2. NextAddress(r) \in Registers
  BY <1>1, GotFits, InRegisters DEF NextAddress
<1> QED
  BY <1>2, ReadingsAssumption

LEMMA MeasureInv == IInv /\ Measure => IInv'
<1> SUFFICES ASSUME IInv, Measure PROVE IInv'
  OBVIOUS
<1>1. TypeOK'
  BY DEF IInv, TypeOK, Measure, script
<1>2. Owner' /\ Progress' /\ ModulesPoweredBeforeSensors'
  BY DEF IInv, Owner, Progress, ModulesPoweredBeforeSensors, Measure, script
<1>3. Ports'
  BY DEF IInv, Ports, Measure, script, HighByte, NextAddress
<1>4. QuietReadingIsExact'
  <2> SUFFICES ASSUME NEW r \in Readers
               PROVE  /\ quiet'[r] => \A k \in 1 .. Len(got'[r]) :
                                         got'[r][k] = mem'[Address(call'[r], k)]
                      /\ pc'[r] = "unlock" => Len(got'[r]) = call'[r].size
    BY DEF QuietReadingIsExact
  <2>1. got' = got /\ call' = call /\ pc' = pc
    BY DEF Measure
  <2>2. quiet'[r] => quiet[r] /\ Unchanged(call[r], mem, mem')
    BY DEF Measure
  <2>3. ASSUME quiet'[r], NEW k \in 1 .. Len(got[r])
        PROVE  got[r][k] = mem'[Address(call[r], k)]
    <3>1. got[r][k] = mem[Address(call[r], k)]
      BY <2>2, <2>3 DEF IInv, QuietReadingIsExact
    <3>2. k \in 1 .. call[r].size /\ call[r] \in Readings
      BY <2>3, GotFits
    <3> QED
      BY <2>2, <2>3, <3>1, <3>2, ContentsSame
  <2> QED
    BY <2>1, <2>3 DEF IInv, QuietReadingIsExact
<1> QED
  BY <1>1, <1>2, <1>3, <1>4 DEF IInv

(* One thread steps: the others keep their place, and what they own. *)
LEMMA BeginInv == ASSUME NEW r \in Readers, IInv, Begin(r) PROVE IInv'
<1>1. TypeOK'
  BY DEF IInv, TypeOK, Begin, GoTo, smf, script, PCs
<1>2. Owner'
  BY DEF IInv, Owner, TypeOK, Begin, GoTo, script, Inside
<1>3. Ports'
  BY DEF IInv, Ports, TypeOK, Begin, GoTo, smf, script, HighByte, NextAddress
<1>4. Progress' /\ ModulesPoweredBeforeSensors'
  <2>1. call'[r] \in Readings /\ got'[r] = <<>>
    BY DEF IInv, TypeOK, Begin
  <2>2. call'[r].size \in {1, 2} /\ Len(got'[r]) = 0
    BY <2>1, ReadingsAssumption
  <2> QED
    BY <2>1, <2>2 DEF IInv, Progress, ModulesPoweredBeforeSensors, TypeOK, Begin, GoTo,
                      smf, script
<1>5. QuietReadingIsExact'
  BY DEF IInv, QuietReadingIsExact, TypeOK, Begin, GoTo, smf
<1> QED
  BY <1>1, <1>2, <1>3, <1>4, <1>5 DEF IInv

LEMMA LockInv == ASSUME NEW r \in Readers, IInv, Lock(r) PROVE IInv'
<1>1. TypeOK'
  BY DEF IInv, TypeOK, Lock, GoTo, smf, script, PCs, Inside
<1>2. Owner'
  BY NoReaderAssumption DEF IInv, Owner, TypeOK, Lock, GoTo, MutexFree, script, Inside
<1>3. Ports'
  BY DEF IInv, Ports, TypeOK, Lock, GoTo, smf, script, HighByte, NextAddress
<1>4. Progress' /\ ModulesPoweredBeforeSensors'
  <2>1. got[r] = <<>> /\ call[r].size \in {1, 2}
    BY ReadingsAssumption DEF IInv, Progress, TypeOK, Lock, GoTo
  <2> QED
    BY <2>1 DEF IInv, Progress, ModulesPoweredBeforeSensors, TypeOK, Lock, GoTo, smf, script
<1>5. QuietReadingIsExact'
  BY DEF IInv, QuietReadingIsExact, TypeOK, Lock, GoTo, smf
<1> QED
  BY <1>1, <1>2, <1>3, <1>4, <1>5 DEF IInv

LEMMA SelectHighInv == ASSUME NEW r \in Readers, IInv, SelectHigh(r) PROVE IInv'
<1>1. NextAddress(r) \in Addresses
  BY NextInRegisters DEF SelectHigh, GoTo
<1>2. TypeOK'
  BY <1>1, Split DEF IInv, TypeOK, SelectHigh, GoTo, script, PCs, Inside, HighByte
<1>3. Owner'
  BY DEF IInv, Owner, TypeOK, SelectHigh, GoTo, script, Inside
<1>4. Ports'
  BY DEF IInv, Ports, Owner, TypeOK, SelectHigh, GoTo, script, HighByte, NextAddress, Inside
<1>5. Progress' /\ ModulesPoweredBeforeSensors'
  BY DEF IInv, Progress, ModulesPoweredBeforeSensors, TypeOK, SelectHigh, GoTo, script
<1>6. QuietReadingIsExact'
  BY DEF IInv, QuietReadingIsExact, TypeOK, SelectHigh, GoTo
<1> QED
  BY <1>2, <1>3, <1>4, <1>5, <1>6 DEF IInv

LEMMA SelectLowInv == ASSUME NEW r \in Readers, IInv, SelectLow(r) PROVE IInv'
<1>1. NextAddress(r) \in Addresses
  BY NextInRegisters DEF SelectLow, GoTo
<1>2. TypeOK'
  BY <1>1, Split DEF IInv, TypeOK, SelectLow, GoTo, script, PCs, Inside
<1>3. Owner'
  BY DEF IInv, Owner, TypeOK, SelectLow, GoTo, script, Inside
<1>4. Ports'
  BY DEF IInv, Ports, Owner, TypeOK, SelectLow, GoTo, script, HighByte, NextAddress, Inside
<1>5. Progress' /\ ModulesPoweredBeforeSensors'
  BY DEF IInv, Progress, ModulesPoweredBeforeSensors, TypeOK, SelectLow, GoTo, script
<1>6. QuietReadingIsExact'
  BY DEF IInv, QuietReadingIsExact, TypeOK, SelectLow, GoTo
<1> QED
  BY <1>2, <1>3, <1>4, <1>5, <1>6 DEF IInv

LEMMA FetchInv == ASSUME NEW r \in Readers, IInv, Fetch(r) PROVE IInv'
<1>1. /\ pc[r] = "fetch" /\ call[r] \in Readings /\ call[r].size \in {1, 2}
      /\ got[r] \in Seq(Values) /\ Len(got[r]) \in Nat /\ Len(got[r]) < call[r].size
  BY GotFits DEF IInv, Progress, Fetch, GoTo
<1>2. NextAddress(r) \in Registers /\ Selected = NextAddress(r)
  BY <1>1, NextInRegisters, Split DEF IInv, Ports, HighByte
<1>3. PICK v \in Values : v = mem[NextAddress(r)] /\ got' = [got EXCEPT ![r] = Append(@, v)]
  BY <1>2 DEF Fetch
<1>4. /\ got'[r] = Append(got[r], v) /\ Len(got'[r]) = Len(got[r]) + 1
      /\ got'[r] \in Seq(Values)
      /\ \A q \in Readers \ {r} : got'[q] = got[q]
  BY <1>1, <1>3 DEF IInv, TypeOK
<1>5. UNCHANGED <<smf, loaded, mutex, call, quiet, script>>
  BY DEF Fetch
<1>6. /\ pc' = [pc EXCEPT ![r] = IF Len(got[r]) + 1 < call[r].size THEN "high" ELSE "unlock"]
      /\ pc'[r] \in {"high", "unlock"}
  BY <1>1 DEF Fetch, GoTo, IInv, TypeOK
<1>7. TypeOK'
  <2>1. got' \in [Readers -> Seq(Values)]
    BY <1>1, <1>3 DEF IInv, TypeOK
  <2> QED
    BY <1>5, <1>6, <2>1 DEF IInv, TypeOK, PCs, Inside, smf, script
<1>8. Owner'
  BY <1>1, <1>5, <1>6 DEF IInv, Owner, TypeOK, script, Inside
<1>9. Ports'
  BY <1>1, <1>4, <1>5, <1>6 DEF IInv, Ports, TypeOK, smf, script, HighByte, NextAddress
<1>10. Progress' /\ ModulesPoweredBeforeSensors'
  <2>1. \A q \in Readers : Len(got'[q]) <= call'[q].size
    BY <1>1, <1>4, <1>5 DEF IInv, Progress
  <2>2. pc'[r] = "high" => Len(got'[r]) < call'[r].size
    BY <1>1, <1>4, <1>5, <1>6 DEF IInv, TypeOK
  <2> QED
    BY <1>4, <1>5, <1>6, <2>1, <2>2
       DEF IInv, Progress, ModulesPoweredBeforeSensors, TypeOK, smf, script
<1>11. QuietReadingIsExact'
  <2>1. pc'[r] = "unlock" => Len(got'[r]) = call'[r].size
    BY <1>1, <1>4, <1>5, <1>6 DEF IInv, TypeOK
  <2>2. ASSUME quiet'[r], NEW k \in 1 .. Len(got'[r])
        PROVE  got'[r][k] = mem'[Address(call'[r], k)]
    <3>1. mem' = mem /\ call' = call /\ quiet' = quiet
      BY <1>5 DEF smf
    <3>2. CASE k \in 1 .. Len(got[r])
      BY <1>1, <1>4, <2>2, <3>1, <3>2 DEF IInv, QuietReadingIsExact
    <3>3. CASE k = Len(got[r]) + 1
      BY <1>1, <1>3, <1>4, <3>1, <3>3 DEF NextAddress
    <3> QED
      BY <1>1, <1>4, <2>2, <3>2, <3>3
  <2>3. \A q \in Readers \ {r} :
           got'[q] = got[q] /\ call'[q] = call[q] /\ pc'[q] = pc[q] /\ quiet'[q] = quiet[q]
    BY <1>4, <1>5, <1>6 DEF IInv, TypeOK
  <2>4. mem' = mem
    BY <1>5 DEF smf
  <2>5. \A q \in Readers \ {r} :
           /\ quiet'[q] => \A k \in 1 .. Len(got'[q]) : got'[q][k] = mem'[Address(call'[q], k)]
           /\ pc'[q] = "unlock" => Len(got'[q]) = call'[q].size
    BY <2>3, <2>4 DEF IInv, QuietReadingIsExact
  <2> QED
    BY <2>1, <2>2, <2>5 DEF QuietReadingIsExact
<1> QED
  BY <1>7, <1>8, <1>9, <1>10, <1>11 DEF IInv

LEMMA UnlockInv == ASSUME NEW r \in Readers, IInv, Unlock(r) PROVE IInv'
<1>1. TypeOK'
  BY DEF IInv, TypeOK, Unlock, GoTo, Released, smf, script, PCs
<1>2. Owner'
  BY NoReaderAssumption DEF IInv, Owner, TypeOK, Unlock, GoTo, Released, script, Inside
<1>3. Ports'
  BY DEF IInv, Ports, TypeOK, Unlock, GoTo, smf, script, HighByte, NextAddress
<1>4. Progress' /\ ModulesPoweredBeforeSensors'
  BY DEF IInv, Progress, ModulesPoweredBeforeSensors, TypeOK, Unlock, GoTo, smf, script
<1>5. QuietReadingIsExact'
  BY DEF IInv, QuietReadingIsExact, TypeOK, Unlock, GoTo, smf
<1> QED
  BY <1>1, <1>2, <1>3, <1>4, <1>5 DEF IInv

(* The script has the ports to itself: no thread is in a reading. *)
LEMMA ScriptInv == ASSUME IInv, Script PROVE IInv'
<1>1. ~ loaded /\ \A r \in Readers : pc[r] = "idle"
  BY DEF IInv, Owner, TypeOK, Script, ScriptHigh, ScriptLow, ScriptValue, ScriptEnd
<1>2. UNCHANGED <<mem, loaded, thread, power>>
  BY DEF Script, ScriptHigh, ScriptLow, ScriptValue, ScriptEnd, smf
<1>3. Owner' /\ QuietReadingIsExact' /\ ModulesPoweredBeforeSensors'
  BY <1>1, <1>2 DEF IInv, Owner, QuietReadingIsExact, ModulesPoweredBeforeSensors, thread, Inside
<1>4. iom \in 0 .. NumIoms /\ NumIoms \in Nat /\ NumIoms > 0
  BY IomsAssumption DEF IInv, TypeOK
<1>5. CASE ScriptHigh
  <2>1. IomRegister(0) \in Addresses
    BY <1>4, IomSplit
  <2>2. TypeOK'
    BY <1>2, <1>5, <2>1, Split DEF IInv, TypeOK, ScriptHigh, thread
  <2>3. Ports' /\ Progress'
    BY <1>1, <1>2, <1>5 DEF IInv, Ports, Progress, ScriptHigh, thread
  <2> QED
    BY <1>3, <2>2, <2>3 DEF IInv
<1>6. CASE ScriptLow
  <2>1. iom \in 0 .. NumIoms - 1
    BY <1>4, <1>6 DEF ScriptLow, LastModuleDone
  <2>2. TypeOK'
    BY <1>2, <1>6, <2>1, IomSplit, Split DEF IInv, TypeOK, ScriptLow, thread
  <2>3. Ports' /\ Progress'
    BY <1>1, <1>2, <1>4, <1>6, <2>1 DEF IInv, Ports, Progress, ScriptLow, thread
  <2> QED
    BY <1>3, <2>2, <2>3 DEF IInv
<1>7. CASE ScriptValue
  <2>1. /\ iom \in 0 .. NumIoms - 1 /\ iom' = iom + 1
        /\ high = HighPart(IomRegister(0)) /\ low = LowPart(IomRegister(iom))
    BY <1>4, <1>7 DEF ScriptValue, IInv, Ports
  <2>2. IomRegister(iom) \in Addresses /\ Selected = IomRegister(iom)
    BY <2>1, IomSplit, Split
  <2>3. issued' = issued \cup {<<IomRegister(iom), 1>>} /\ issued = IomCommands(iom, 1)
    BY <1>7, <2>2 DEF ScriptValue, IInv, Progress
  <2>4. issued' = IomCommands(iom', 1) /\ issued' \subseteq IomCommands(NumIoms, 1)
    <3>1. iom \in Nat /\ iom' \in Nat /\ iom' <= NumIoms
      BY <1>4, <2>1
    <3> QED
      BY <2>1, <2>3, <3>1, CommandsGrow, CommandsMonotonic
  <2>5. TypeOK'
    <3>1. iom' \in 0 .. NumIoms
      BY <1>4, <2>1
    <3>2. issued' \subseteq Addresses \X {1, 2}
      BY <2>2, <2>3 DEF IInv, TypeOK
    <3> QED
      BY <1>2, <1>7, <3>1, <3>2 DEF IInv, TypeOK, ScriptValue, thread
  <2>6. Ports' /\ Progress'
    BY <1>1, <1>2, <1>7, <2>4 DEF IInv, Ports, Progress, ScriptValue, thread
  <2> QED
    BY <1>3, <2>5, <2>6 DEF IInv
<1>8. CASE ScriptEnd
  <2>1. TypeOK'
    BY <1>2, <1>8 DEF IInv, TypeOK, ScriptEnd, smf, thread
  <2>2. Ports' /\ Progress'
    BY <1>1, <1>2, <1>8 DEF IInv, Ports, Progress, ScriptEnd, LastModuleDone, smf, thread
  <2> QED
    BY <1>3, <2>1, <2>2 DEF IInv
<1> QED
  BY <1>5, <1>6, <1>7, <1>8 DEF Script

LEMMA StartInv == ASSUME IInv, Start PROVE IInv'
<1>1. IomCommands(0, 1) = {}
  BY DEF IomCommands
<1>2. TypeOK'
  BY IomsAssumption DEF IInv, TypeOK, Start, thread
<1>3. Owner' /\ QuietReadingIsExact' /\ ModulesPoweredBeforeSensors'
  BY DEF IInv, Owner, QuietReadingIsExact, ModulesPoweredBeforeSensors, TypeOK, Start, thread,
         Inside
<1>4. Ports' /\ Progress'
  BY <1>1 DEF IInv, Ports, Owner, Progress, Start, thread, HighByte, NextAddress
<1> QED
  BY <1>2, <1>3, <1>4 DEF IInv

LEMMA LoadInv == ASSUME IInv, Load PROVE IInv'
<1>1. line = "load" /\ line' = "off" /\ loaded' /\ UNCHANGED <<smf, thread, iom, power>>
  BY DEF Load, LoadsAt
<1>2. issued = IomCommands(NumIoms, 1)
  BY <1>1 DEF IInv, Progress
<1>3. TypeOK' /\ Owner'
  BY <1>1 DEF IInv, TypeOK, Owner, smf, thread, Inside, Load
<1>4. Ports' /\ Progress' /\ QuietReadingIsExact' /\ ModulesPoweredBeforeSensors'
  BY <1>1, <1>2 DEF IInv, Ports, Progress, QuietReadingIsExact, ModulesPoweredBeforeSensors,
                    smf, thread, HighByte, NextAddress
<1> QED
  BY <1>3, <1>4 DEF IInv

LEMMA UnloadInv == ASSUME IInv, Unload PROVE IInv'
<1>1. TypeOK' /\ Owner'
  BY DEF IInv, TypeOK, Owner, Unload, Drained, smf, thread, script, Inside
<1>2. Ports' /\ Progress' /\ QuietReadingIsExact' /\ ModulesPoweredBeforeSensors'
  BY DEF IInv, Ports, Progress, QuietReadingIsExact, ModulesPoweredBeforeSensors, Unload,
         smf, thread, script, HighByte, NextAddress
<1> QED
  BY <1>1, <1>2 DEF IInv

LEMMA StutterInv == ASSUME IInv, UNCHANGED vars PROVE IInv'
<1>1. UNCHANGED <<smf, loaded, thread, script>>
  BY DEF vars
<1>2. TypeOK' /\ Owner'
  BY <1>1 DEF IInv, TypeOK, Owner, smf, thread, script
<1>3. Ports' /\ Progress' /\ QuietReadingIsExact' /\ ModulesPoweredBeforeSensors'
  BY <1>1 DEF IInv, Ports, Progress, QuietReadingIsExact, ModulesPoweredBeforeSensors,
              smf, thread, script, HighByte, NextAddress
<1> QED
  BY <1>2, <1>3 DEF IInv

LEMMA NextInv == IInv /\ [Next]_vars => IInv'
<1> SUFFICES ASSUME IInv, [Next]_vars PROVE IInv'
  OBVIOUS
<1>1. CASE UNCHANGED vars
  BY <1>1, StutterInv
<1>2. CASE Measure
  BY <1>2, MeasureInv
<1>3. CASE Service
  BY <1>3, StartInv, ScriptInv, LoadInv, UnloadInv DEF Service
<1>4. ASSUME NEW r \in Readers, Thread(r) PROVE IInv'
  BY <1>4, BeginInv, LockInv, SelectHighInv, SelectLowInv, FetchInv, UnlockInv
     DEF Thread, Working
<1> QED
  BY <1>1, <1>2, <1>3, <1>4 DEF Next

(* The ports have one owner at a time, and hold what it wrote. *)
THEOREM Ownership == Spec => []IInv
<1> QED
  BY InitInv, NextInv, PTL DEF Spec

-----------------------------------------------------------------------------
(* Type correctness. *)
THEOREM TypeCorrect == Spec => []TypeOK
<1> QED
  BY Ownership, PTL DEF IInv

(* A reading is exact as long as the SMF does not measure anew, whatever   *)
(* the other threads read meanwhile.                                       *)
THEOREM ReadingsAreExact == Spec => []QuietReadingIsExact
<1> QED
  BY Ownership, PTL DEF IInv

(* The commands of the scripts reach the register they are meant for. *)
THEOREM CommandsArrive == Spec => []IomCommandsArrive
<1>1. IInv => IomCommandsArrive
  BY DEF IInv, Progress, IomCommandsArrive
<1> QED
  BY <1>1, Ownership, PTL

(* Sensors can be read only when every I/O module has been powered. *)
THEOREM PoweredFirst == Spec => []ModulesPoweredBeforeSensors
<1> QED
  BY Ownership, PTL DEF IInv

-----------------------------------------------------------------------------
(* Refinement *)

LEMMA InitRefines == Init => Promise!Init
BY DEF Init, Promise!Init, Promise!Memory, Memory

LEMMA ThreadRefines ==
    ASSUME NEW r \in Readers, IInv, Thread(r)
    PROVE  Promise!Next \/ UNCHANGED Promise!vars
<1> DEFINE Busy == {q \in Readers : pc[q] # "idle"}
<1>1. CASE Begin(r)
  <2>1. r \notin Busy /\ Busy' = Busy \cup {r} /\ mem' = mem
    BY <1>1 DEF Begin, GoTo, IInv, TypeOK, smf
  <2>2. Promise!Begin(r)
    BY <1>1, <2>1 DEF Begin, Promise!Begin
  <2> QED
    BY <2>2 DEF Promise!Next
<1>2. CASE Lock(r) \/ SelectHigh(r) \/ SelectLow(r)
  <2>1. Busy' = Busy
    BY <1>2 DEF Lock, SelectHigh, SelectLow, GoTo, IInv, TypeOK
  <2>2. UNCHANGED <<mem, call, got>>
    BY <1>2 DEF Lock, SelectHigh, SelectLow, smf
  <2> QED
    BY <2>1, <2>2 DEF Promise!vars
<1>3. CASE Fetch(r)
  <2>1. /\ call[r] \in Readings /\ Len(got[r]) < call[r].size /\ r \in Busy
    BY <1>3, GotFits DEF Fetch, GoTo, IInv, Progress
  <2>2. NextAddress(r) \in Registers /\ Selected = NextAddress(r)
    BY <1>3, NextInRegisters, Split DEF Fetch, GoTo, IInv, Ports, HighByte
  <2>3. got' = [got EXCEPT ![r] = Append(@, mem[Address(call[r], Len(@) + 1)])]
    BY <1>3, <2>2 DEF Fetch, NextAddress, IInv, TypeOK
  <2>4. Busy' = Busy
    BY <1>3 DEF Fetch, GoTo, IInv, TypeOK
  <2>5. UNCHANGED <<mem, call>>
    BY <1>3 DEF Fetch, smf
  <2>6. Promise!Take(r)
    BY <2>1, <2>3, <2>4, <2>5 DEF Promise!Take, Promise!Address, Address
  <2> QED
    BY <2>6 DEF Promise!Next
<1>4. CASE Unlock(r)
  <2>1. Busy' = Busy \ {r} /\ r \in Busy
    BY <1>4 DEF Unlock, GoTo, IInv, TypeOK
  <2>2. Len(got[r]) = call[r].size
    BY <1>4 DEF Unlock, GoTo, IInv, QuietReadingIsExact
  <2>3. UNCHANGED <<mem, call, got>>
    BY <1>4 DEF Unlock, smf
  <2>4. Promise!Return(r)
    BY <2>1, <2>2, <2>3 DEF Promise!Return
  <2> QED
    BY <2>4 DEF Promise!Next
<1> QED
  BY <1>1, <1>2, <1>3, <1>4 DEF Thread, Working

LEMMA NextRefines == IInv /\ [Next]_vars => [Promise!Next]_(Promise!vars)
<1> SUFFICES ASSUME IInv, [Next]_vars PROVE Promise!Next \/ UNCHANGED Promise!vars
  OBVIOUS
<1>1. CASE UNCHANGED vars \/ Service
  <2>1. UNCHANGED <<mem, call, got, pc>>
    BY <1>1 DEF vars, smf, thread, Service, Start, Script, ScriptHigh, ScriptLow, ScriptValue,
                ScriptEnd, Load, Unload
  <2> QED
    BY <2>1 DEF Promise!vars
<1>2. CASE Measure
  <2>1. Promise!Measure
    BY <1>2 DEF Measure, Promise!Measure, Promise!Memory, Memory
  <2> QED
    BY <2>1 DEF Promise!Next
<1>3. CASE \E r \in Readers : Thread(r)
  BY <1>3, ThreadRefines
<1> QED
  BY <1>1, <1>2, <1>3 DEF Next

(* Readings through the ports are what SmfRegisters promises: threads do   *)
(* not notice that they share the ports.                                   *)
THEOREM Implementation == Spec => ImplementsRegisters
<1> QED
  BY InitRefines, NextRefines, Ownership, PTL DEF Spec, Promise!Spec, ImplementsRegisters
=============================================================================
