---------------------------- MODULE FpgaPci_proofs ----------------------------
(***************************************************************************)
(* Theorems about FpgaPci, for any number of BARs and buses.  The          *)
(* inductive invariant says what the driver holds at each of its steps,    *)
(* that a loop over the buses has dealt with those below i (why a probe    *)
(* that fails after any of them leaves none behind), and it keeps account  *)
(* of what the code forgets: instances, BARs and the handler.              *)
(***************************************************************************)
EXTENDS FpgaPci, TLAPS

Failing == {"fail_handler", "fail_bars", "fail_regions", "fail_disable", "fail_adapters"}
Deletes == {"fail_adapters", "rm_adapters"}

(* Between i2c_pci_init and the end of i2c_pci_deinit. *)
WithBuses == {"add", "data", "irq", "msi", "vectors", "handler", "bound", "rm_adapters"}
                \cup Failing

MappedAt  == {"add", "data", "irq", "msi", "vectors", "handler", "bound",
              "fail_handler", "fail_bars", "rm_adapters", "rm_handler", "rm_msi", "rm_bars"}
EnabledAt == MappedAt \cup {"regions", "map", "fail_regions", "fail_disable", "rm_disable"}
RegionsAt == MappedAt \cup {"map", "fail_regions", "rm_disable", "rm_regions"}
VectorsAt == {"handler", "bound", "fail_handler", "rm_adapters", "rm_handler", "rm_msi"}
HandlerAt == {"bound", "rm_adapters", "rm_handler"}

Resources ==
    /\ enabled <=> pc \in EnabledAt
    /\ regions <=> pc \in RegionsAt
    /\ vectors => pc \in VectorsAt
    /\ handler => pc \in HandlerAt \/ stray

(* Only a handler can be stray, and one that is not was asked for. *)
HandlerAsked ==
    /\ stray => handler
    /\ pc \in {"msi", "vectors", "handler"} => probeIrq
    /\ handler /\ ~ stray => probeIrq

(* One instance for the probe or the binding there is, and one for each   *)
(* probe that failed; only those have lost BARs.                          *)
Accounts ==
    /\ instances = IF pc = "unbound" THEN failed ELSE failed + 1
    /\ pc # "unbound" => failed < MaxFailed
    /\ lost # {} => failed > 0 \/ pc = "fail_adapters"

BarsMapped ==
    /\ BarPresent(0) /\ (pc \in MappedAt \/ (pc = "map" /\ i > 0)) => 0 \in bars
    /\ bars # {} => pc \in MappedAt \cup {"map"}

BusesKnown ==
    /\ pc \notin WithBuses => adapters = {} /\ adapdata = {}
    /\ pc \in Deletes => \A b \in adapters \cup adapdata : b >= i
    /\ \A b \in adapters \ adapdata : pc = "data" /\ i = b
    /\ pc = "data" => i < NumBuses

IInv == TypeOK /\ Resources /\ HandlerAsked /\ Accounts /\ BarsMapped /\ BusesKnown

-----------------------------------------------------------------------------
LEMMA InitIInv == Init => IInv
<1> SUFFICES ASSUME Init PROVE IInv
  OBVIOUS
<1> USE SizesAssumption DEF Init
<1>1. TypeOK
  <2>1. i \in 0 .. NumBars + NumBuses
    OBVIOUS
  <2>2. layout \in [Bars -> {"absent", "short", "full"}]
    OBVIOUS
  <2>3. pc \in PCs
    BY DEF PCs
  <2>4. instances \in Nat /\ failed \in 0 .. MaxFailed
    OBVIOUS
  <2> QED
    BY <2>1, <2>2, <2>3, <2>4 DEF TypeOK
<1>2. Resources
  BY DEF Resources, EnabledAt, RegionsAt, MappedAt, VectorsAt, HandlerAt
<1>3. BarsMapped
  BY DEF BarsMapped, MappedAt
<1>4. BusesKnown
  BY DEF BusesKnown, Deletes
<1>5. HandlerAsked /\ Accounts
  BY DEF HandlerAsked, Accounts
<1> QED
  BY <1>1, <1>2, <1>3, <1>4, <1>5 DEF IInv

(* Every step keeps the types: the index, *)
LEMMA IndexStep == IInv /\ Next => i' \in 0 .. NumBars + NumBuses
<1> SUFFICES ASSUME IInv, Next PROVE i' \in 0 .. NumBars + NumBuses
  OBVIOUS
<1>1. i \in 0 .. NumBars + NumBuses
  BY DEF IInv, TypeOK
<1>2. \/ i' = i \/ i' = 0
      \/ i' = i + 1 /\ (i < NumBars \/ i < NumBuses)
  <2>1. CASE Probe \/ Remove \/ Removal \/ Users \/ SetUseIrq
    BY <2>1 DEF Probe, Remove, Removal, RemoveHandler, RemoveMsi, RemoveBars, RemoveDisable,
                RemoveRegions, FreeInstance, Users, BeginTransfer, EndTransfer, SetUseIrq
  <2>2. CASE Unwind
    BY <2>2 DEF Unwind, FailHandler, FailBars, FailRegions, FailDisable, DeleteAdapter,
                AdaptersDeleted, NextBus
  <2>3. CASE Setup
    BY <2>3 DEF Setup, EnableDevice, RequestRegions, MapBar, MapFails, InitControllers,
                AddAdapter, SetAdapdata, InitDone, DecideIrq, CheckMsi, AllocVectors,
                RequestIrq, GoTo, IInv, BusesKnown
  <2> QED
    BY <2>1, <2>2, <2>3 DEF Next
<1> QED
  BY <1>1, <1>2, SizesAssumption

(* the sets of BARs and buses, *)
LEMMA SetsStep ==
    IInv /\ Next => /\ bars' \subseteq Bars /\ lost' \subseteq Bars
                    /\ adapters' \subseteq Buses /\ adapdata' \subseteq Buses
                    /\ inUse' \subseteq adapters'
<1> SUFFICES ASSUME IInv, Next
             PROVE  /\ bars' \subseteq Bars /\ lost' \subseteq Bars
                    /\ adapters' \subseteq Buses /\ adapdata' \subseteq Buses
                    /\ inUse' \subseteq adapters'
  OBVIOUS
<1>1. /\ bars \subseteq Bars /\ lost \subseteq Bars
      /\ adapters \subseteq Buses /\ adapdata \subseteq Buses /\ inUse \subseteq adapters
      /\ i \in Nat
  BY SizesAssumption DEF IInv, TypeOK
<1> USE DEF pci, i2c
<1>2. CASE Probe \/ EnableDevice \/ RequestRegions \/ DecideIrq \/ CheckMsi
           \/ AllocVectors \/ RequestIrq \/ InitDone
  BY <1>1, <1>2 DEF Probe, EnableDevice, RequestRegions, DecideIrq, CheckMsi,
                    AllocVectors, RequestIrq, InitDone
<1>3. CASE MapBar
  <2>1. i \in Bars
    BY <1>1, <1>3, SizesAssumption DEF MapBar, Bars
  <2> QED
    BY <1>1, <1>3, <2>1 DEF MapBar
<1>4. CASE MapFails
  BY <1>1, <1>4 DEF MapFails
<1>5. CASE InitControllers
  <2>1. adapters = {}
    BY <1>5 DEF InitControllers, GoTo, IInv, BusesKnown, WithBuses, Failing
  <2> QED
    BY <1>1, <1>5, <2>1 DEF InitControllers
<1>6. CASE AddAdapter \/ SetAdapdata
  <2>1. i \in Buses
    BY <1>1, <1>6, SizesAssumption
       DEF AddAdapter, SetAdapdata, MoreBuses, GoTo, IInv, BusesKnown, Buses
  <2> QED
    BY <1>1, <1>6, <2>1 DEF AddAdapter, SetAdapdata
<1>7. CASE Unwind
  BY <1>1, <1>7 DEF Unwind, FailHandler, FailBars, FailRegions, FailDisable,
                    DeleteAdapter, AdaptersDeleted
<1>8. CASE Remove \/ Removal
  BY <1>1, <1>8 DEF Remove, Removal, RemoveHandler, RemoveMsi, RemoveBars, RemoveDisable,
                    RemoveRegions, FreeInstance
<1>9. CASE Users \/ SetUseIrq
  BY <1>1, <1>9 DEF Users, BeginTransfer, EndTransfer, SetUseIrq
<1> QED
  BY <1>2, <1>3, <1>4, <1>5, <1>6, <1>7, <1>8, <1>9 DEF Next, Setup

(* the place and the flags, *)
LEMMA FlagsStep ==
    IInv /\ Next => /\ pc' \in PCs /\ layout' = layout
                    /\ useIrq' \in BOOLEAN /\ probeIrq' \in BOOLEAN
                    /\ enabled' \in BOOLEAN /\ regions' \in BOOLEAN
                    /\ vectors' \in BOOLEAN /\ handler' \in BOOLEAN /\ stray' \in BOOLEAN
<1> SUFFICES ASSUME IInv, Next
             PROVE  /\ pc' \in PCs /\ layout' = layout
                    /\ useIrq' \in BOOLEAN /\ probeIrq' \in BOOLEAN
                    /\ enabled' \in BOOLEAN /\ regions' \in BOOLEAN
                    /\ vectors' \in BOOLEAN /\ handler' \in BOOLEAN /\ stray' \in BOOLEAN
  OBVIOUS
<1>1. /\ pc \in PCs /\ useIrq \in BOOLEAN /\ probeIrq \in BOOLEAN
      /\ enabled \in BOOLEAN /\ regions \in BOOLEAN
      /\ vectors \in BOOLEAN /\ handler \in BOOLEAN /\ stray \in BOOLEAN
  BY DEF IInv, TypeOK
<1> USE DEF PCs, GoTo, env, pci, msi
<1>2. CASE Probe \/ EnableDevice \/ RequestRegions
  BY <1>1, <1>2, ZenonT(60) DEF Probe, EnableDevice, RequestRegions
<1>3. CASE MapBar \/ MapFails \/ InitControllers \/ AddAdapter \/ SetAdapdata \/ InitDone
  BY <1>1, <1>3, ZenonT(60) DEF MapBar, MapFails, AfterMapFailure, InitControllers, AddAdapter,
                    AfterAdd, SetAdapdata, InitDone
<1>4. CASE DecideIrq \/ CheckMsi \/ AllocVectors \/ RequestIrq
  BY <1>1, <1>4, ZenonT(60) DEF DecideIrq, CheckMsi, AllocVectors, RequestIrq
<1>5. CASE Unwind
  BY <1>1, <1>5, ZenonT(60) DEF Unwind, FailHandler, FailBars, FailRegions, FailDisable,
                    DeleteAdapter, AdaptersDeleted, AfterAdapters
<1>6. CASE Remove \/ Removal
  BY <1>1, <1>6, ZenonT(60) DEF Remove, RemovalStartsWith, Removal, RemoveHandler, RemoveMsi,
                    RemoveBars, RemoveDisable, RemoveRegions, FreeInstance, FreesHandler
<1>7. CASE Users \/ SetUseIrq
  BY <1>1, <1>7, ZenonT(60) DEF Users, BeginTransfer, EndTransfer, SetUseIrq
<1> QED
  BY <1>2, <1>3, <1>4, <1>5, <1>6, <1>7 DEF Next, Setup

(* the counts, *)
LEMMA AccountsStep ==
    IInv /\ Next => Accounts' /\ instances' \in Nat /\ failed' \in 0 .. MaxFailed
<1> SUFFICES ASSUME IInv, Next
             PROVE  Accounts' /\ instances' \in Nat /\ failed' \in 0 .. MaxFailed
  OBVIOUS
<1>1. Accounts /\ instances \in Nat /\ failed \in 0 .. MaxFailed /\ pc \in PCs
  BY DEF IInv, TypeOK
<1> USE SizesAssumption DEF Accounts, GoTo, mem, pci
<1>2. CASE Probe
  BY <1>1, <1>2 DEF Probe
<1>3. CASE Setup
  BY <1>1, <1>3 DEF Setup, EnableDevice, RequestRegions, MapBar, MapFails, InitControllers,
                    AddAdapter, AfterAdd, SetAdapdata, InitDone, DecideIrq, CheckMsi,
                    AllocVectors, RequestIrq
<1>4. CASE FailHandler \/ FailBars \/ FailRegions \/ FailDisable \/ DeleteAdapter
  BY <1>1, <1>4 DEF FailHandler, FailBars, FailRegions, FailDisable, DeleteAdapter
<1>5. CASE AdaptersDeleted
  BY <1>1, <1>5 DEF AdaptersDeleted, AfterAdapters
<1>6. CASE Remove \/ RemoveHandler \/ RemoveMsi \/ RemoveBars \/ RemoveDisable
           \/ RemoveRegions
  BY <1>1, <1>6 DEF Remove, RemovalStartsWith, RemoveHandler, RemoveMsi, RemoveBars,
                    RemoveDisable, RemoveRegions
<1>7. CASE FreeInstance
  BY <1>1, <1>7 DEF FreeInstance
<1>8. CASE Users \/ SetUseIrq
  BY <1>1, <1>8 DEF Users, BeginTransfer, EndTransfer, SetUseIrq
<1> QED
  BY <1>2, <1>3, <1>4, <1>5, <1>6, <1>7, <1>8 DEF Next, Unwind, Removal

LEMMA TypeStep == IInv /\ Next => TypeOK'
  BY IndexStep, SetsStep, FlagsStep, AccountsStep DEF IInv, TypeOK, Bars, Buses

(* who asked for the handler: only a removal can leave it behind, *)
LEMMA HandlerStep ==
    IInv /\ Next => HandlerAsked' /\ (stray' /\ ~ stray => probeIrq /\ ~ useIrq)
<1> SUFFICES ASSUME IInv, Next
             PROVE  HandlerAsked' /\ (stray' /\ ~ stray => probeIrq /\ ~ useIrq)
  OBVIOUS
<1>1. /\ HandlerAsked /\ (handler => pc \in HandlerAt \/ stray)
      /\ useIrq \in BOOLEAN /\ probeIrq \in BOOLEAN
      /\ handler \in BOOLEAN /\ stray \in BOOLEAN
  BY DEF IInv, TypeOK, Resources
<1> USE DEF HandlerAsked, HandlerAt, GoTo, msi, env
<1>2. CASE Probe \/ EnableDevice \/ RequestRegions
  BY <1>1, <1>2 DEF Probe, EnableDevice, RequestRegions
<1>3. CASE MapBar \/ MapFails \/ InitControllers \/ AddAdapter \/ SetAdapdata \/ InitDone
  BY <1>1, <1>3 DEF MapBar, MapFails, InitControllers, AddAdapter, AfterAdd, SetAdapdata,
                    InitDone
<1>4. CASE DecideIrq
  BY <1>1, <1>4 DEF DecideIrq
<1>5. CASE CheckMsi \/ AllocVectors \/ RequestIrq
  BY <1>1, <1>5 DEF CheckMsi, AllocVectors, RequestIrq
<1>6. CASE Unwind
  BY <1>1, <1>6 DEF Unwind, FailHandler, FailBars, FailRegions, FailDisable, DeleteAdapter,
                    AdaptersDeleted, AfterAdapters
<1>7. CASE RemoveHandler
  BY <1>1, <1>7 DEF RemoveHandler, FreesHandler
<1>8. CASE Remove \/ RemoveMsi \/ RemoveBars \/ RemoveDisable \/ RemoveRegions
           \/ FreeInstance
  BY <1>1, <1>8 DEF Remove, RemovalStartsWith, RemoveMsi, RemoveBars, RemoveDisable,
                    RemoveRegions, FreeInstance
<1>9. CASE Users \/ SetUseIrq
  BY <1>1, <1>9 DEF Users, BeginTransfer, EndTransfer, SetUseIrq
<1> QED
  BY <1>2, <1>3, <1>4, <1>5, <1>6, <1>7, <1>8, <1>9 DEF Next, Setup, Removal

(* what is held where, *)
LEMMA ResourcesStep == IInv /\ Next => Resources'
<1> SUFFICES ASSUME IInv, Next PROVE Resources'
  OBVIOUS
<1> USE DEF IInv, TypeOK, Resources, HandlerAsked, EnabledAt, RegionsAt, MappedAt, VectorsAt, HandlerAt,
            GoTo, env, pci, i2c, msi
<1>1. CASE Probe \/ EnableDevice \/ RequestRegions
  BY <1>1 DEF Probe, EnableDevice, RequestRegions
<1>2. CASE MapBar \/ MapFails
  BY <1>2 DEF MapBar, MapFails, AfterMapFailure
<1>4. CASE InitControllers \/ AddAdapter \/ SetAdapdata \/ InitDone
  BY <1>4 DEF InitControllers, AddAdapter, SetAdapdata, InitDone, AfterAdd
<1>5. CASE DecideIrq \/ CheckMsi \/ AllocVectors \/ RequestIrq
  BY <1>5 DEF DecideIrq, CheckMsi, AllocVectors, RequestIrq
<1>6. CASE FailHandler \/ FailBars \/ FailRegions \/ FailDisable
  BY <1>6 DEF FailHandler, FailBars, FailRegions, FailDisable
<1>7. CASE DeleteAdapter \/ AdaptersDeleted
  BY <1>7 DEF DeleteAdapter, AdaptersDeleted, AfterAdapters
<1>8. CASE Remove \/ Removal
  BY <1>8 DEF Remove, RemovalStartsWith, Removal, RemoveHandler, RemoveMsi, RemoveBars,
              RemoveDisable, RemoveRegions, FreeInstance, FreesHandler
<1>9. CASE Users \/ SetUseIrq
  BY <1>9 DEF Users, BeginTransfer, EndTransfer, SetUseIrq
<1> QED
  BY <1>1, <1>2, <1>4, <1>5, <1>6, <1>7, <1>8, <1>9 DEF Next, Setup, Unwind

(* that BAR 0 is mapped where it matters, *)
LEMMA BarsStep == IInv /\ Next => BarsMapped'
<1> SUFFICES ASSUME IInv, Next PROVE BarsMapped'
  OBVIOUS
<1> USE SizesAssumption DEF IInv, TypeOK, BarsMapped, BarPresent, MappedAt, GoTo, env, pci, i2c, msi
<1>1. CASE Probe \/ EnableDevice \/ RequestRegions
  BY <1>1 DEF Probe, EnableDevice, RequestRegions
<1>2. CASE MapBar
  <2>1. CASE i = 0
    BY <1>2, <2>1 DEF MapBar
  <2>2. CASE i > 0
    BY <1>2, <2>2 DEF MapBar
  <2> QED
    BY <2>1, <2>2
<1>3. CASE MapFails
  BY <1>3 DEF MapFails
<1>4. CASE InitControllers \/ AddAdapter \/ SetAdapdata \/ InitDone
  BY <1>4 DEF InitControllers, AddAdapter, SetAdapdata, InitDone, AfterAdd
<1>5. CASE DecideIrq \/ CheckMsi \/ AllocVectors \/ RequestIrq
  BY <1>5 DEF DecideIrq, CheckMsi, AllocVectors, RequestIrq
<1>6. CASE FailHandler \/ FailBars \/ FailRegions \/ FailDisable
  BY <1>6 DEF FailHandler, FailBars, FailRegions, FailDisable
<1>7. CASE DeleteAdapter \/ AdaptersDeleted
  BY <1>7 DEF DeleteAdapter, AdaptersDeleted, AfterAdapters
<1>8. CASE Remove \/ Removal
  BY <1>8 DEF Remove, RemovalStartsWith, Removal, RemoveHandler, RemoveMsi, RemoveBars,
              RemoveDisable, RemoveRegions, FreeInstance, FreesHandler
<1>9. CASE Users \/ SetUseIrq
  BY <1>9 DEF Users, BeginTransfer, EndTransfer, SetUseIrq
<1> QED
  BY <1>1, <1>2, <1>3, <1>4, <1>5, <1>6, <1>7, <1>8, <1>9 DEF Next, Setup, Unwind

(* and how far the loops over the buses have come. *)
LEMMA BusesStep == IInv /\ Next => BusesKnown'
<1> SUFFICES ASSUME IInv, Next PROVE BusesKnown'
  OBVIOUS
<1> USE SizesAssumption DEF IInv, TypeOK, BusesKnown, WithBuses, Failing, Deletes, Buses,
                            GoTo, env, pci, i2c, msi
<1>1. CASE Probe \/ EnableDevice \/ RequestRegions
  BY <1>1 DEF Probe, EnableDevice, RequestRegions
<1>2. CASE MapBar \/ MapFails
  BY <1>2 DEF MapBar, MapFails
<1>3. CASE InitControllers
  BY <1>3 DEF InitControllers
<1>4. CASE AddAdapter \/ SetAdapdata \/ InitDone
  BY <1>4 DEF AddAdapter, SetAdapdata, InitDone, AfterAdd, MoreBuses
<1>5. CASE DecideIrq \/ CheckMsi \/ AllocVectors \/ RequestIrq
  BY <1>5 DEF DecideIrq, CheckMsi, AllocVectors, RequestIrq
<1>6. CASE FailHandler \/ FailBars \/ FailRegions \/ FailDisable
  <2>1. CASE FailHandler \/ FailBars \/ FailRegions
    BY <2>1 DEF FailHandler, FailBars, FailRegions
  <2>2. CASE FailDisable
    <3>1. \A b \in adapters \cup adapdata : b >= 0
      OBVIOUS
    <3> QED
      BY <2>2, <3>1 DEF FailDisable
  <2> QED
    BY <1>6, <2>1, <2>2
<1>7. CASE DeleteAdapter
  <2>1. /\ pc' = pc /\ pc \in Deletes /\ i' = i + 1
        /\ adapters' = adapters \ {i} /\ adapdata' = adapdata \ {i}
    BY <1>7 DEF DeleteAdapter, NextBus
  <2>2. i \in Nat /\ \A b \in adapters \cup adapdata : b \in Nat
    OBVIOUS
  <2>3. \A b \in adapters' \cup adapdata' : b >= i'
    BY <2>1, <2>2
  <2>4. adapters \ adapdata = {}
    BY <2>1
  <2> QED
    BY <2>1, <2>3, <2>4
<1>8. CASE AdaptersDeleted
  <2>1. adapters = {} /\ adapdata = {}
    BY <1>8 DEF AdaptersDeleted
  <2> QED
    BY <1>8, <2>1 DEF AdaptersDeleted, AfterAdapters
<1>9. CASE Remove \/ Removal
  <2>1. CASE Remove
    <3>1. \A b \in adapters \cup adapdata : b >= 0
      OBVIOUS
    <3> QED
      BY <2>1, <3>1 DEF Remove, RemovalStartsWith
  <2>2. CASE Removal
    <3>1. /\ pc \in {"rm_handler", "rm_msi", "rm_bars", "rm_disable", "rm_regions",
                     "rm_free"}
          /\ pc' \in {"rm_msi", "rm_bars", "rm_disable", "rm_regions", "rm_free", "unbound"}
          /\ UNCHANGED <<adapters, adapdata>>
      BY <2>2 DEF Removal, RemoveHandler, RemoveMsi, RemoveBars, RemoveDisable, RemoveRegions,
                  FreeInstance
    <3> QED
      BY <3>1
  <2> QED
    BY <1>9, <2>1, <2>2
<1>10. CASE Users \/ SetUseIrq
  BY <1>10 DEF Users, BeginTransfer, EndTransfer, SetUseIrq
<1> QED
  BY <1>1, <1>2, <1>3, <1>4, <1>5, <1>6, <1>7, <1>8, <1>9, <1>10 DEF Next, Setup, Unwind

LEMMA StutterIInv == IInv /\ UNCHANGED vars => IInv'
  BY DEF IInv, TypeOK, Resources, HandlerAsked, Accounts, BarsMapped, BarPresent, BusesKnown,
         vars, env, pci, i2c, msi, mem

LEMMA Invariance == Spec => []IInv
<1>1. IInv /\ [Next]_vars => IInv'
  BY TypeStep, ResourcesStep, HandlerStep, AccountsStep, BarsStep, BusesStep, StutterIInv
     DEF IInv
<1> QED
  BY InitIInv, <1>1, PTL DEF Spec

-----------------------------------------------------------------------------
(* The state of the driver keeps its types; with them, only buses that    *)
(* the i2c core knows have users.                                         *)
THEOREM TypeCorrect == Spec => []TypeOK
<1>1. IInv => TypeOK
  BY DEF IInv
<1> QED
  BY <1>1, Invariance, PTL

(* An adapter that can be opened has its registers and its controller, up *)
(* to the windows that i2c_pci_add_bus and a failed claim_msi leave.      *)
THEOREM DeviceSeen == Spec => []UsersSeeDevice
<1>1. IInv => UsersSeeDevice
  BY DEF IInv, UsersSeeDevice, RegistersMapped, BusesKnown, WithBuses, Failing, BarsMapped, MappedAt
<1> QED
  BY <1>1, Invariance, PTL

(* ocores_isr is installed only while its registers are mapped and the    *)
(* device is enabled, except for a handler that a removal left behind.    *)
THEOREM IsrSafe == Spec => []IsrSeesRegisters
<1>1. IInv => IsrSeesRegisters
  BY DEF IInv, IsrSeesRegisters, RegistersMapped, Resources, HandlerAt, EnabledAt, BarsMapped,
         MappedAt
<1> QED
  BY <1>1, Invariance, PTL

(* No removal leaves a handler behind unless use_irq was set at the probe *)
(* and is clear at the removal.                                           *)
THEOREM LeftByTheSwitch == Spec => OnlySwitchLeavesHandler
<1>1. IInv /\ [Next]_vars => [stray' /\ ~ stray => probeIrq /\ ~ useIrq]_vars
  BY HandlerStep
<1> QED
  BY <1>1, Invariance, PTL DEF Spec, OnlySwitchLeavesHandler

(* However probes fail and whenever removals come, an unbound device has  *)
(* given back everything but the instances of the probes that failed, the *)
(* BARs of those that failed half way through map_bars, and a handler     *)
(* whose free_irq was skipped.                                            *)
THEOREM OnlyLeaks == Spec => []UnboundHoldsOnlyLeaks
<1>1. IInv => UnboundHoldsOnlyLeaks
  <2> SUFFICES ASSUME IInv, pc = "unbound" PROVE UnboundHoldsOnlyLeaks
    BY DEF UnboundHoldsOnlyLeaks
  <2>1. ~ enabled /\ ~ regions /\ ~ vectors /\ (handler => stray)
    BY DEF IInv, Resources, EnabledAt, RegionsAt, MappedAt, VectorsAt, HandlerAt
  <2>2. bars = {} /\ adapters = {} /\ adapdata = {} /\ inUse = {}
    BY DEF IInv, TypeOK, BarsMapped, MappedAt, BusesKnown, WithBuses, Failing
  <2>3. instances = failed /\ (lost # {} => failed > 0)
    BY DEF IInv, Accounts
  <2> QED
    BY <2>1, <2>2, <2>3 DEF UnboundHoldsOnlyLeaks
<1> QED
  BY <1>1, Invariance, PTL
===============================================================================
