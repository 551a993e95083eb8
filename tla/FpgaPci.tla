------------------------------- MODULE FpgaPci -------------------------------
(***************************************************************************)
(* Life of the FPGA's PCI driver on one device: fpgapci_probe with         *)
(* claim_device, map_bars, i2c_pci_init and claim_msi, fpgapci_remove, and *)
(* the users of the i2c adapters, who may start a transfer as soon as the  *)
(* i2c core knows an adapter.  Every call into the kernel that can fail    *)
(* may fail; each is a step of its own, so that users and the use_irq      *)
(* parameter, which is writable at run time, come in between.              *)
(*                                                                         *)
(* What the code forgets stays where it is: the BARs of a map_bars that    *)
(* failed half way, the instance of every probe that failed, and a handler *)
(* whose free_irq was skipped.                                             *)
(***************************************************************************)
EXTENDS Naturals, FiniteSets

CONSTANTS
    NumBars,    \* PCI_NUM_BARS
    NumBuses,   \* I2C_PCI_MAX_BUS
    MaxFailed   \* bound on probes that fail

ASSUME SizesAssumption ==
    /\ NumBars \in Nat \ {0} /\ NumBuses \in Nat \ {0}
    /\ MaxFailed \in Nat

Bars  == 0 .. NumBars - 1
Buses == 0 .. NumBuses - 1

VARIABLES
    layout,     \* the device's BARs: "absent", too "short", or "full"
    useIrq,     \* module parameter use_irq
    probeIrq,   \* its value when claim_msi was decided on
    pc,         \* the next step of probe or remove; "unbound" or "bound"
    i,          \* loop variable
    enabled,    \* pci_enable_device
    regions,    \* pci_request_regions
    bars,       \* BARs mapped by this instance
    lost,       \* BARs of instances that failed and were forgotten
    instances,  \* structs fpgapci_dev in memory
    failed,     \* history: probes that failed after kzalloc
    stray,      \* history: a removed instance left ocores_isr installed
    adapters,   \* buses the i2c core knows
    adapdata,   \* buses whose adapter data is set
    vectors,    \* MSI vectors allocated
    handler,    \* ocores_isr is installed, by this instance or a removed one
    inUse       \* buses on which a transfer is in progress

env  == <<layout, useIrq>>
pci  == <<enabled, regions, bars, lost>>
i2c  == <<adapters, adapdata>>
msi  == <<vectors, handler, stray, probeIrq>>
mem  == <<instances, failed>>
vars == <<env, pc, i, pci, i2c, msi, mem, inUse>>

(* Where the driver may stand; "fail" steps unwind a probe. *)
PCs == {"unbound", "bound", "enable", "regions", "map", "add", "data", "irq", "msi",
        "vectors", "handler", "fail_handler", "fail_bars", "fail_regions", "fail_disable",
        "fail_adapters", "rm_adapters", "rm_handler", "rm_msi", "rm_bars", "rm_disable",
        "rm_regions", "rm_free"}

TypeOK ==
    /\ layout \in [Bars -> {"absent", "short", "full"}]
    /\ useIrq \in BOOLEAN /\ probeIrq \in BOOLEAN
    /\ pc \in PCs /\ i \in 0 .. NumBars + NumBuses
    /\ enabled \in BOOLEAN /\ regions \in BOOLEAN
    /\ bars \subseteq Bars /\ lost \subseteq Bars
    /\ adapters \subseteq Buses /\ adapdata \subseteq Buses
    /\ vectors \in BOOLEAN /\ handler \in BOOLEAN /\ stray \in BOOLEAN
    /\ instances \in Nat /\ failed \in 0 .. MaxFailed
    /\ inUse \subseteq adapters

(* Any BAR may be absent, BAR 0 with the registers of the i2c masters too. *)
Init ==
    /\ layout \in [Bars -> {"absent", "short", "full"}]
    /\ useIrq \in BOOLEAN /\ probeIrq = FALSE
    /\ pc = "unbound" /\ i = 0
    /\ enabled = FALSE /\ regions = FALSE /\ bars = {} /\ lost = {}
    /\ adapters = {} /\ adapdata = {}
    /\ vectors = FALSE /\ handler = FALSE /\ stray = FALSE
    /\ instances = 0 /\ failed = 0
    /\ inUse = {}

-----------------------------------------------------------------------------
(* Decisions of the code, each with a slip next to it (used by no         *)
(* specification; they show that the properties would notice).            *)

MoreBuses == i < NumBuses

Slip_DataForgotten == "add"
AfterAdd           == "data"

Slip_RegionsKept == regions
AfterMapFailure  == FALSE

Slip_BarsBeforeAdapters == "rm_bars"
RemovalStartsWith       == "rm_adapters"

Slip_HandlerForgotten == "rm_bars"
AfterAdapters         == "rm_handler"

(* Whether free_irq is called rests on the value use_irq has now. *)
Slip_NeverFreed == FALSE
FreesHandler    == useIrq

Slip_SameBusAgain == i
NextBus           == i + 1

-----------------------------------------------------------------------------
(* Steps of fpgapci_probe *)

(* From one step to the next, or to where its failure is handled. *)
GoTo(from, to) == pc = from /\ pc' = to

(* kzalloc; a probe that gets no memory has done nothing. *)
Probe ==
    /\ GoTo("unbound", "enable")
    /\ failed < MaxFailed
    /\ instances' = instances + 1
    /\ bars' = {}
    /\ UNCHANGED <<env, i, enabled, regions, lost, i2c, msi, failed, inUse>>

EnableDevice ==
    /\ \/ GoTo("enable", "regions") /\ enabled' = TRUE /\ UNCHANGED i
       \/ GoTo("enable", "fail_adapters") /\ i' = 0 /\ UNCHANGED enabled
    /\ UNCHANGED <<env, regions, bars, lost, i2c, msi, mem, inUse>>

RequestRegions ==
    /\ i' = 0
    /\ \/ GoTo("regions", "map") /\ regions' = TRUE /\ UNCHANGED enabled
       \/ GoTo("regions", "fail_adapters") /\ enabled' = FALSE /\ UNCHANGED regions
    /\ UNCHANGED <<env, bars, lost, i2c, msi, mem, inUse>>

BarPresent(k) == layout[k] # "absent"

(* map_bars, one BAR: an absent one is skipped, the others are mapped. *)
MapBar ==
    /\ pc = "map" /\ i < NumBars
    /\ i' = i + 1
    /\ bars' = IF BarPresent(i) THEN bars \cup {i} ELSE bars
    /\ UNCHANGED <<env, pc, enabled, regions, lost, i2c, msi, mem, inUse>>

(* ioremap fails: fail_map_bars gives back the regions and the device, the *)
(* BARs mapped so far are forgotten with the instance.                     *)
MapFails ==
    /\ GoTo("map", "fail_adapters")
    /\ i < NumBars /\ BarPresent(i)
    /\ i' = 0
    /\ regions' = AfterMapFailure /\ enabled' = FALSE
    /\ lost' = lost \cup bars /\ bars' = {}
    /\ UNCHANGED <<env, i2c, msi, mem, inUse>>

(* i2c_pci_init starts: adapters and controllers are reset. *)
InitControllers ==
    /\ GoTo("map", "add")
    /\ i = NumBars /\ i' = 0
    /\ adapters' = {} /\ adapdata' = {}
    /\ UNCHANGED <<env, pci, msi, mem, inUse>>

(* i2c_pci_add_bus: from here on users can open the adapter. *)
AddAdapter ==
    /\ GoTo("add", AfterAdd)
    /\ MoreBuses
    /\ adapters' = adapters \cup {i}
    /\ UNCHANGED <<env, i, pci, adapdata, msi, mem, inUse>>

SetAdapdata ==
    /\ GoTo("data", "add")
    /\ adapdata' = adapdata \cup {i}
    /\ i' = i + 1
    /\ UNCHANGED <<env, pci, adapters, msi, mem, inUse>>

(* i2c_pci_init is over, with all adapters or after one that was refused; *)
(* claim_device does not look at what it returns.                         *)
InitDone ==
    /\ GoTo("add", "irq")
    /\ UNCHANGED <<env, i, pci, i2c, msi, mem, inUse>>

DecideIrq ==
    /\ IF useIrq THEN GoTo("irq", "msi") ELSE GoTo("irq", "bound")
    /\ probeIrq' = useIrq
    /\ UNCHANGED <<env, i, pci, i2c, stray, vectors, handler, mem, inUse>>

(* claim_msi: the device has the MSI capability, or not. *)
CheckMsi ==
    /\ GoTo("msi", "vectors") \/ GoTo("msi", "fail_bars")
    /\ UNCHANGED <<env, i, pci, i2c, msi, mem, inUse>>

AllocVectors ==
    /\ \/ GoTo("vectors", "handler") /\ vectors' = TRUE
       \/ GoTo("vectors", "fail_bars") /\ UNCHANGED vectors
    /\ UNCHANGED <<env, i, pci, i2c, stray, handler, probeIrq, mem, inUse>>

(* register_intr_handler: only vector 0 gets a handler. *)
RequestIrq ==
    /\ \/ GoTo("handler", "bound") /\ handler' = TRUE
       \/ GoTo("handler", "fail_handler") /\ UNCHANGED handler
    /\ UNCHANGED <<env, i, pci, i2c, stray, vectors, probeIrq, mem, inUse>>

(* error_pci_req_irq: free_irq, although nothing was requested and there  *)
(* is nothing of this instance to free.                                   *)
FailHandler ==
    /\ GoTo("fail_handler", "fail_bars")
    /\ vectors' = FALSE
    /\ UNCHANGED <<env, i, pci, i2c, stray, handler, probeIrq, mem, inUse>>

(* error_cannot_configure: the BARs go before the adapters do. *)
FailBars ==
    /\ GoTo("fail_bars", "fail_regions")
    /\ bars' = {}
    /\ UNCHANGED <<env, i, enabled, regions, lost, i2c, msi, mem, inUse>>

FailRegions ==
    /\ GoTo("fail_regions", "fail_disable")
    /\ regions' = FALSE
    /\ UNCHANGED <<env, i, enabled, bars, lost, i2c, msi, mem, inUse>>

FailDisable ==
    /\ GoTo("fail_disable", "fail_adapters")
    /\ enabled' = FALSE /\ i' = 0
    /\ UNCHANGED <<env, regions, bars, lost, i2c, msi, mem, inUse>>

-----------------------------------------------------------------------------
(* i2c_pci_deinit, at the end of a failed probe and at the start of a     *)
(* removal.  i2c_del_adapter waits for the users of the adapter.          *)

DeleteAdapter ==
    /\ pc \in {"fail_adapters", "rm_adapters"} /\ i < NumBuses
    /\ i \notin inUse
    /\ adapters' = adapters \ {i} /\ adapdata' = adapdata \ {i}
    /\ i' = NextBus
    /\ UNCHANGED <<env, pc, pci, msi, mem, inUse>>

(* A probe that failed returns: nobody frees its instance. *)
AdaptersDeleted ==
    /\ i = NumBuses
    /\ \/ GoTo("fail_adapters", "unbound") /\ failed' = failed + 1
       \/ GoTo("rm_adapters", AfterAdapters) /\ UNCHANGED failed
    /\ UNCHANGED <<env, i, pci, i2c, msi, instances, inUse>>

-----------------------------------------------------------------------------
(* Steps of fpgapci_remove *)

Remove ==
    /\ GoTo("bound", RemovalStartsWith)
    /\ i' = 0
    /\ UNCHANGED <<env, pci, i2c, msi, mem, inUse>>

(* use_irq may not have the value it had when the handler was installed.   *)
(* free_irq takes away the handler of this instance, if it has one; one   *)
(* that an earlier removal left (stray) has another interrupt and stays.  *)
RemoveHandler ==
    /\ GoTo("rm_handler", "rm_msi")
    /\ handler' = IF FreesHandler THEN stray ELSE handler
    /\ stray' = handler'
    /\ UNCHANGED <<env, i, pci, i2c, vectors, probeIrq, mem, inUse>>

RemoveMsi ==
    /\ GoTo("rm_msi", "rm_bars")
    /\ vectors' = FALSE
    /\ UNCHANGED <<env, i, pci, i2c, stray, handler, probeIrq, mem, inUse>>

RemoveBars ==
    /\ GoTo("rm_bars", "rm_disable")
    /\ bars' = {}
    /\ UNCHANGED <<env, i, enabled, regions, lost, i2c, msi, mem, inUse>>

RemoveDisable ==
    /\ GoTo("rm_disable", "rm_regions")
    /\ enabled' = FALSE
    /\ UNCHANGED <<env, i, regions, bars, lost, i2c, msi, mem, inUse>>

RemoveRegions ==
    /\ GoTo("rm_regions", "rm_free")
    /\ regions' = FALSE
    /\ UNCHANGED <<env, i, enabled, bars, lost, i2c, msi, mem, inUse>>

FreeInstance ==
    /\ GoTo("rm_free", "unbound")
    /\ instances' = instances - 1
    /\ UNCHANGED <<env, i, pci, i2c, msi, failed, inUse>>

-----------------------------------------------------------------------------
(* The others *)

(* The i2c core admits no new user of an adapter that is being deleted. *)
Deleting(b) == pc \in {"fail_adapters", "rm_adapters"} /\ i = b

BeginTransfer(b) ==
    /\ b \in adapters \ inUse
    /\ ~ Deleting(b)
    /\ inUse' = inUse \cup {b}
    /\ UNCHANGED <<env, pc, i, pci, i2c, msi, mem>>

EndTransfer(b) ==
    /\ b \in inUse
    /\ inUse' = inUse \ {b}
    /\ UNCHANGED <<env, pc, i, pci, i2c, msi, mem>>

SetUseIrq ==
    /\ useIrq' = ~ useIrq
    /\ UNCHANGED <<layout, pc, i, pci, i2c, msi, mem, inUse>>

Unwind == FailHandler \/ FailBars \/ FailRegions \/ FailDisable
             \/ DeleteAdapter \/ AdaptersDeleted
Removal == RemoveHandler \/ RemoveMsi \/ RemoveBars \/ RemoveDisable \/ RemoveRegions
              \/ FreeInstance
Setup == EnableDevice \/ RequestRegions \/ MapBar \/ MapFails \/ InitControllers
            \/ AddAdapter \/ SetAdapdata \/ InitDone \/ DecideIrq \/ CheckMsi
            \/ AllocVectors \/ RequestIrq
Users == \E b \in Buses : BeginTransfer(b) \/ EndTransfer(b)

Next == Probe \/ Setup \/ Unwind \/ Remove \/ Removal \/ Users \/ SetUseIrq

Spec == Init /\ [][Next]_vars

(* The kernel carries probe and remove through; transfers end (the polled *)
(* ones do: OcoresI2C, EveryCallReturns).                                 *)
FairSpec ==
    /\ Spec
    /\ WF_vars(Unwind) /\ WF_vars(Removal)
    /\ \A b \in Buses : WF_vars(EndTransfer(b))

-----------------------------------------------------------------------------
(* The registers are mapped, on a device that has them: map_bars skips an *)
(* absent BAR 0, and the adapters are added all the same.                 *)
RegistersMapped == BarPresent(0) => 0 \in bars

(* An adapter that users can open has its registers mapped and its        *)
(* controller as adapter data.  Two exceptions: a probe whose MSI set-up  *)
(* failed unmaps the BARs before it deletes the adapters, and the         *)
(* controller comes a moment after i2c_add_numbered_adapter.              *)
UsersSeeDevice ==
    /\ adapters # {} =>
          RegistersMapped \/ pc \in {"fail_regions", "fail_disable", "fail_adapters"}
    /\ \A b \in adapters \ adapdata : pc = "data" /\ i = b

(* Whenever ocores_isr is installed, its registers are mapped and the     *)
(* device is enabled, until a removal leaves it behind (stray).           *)
IsrSeesRegisters == handler => (RegistersMapped /\ enabled) \/ stray

(* A removal leaves the handler behind in one case only: use_irq was set  *)
(* when the device was probed and is clear when it is removed.            *)
OnlySwitchLeavesHandler ==
    [][stray' /\ ~ stray => probeIrq /\ ~ useIrq]_vars

(* What a device that is not bound still holds is what the code forgets,  *)
(* and no more: one instance for each probe that failed, BARs only if one *)
(* did, and a handler only if a removal skipped free_irq.  All else is    *)
(* given back by every failure of the probe and every removal.            *)
UnboundHoldsOnlyLeaks ==
    pc = "unbound" =>
        /\ ~ enabled /\ ~ regions /\ bars = {} /\ ~ vectors
        /\ adapters = {} /\ adapdata = {} /\ inUse = {}
        /\ instances = failed
        /\ lost # {} => failed > 0
        /\ handler => stray

(* A removal comes to its end although it waits for users. *)
RemovalFinishes == pc = "rm_adapters" ~> pc = "unbound"

(* What the comment of map_bars says: a region that is mapped respects    *)
(* the minimum size.  The code compares no size.                          *)
MappedBarsAreLongEnough == \A k \in bars : layout[k] = "full"
=============================================================================
