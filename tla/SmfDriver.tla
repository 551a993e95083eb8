------------------------------ MODULE SmfDriver ------------------------------
(***************************************************************************)
(* Life of the SMF driver dell_pmc: sensors_smf_init with smf_find, the    *)
(* platform device it creates for itself, smf_probe and smf_remove, which  *)
(* the driver core also calls for the bind and unbind files of the driver, *)
(* sensors_smf_exit, and the threads that read sensor attributes.  Every   *)
(* call into the kernel that can fail may fail.                            *)
(***************************************************************************)
EXTENDS Naturals, FiniteSets

CONSTANT
    Readers     \* threads that read attributes

(* Chips that smf_devices describes. *)
Kinds == {"z9100smf", "s6100smf"}

VARIABLES
    pc,         \* the next step of the module
    leaving,    \* it runs sensors_smf_exit
    kind,       \* sio_data: what smf_find found
    driver,     \* smf_driver is registered
    device,     \* pdev: "none", "allocated", or "added"
    region,     \* the ports: "free", "ours", or "lost": taken and forgotten
    data,       \* struct smf_data: the kind it is made for, or "none"
    attrs,      \* the attributes can be opened
    reading     \* threads inside a show function

core == <<kind, driver, device>>
res  == <<region, data, attrs>>
vars == <<pc, leaving, core, res, reading>>

PCs == {"out", "driver", "alloc", "data", "conflict", "resources", "add",
        "probe", "zalloc", "groups", "in", "oops",
        "fail_device", "fail_driver",
        "remove", "devres", "drain", "delete", "unregister"}

(* Types of the module's resources. *)
TypeOK ==
    /\ pc \in PCs /\ leaving \in BOOLEAN /\ kind \in Kinds
    /\ driver \in BOOLEAN /\ device \in {"none", "allocated", "added"}
    /\ region \in {"free", "ours", "lost"} /\ data \in Kinds \cup {"none"}
    /\ attrs \in BOOLEAN /\ reading \subseteq Readers

Init ==
    /\ pc = "out" /\ leaving = FALSE /\ kind \in Kinds
    /\ driver = FALSE /\ device = "none"
    /\ region = "free" /\ data = "none" /\ attrs = FALSE
    /\ reading = {}

Bound == pc = "in" /\ attrs

-----------------------------------------------------------------------------
(* Decisions of the code, each with a slip next to it (used by no          *)
(* specification; they show that the properties would notice).             *)

Slip_DriverStays == "out"
AfterNoDevice    == "fail_driver"

PortsFree == region = "free"

Slip_AttrsOutlive == "delete"
AfterRelease      == "devres"

(* The core waits for the threads inside show functions. *)
Slip_NotWaiting == TRUE
Drained         == reading = {}

Slip_NewcomersToo == TRUE
MayOpen           == attrs

-----------------------------------------------------------------------------
GoTo(from, to) == pc = from /\ pc' = to

(* smf_find: the chip that answers, or the one force_id names.  Without a *)
(* known one nothing happens.                                             *)
Load ==
    /\ GoTo("out", "driver")
    /\ kind' \in Kinds
    /\ UNCHANGED <<leaving, driver, device, res, reading>>

RegisterDriver ==
    /\ \/ GoTo("driver", "alloc") /\ driver' = TRUE
       \/ GoTo("driver", "out") /\ UNCHANGED driver
    /\ UNCHANGED <<leaving, kind, device, res, reading>>

AllocDevice ==
    /\ \/ GoTo("alloc", "data") /\ device' = "allocated"
       \/ GoTo("alloc", AfterNoDevice) /\ UNCHANGED device
    /\ UNCHANGED <<leaving, kind, driver, res, reading>>

(* platform_device_add_data, acpi_check_resource_conflict and             *)
(* platform_device_add_resources.                                         *)
Prepare ==
    /\ \/ GoTo("data", "conflict") \/ GoTo("conflict", "resources")
       \/ GoTo("resources", "add")
       \/ pc \in {"data", "conflict", "resources"} /\ pc' = "fail_device"
    /\ UNCHANGED <<leaving, core, res, reading>>

(* The device is known to the core, which probes it. *)
AddDevice ==
    /\ \/ GoTo("add", "probe") /\ device' = "added"
       \/ GoTo("add", "fail_device") /\ UNCHANGED device
    /\ UNCHANGED <<leaving, kind, driver, res, reading>>

PutDevice ==
    /\ GoTo("fail_device", "fail_driver")
    /\ device' = "none"
    /\ UNCHANGED <<leaving, kind, driver, res, reading>>

-----------------------------------------------------------------------------
(* smf_probe.  The core ignores its failure: the module stays. *)

(* request_region fails when the ports are taken, and may fail otherwise. *)
RequestRegion ==
    /\ \/ GoTo("probe", "zalloc") /\ PortsFree /\ region' = "ours"
       \/ GoTo("probe", "in") /\ UNCHANGED region
    /\ UNCHANGED <<leaving, core, data, attrs, reading>>

(* The address and the kind are stored before the test for NULL. *)
AllocData ==
    /\ \/ GoTo("zalloc", "groups") /\ data' = kind
       \/ GoTo("zalloc", "oops") /\ UNCHANGED data
    /\ UNCHANGED <<leaving, core, region, attrs, reading>>

(* On failure the memory is given back by the core, the region by nobody. *)
RegisterGroups ==
    /\ pc = "groups" /\ pc' = "in"
    /\ \/ attrs' = TRUE /\ UNCHANGED <<region, data>>
       \/ region' = "lost" /\ data' = "none" /\ UNCHANGED attrs
    /\ UNCHANGED <<leaving, core, reading>>

(* echo SMF.512 > bind *)
Bind ==
    /\ GoTo("in", "probe") /\ ~ Bound
    /\ UNCHANGED <<leaving, core, res, reading>>

-----------------------------------------------------------------------------
(* echo SMF.512 > unbind, or the unload of the module. *)

Unbind ==
    /\ GoTo("in", "remove") /\ Bound
    /\ UNCHANGED <<leaving, core, res, reading>>

Unload ==
    /\ pc = "in" /\ pc' = IF Bound THEN "remove" ELSE "delete"
    /\ leaving' = TRUE
    /\ UNCHANGED <<core, res, reading>>

(* smf_remove *)
ReleaseRegion ==
    /\ GoTo("remove", AfterRelease)
    /\ region' = "free"
    /\ UNCHANGED <<leaving, core, data, attrs, reading>>

(* After it the core undoes what was device-managed, the attributes       *)
(* first: nobody gets in any more, and those who are in are waited for.   *)
CloseAttrs ==
    /\ GoTo("devres", "drain")
    /\ attrs' = FALSE
    /\ UNCHANGED <<leaving, core, region, data, reading>>

FreeData ==
    /\ GoTo("drain", IF leaving THEN "delete" ELSE "in")
    /\ Drained
    /\ data' = "none"
    /\ UNCHANGED <<leaving, core, region, attrs, reading>>

(* platform_device_unregister takes the device's ports out of the         *)
(* resource tree, and a forgotten region below them.                      *)
DeleteDevice ==
    /\ GoTo("delete", "unregister")
    /\ device' = "none"
    /\ region' = IF region = "lost" THEN "free" ELSE region
    /\ UNCHANGED <<leaving, kind, driver, data, attrs, reading>>

(* The kobject_put that follows in sensors_smf_exit gets a dell_kobj that  *)
(* no line assigns: it does nothing.                                      *)
UnregisterDriver ==
    /\ GoTo("unregister", "out") \/ GoTo("fail_driver", "out")
    /\ driver' = FALSE /\ leaving' = FALSE
    /\ UNCHANGED <<kind, device, res, reading>>

-----------------------------------------------------------------------------
(* A thread in a show function uses data and the ports. *)
Enter(r) ==
    /\ MayOpen /\ r \notin reading
    /\ reading' = reading \cup {r}
    /\ UNCHANGED <<pc, leaving, core, res>>

Leave(r) ==
    /\ reading' = reading \ {r} /\ r \in reading
    /\ UNCHANGED <<pc, leaving, core, res>>

Loading   == RegisterDriver \/ AllocDevice \/ Prepare \/ AddDevice \/ PutDevice
Probing   == RequestRegion \/ AllocData \/ RegisterGroups
Unloading == ReleaseRegion \/ CloseAttrs \/ FreeData \/ DeleteDevice \/ UnregisterDriver

Next ==
    \/ Load \/ Loading \/ Probing \/ Bind \/ Unbind \/ Unload \/ Unloading
    \/ \E r \in Readers : Enter(r) \/ Leave(r)

Spec == Init /\ [][Next]_vars

(* insmod, rmmod and the writes to bind and unbind run to their end, and  *)
(* so does every show function.                                           *)
FairSpec ==
    /\ Spec
    /\ WF_vars(Loading \/ Probing \/ Unloading)
    /\ \A r \in Readers : WF_vars(Leave(r))

-----------------------------------------------------------------------------
(* Threads that read attributes find the data of the chip that was found, *)
(* and the ports belong to the driver, but for one window: smf_remove     *)
(* gives the ports away while the attributes can still be opened.         *)
ReadersAreServed ==
    reading # {} =>
        /\ data = kind
        /\ region = "ours" \/ pc \in {"devres", "drain"}

(* However loading ends, by a failure at any step or by an unload after   *)
(* any sequence of binds and unbinds, nothing is left behind: the ports   *)
(* that a failed probe keeps go with the device.                          *)
NothingLeftBehind ==
    pc = "out" =>
        /\ ~ driver /\ device = "none"
        /\ region = "free" /\ data = "none" /\ ~ attrs /\ reading = {}

(* An unload ends, although threads keep opening attributes. *)
UnloadEnds == leaving ~> pc = "out"
=============================================================================
