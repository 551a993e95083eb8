--------------------------- MODULE SmfDriver_proofs ---------------------------
(***************************************************************************)
(* Theorems about SmfDriver, for any set of threads that read attributes.  *)
(* None of the three invariants that the run checks is inductive: what a   *)
(* reader finds depends on the step the module has come to, so IInv says   *)
(* of every step which of driver, device, ports, data and attributes the   *)
(* module has there.                                                       *)
(***************************************************************************)
EXTENDS SmfDriver, TLAPS

DriverKnown == driver <=> pc \notin {"out", "driver"}

DevicePresent ==
    /\ device = "allocated" <=> pc \in {"data", "conflict", "resources", "add", "fail_device"}
    /\ device = "added" <=> pc \in {"probe", "zalloc", "groups", "in", "oops",
                                    "remove", "devres", "drain", "delete"}

PortsHeld ==
    /\ region = "ours" <=> pc \in {"zalloc", "groups", "oops", "remove"} \/ Bound
    /\ region = "lost" => pc \in {"probe", "in", "delete"}

AttrsOpen ==
    /\ attrs => pc \in {"in", "remove", "devres"}
    /\ pc \in {"remove", "devres"} => attrs

DataThere == data = IF attrs \/ pc \in {"groups", "drain"} THEN kind ELSE "none"

ReadersIn == reading # {} => attrs \/ pc = "drain"

IInv ==
    /\ TypeOK
    /\ DriverKnown /\ DevicePresent /\ PortsHeld /\ AttrsOpen /\ DataThere /\ ReadersIn

LEMMA InitIInv == Init => IInv
  BY DEF Init, IInv, TypeOK, PCs, Kinds, DriverKnown, DevicePresent, PortsHeld, Bound,
         AttrsOpen, DataThere, ReadersIn

(* Loading: sensors_smf_init up to the probe, and its error paths. *)
LEMMA LoadingIInv == IInv /\ (Load \/ Loading) => IInv'
<1> SUFFICES ASSUME IInv, Load \/ Loading PROVE IInv'
  OBVIOUS
<1> USE DEF IInv, TypeOK, PCs, Kinds, DriverKnown, DevicePresent, PortsHeld, Bound,
            AttrsOpen, DataThere, ReadersIn, GoTo, core, res
<1>1. CASE Load
  BY <1>1 DEF Load
<1>2. CASE RegisterDriver
  <2>1. pc = "driver" /\ driver' = (pc' = "alloc") /\ pc' \in {"alloc", "out"} /\ UNCHANGED <<leaving, kind, device, region, data, attrs, reading>>
    BY <1>2 DEF RegisterDriver
  <2> QED
    BY <2>1
<1>3. CASE AllocDevice
  BY <1>3 DEF AllocDevice, AfterNoDevice
<1>4. CASE Prepare
  BY <1>4 DEF Prepare
<1>5. CASE AddDevice
  BY <1>5 DEF AddDevice
<1>6. CASE PutDevice
  BY <1>6 DEF PutDevice
<1> QED
  BY <1>1, <1>2, <1>3, <1>4, <1>5, <1>6 DEF Loading

(* smf_probe, and a bind that calls it again. *)
LEMMA ProbingIInv == IInv /\ (Probing \/ Bind) => IInv'
<1> SUFFICES ASSUME IInv, Probing \/ Bind PROVE IInv'
  OBVIOUS
<1> USE DEF IInv, TypeOK, PCs, Kinds, DriverKnown, DevicePresent, PortsHeld, Bound,
            AttrsOpen, DataThere, ReadersIn, GoTo, core, res
<1>1. CASE RequestRegion
  BY <1>1 DEF RequestRegion, PortsFree
<1>2. CASE AllocData
  BY <1>2 DEF AllocData
<1>3. CASE RegisterGroups
  <2>1. /\ pc = "groups" /\ pc' = "in" /\ region = "ours" /\ ~ attrs
        /\ UNCHANGED <<leaving, kind, driver, device, reading>>
    BY <1>3 DEF RegisterGroups
  <2>2. CASE attrs' = TRUE /\ UNCHANGED <<region, data>>
    BY <2>1, <2>2
  <2>3. CASE region' = "lost" /\ data' = "none" /\ UNCHANGED attrs
    BY <2>1, <2>3
  <2> QED
    BY <1>3, <2>2, <2>3 DEF RegisterGroups
<1>4. CASE Bind
  BY <1>4 DEF Bind
<1> QED
  BY <1>1, <1>2, <1>3, <1>4 DEF Probing

(* Unbind and unload: smf_remove and what the core undoes after it. *)
LEMMA UnloadingIInv == IInv /\ (Unbind \/ Unload \/ Unloading) => IInv'
<1> SUFFICES ASSUME IInv, Unbind \/ Unload \/ Unloading PROVE IInv'
  OBVIOUS
<1> USE DEF IInv, TypeOK, PCs, Kinds, DriverKnown, DevicePresent, PortsHeld, Bound,
            AttrsOpen, DataThere, ReadersIn, GoTo, core, res
<1>1. CASE Unbind
  BY <1>1 DEF Unbind
<1>2. CASE Unload
  BY <1>2 DEF Unload
<1>3. CASE ReleaseRegion
  BY <1>3 DEF ReleaseRegion, AfterRelease
<1>4. CASE CloseAttrs
  BY <1>4 DEF CloseAttrs
<1>5. CASE FreeData
  BY <1>5 DEF FreeData, Drained
<1>6. CASE DeleteDevice
  BY <1>6 DEF DeleteDevice
<1>7. CASE UnregisterDriver
  BY <1>7 DEF UnregisterDriver
<1> QED
  BY <1>1, <1>2, <1>3, <1>4, <1>5, <1>6, <1>7 DEF Unloading

(* A thread comes in only through open attributes. *)
LEMMA ReadingIInv ==
    ASSUME IInv, NEW r \in Readers, Enter(r) \/ Leave(r)
    PROVE  IInv'
<1> USE DEF IInv, TypeOK, PCs, Kinds, DriverKnown, DevicePresent, PortsHeld, Bound,
            AttrsOpen, DataThere, ReadersIn, core, res
<1>1. CASE Enter(r)
  BY <1>1 DEF Enter, MayOpen
<1>2. CASE Leave(r)
  BY <1>2 DEF Leave
<1> QED
  BY <1>1, <1>2

LEMMA StutterIInv == IInv /\ UNCHANGED vars => IInv'
  BY DEF IInv, TypeOK, PCs, Kinds, DriverKnown, DevicePresent, PortsHeld, Bound,
         AttrsOpen, DataThere, ReadersIn, vars, core, res

LEMMA StepIInv == IInv /\ [Next]_vars => IInv'
  BY LoadingIInv, ProbingIInv, UnloadingIInv, ReadingIInv, StutterIInv DEF Next

LEMMA Invariance == Spec => []IInv
  BY InitIInv, StepIInv, PTL DEF Spec

(* Every step of the module, its failures included, keeps the resources   *)
(* in the states that sensors_smf_init, smf_probe and smf_remove know.    *)
THEOREM TypeCorrect == Spec => []TypeOK
<1>1. IInv => TypeOK
  BY DEF IInv
<1> QED
  BY <1>1, Invariance, PTL

(* A show function finds the data of the chip that smf_find found, and    *)
(* has the ports but for the window that smf_remove opens, however many   *)
(* threads read and whenever the driver is unbound.                       *)
THEOREM Served == Spec => []ReadersAreServed
<1>1. IInv => ReadersAreServed
  BY DEF IInv, ReadersAreServed, ReadersIn, AttrsOpen, DataThere, PortsHeld, Bound
<1> QED
  BY <1>1, Invariance, PTL

(* A module that is out, after a failure of any step of sensors_smf_init  *)
(* or after sensors_smf_exit, has left nothing behind.                    *)
THEOREM LeavesNothing == Spec => []NothingLeftBehind
<1>1. IInv => NothingLeftBehind
  BY DEF IInv, NothingLeftBehind, TypeOK, DriverKnown, DevicePresent, PortsHeld, Bound,
         AttrsOpen, DataThere, ReadersIn
<1> QED
  BY <1>1, Invariance, PTL
===============================================================================
