----------------------------- MODULE I2CTransfer -----------------------------
(***************************************************************************)
(* What an adapter promises to the callers of master_xfer: the commands of *)
(* a transfer appear on the wires in the order of the messages, nothing is *)
(* left out or repeated, a transfer opens only on wires that were released *)
(* with STOP, and success is reported only after the whole sequence and    *)
(* its STOP.  How commands are paced is not part of the promise.           *)
(***************************************************************************)
EXTENDS I2CMessages

VARIABLES
    xfer,     \* the message array of the current or latest call
    phase,    \* where the current call stands
    wire,     \* the latest command given to the wires
    result    \* what the latest call returned

vars == <<xfer, phase, wire, result>>

Phases  == {"idle", "called", "open", "done", "failed"}
Results == {"none", "ok", "EAGAIN", "ENXIO", "ETIMEDOUT"}

Init ==
    /\ xfer \in Transfers
    /\ phase = "idle"
    /\ wire = Stop
    /\ result = "none"

Call ==
    /\ phase = "idle"
    /\ phase' = "called"
    /\ xfer' \in Transfers
    /\ result' = "none"
    /\ UNCHANGED wire

(* The first START: only after a STOP. *)
Open ==
    /\ phase = "called" /\ wire = Stop
    /\ phase' = "open"
    /\ wire' = Start(1)
    /\ UNCHANGED <<xfer, result>>

Continue ==
    /\ phase = "open"
    /\ Follows(xfer, wire, wire')
    /\ UNCHANGED <<xfer, phase, result>>

Finish ==
    /\ phase = "open" /\ Completes(xfer, wire)
    /\ phase' = "done"
    /\ wire' = Stop
    /\ UNCHANGED <<xfer, result>>

(* An error the controller saw: STOP at once. *)
Abort ==
    /\ phase \in {"called", "open"}
    /\ phase' = "failed"
    /\ wire' = Stop
    /\ UNCHANGED <<xfer, result>>

Return ==
    /\ \/ phase = "done" /\ result' = "ok"
       \/ phase = "failed" /\ result' \in {"EAGAIN", "ENXIO"}
    /\ phase' = "idle"
    /\ UNCHANGED <<xfer, wire>>

(* A call that runs out of time leaves the wires as they are. *)
GiveUp ==
    /\ phase \in {"called", "open"}
    /\ phase' = "idle"
    /\ result' = "ETIMEDOUT"
    /\ UNCHANGED <<xfer, wire>>

Next == Call \/ Open \/ Continue \/ Finish \/ Abort \/ Return \/ GiveUp

Spec == Init /\ [][Next]_vars
=============================================================================
