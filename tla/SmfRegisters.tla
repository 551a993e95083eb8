----------------------------- MODULE SmfRegisters -----------------------------
(***************************************************************************)
(* What a reading promises to a sysfs attribute: every byte it returns is  *)
(* one its own register held during the call, the second byte not older    *)
(* than the first.  It does not promise that both bytes belong together:   *)
(* the SMF may measure anew between them.                                  *)
(***************************************************************************)
EXTENDS SmfReadings

VARIABLES
    mem,        \* the registers
    call,       \* the current or latest reading of each thread
    got,        \* the bytes it has so far
    reading     \* threads in the middle of a reading

vars == <<mem, call, got, reading>>

Init ==
    /\ mem \in Memory
    /\ call \in [Readers -> Readings]
    /\ got = [r \in Readers |-> <<>>]
    /\ reading = {}

Measure ==
    /\ mem' \in Memory
    /\ UNCHANGED <<call, got, reading>>

Begin(r) ==
    /\ r \notin reading
    /\ reading' = reading \cup {r}
    /\ \E q \in Readings : call' = [call EXCEPT ![r] = q]
    /\ got' = [got EXCEPT ![r] = <<>>]
    /\ UNCHANGED mem

Take(r) ==
    /\ r \in reading
    /\ Len(got[r]) < call[r].size
    /\ got' = [got EXCEPT ![r] = Append(@, mem[Address(call[r], Len(@) + 1)])]
    /\ UNCHANGED <<mem, call, reading>>

Return(r) ==
    /\ r \in reading
    /\ Len(got[r]) = call[r].size
    /\ reading' = reading \ {r}
    /\ UNCHANGED <<mem, call, got>>

Next == Measure \/ \E r \in Readers : Begin(r) \/ Take(r) \/ Return(r)

Spec == Init /\ [][Next]_vars
=============================================================================
