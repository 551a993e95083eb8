------------------------- MODULE CpldAttributes_proofs -------------------------
(***************************************************************************)
(* Theorems about CpldAttributes, for any users, attributes and bytes: a   *)
(* get or set that nothing came in the way of is exact.  The lock is       *)
(* given back between the two registers, so the invariant says what        *)
(* survives the gap: the bytes that were moved so far are those of the     *)
(* registers, unless another user of the same attribute has disturbed the  *)
(* call.                                                                   *)
(***************************************************************************)
EXTENDS CpldAttributes, TLAPS

Inside == {"point", "read", "write", "unlock"}

LockHeld == \A u \in Users : pc[u] \in Inside <=> lock = u

ProgressOf(u) ==
    /\ pc[u] = "idle" <=> op[u] = NoCall
    /\ pc[u] \in {"point", "read"} => op[u][1] = "get"
    /\ pc[u] = "write" => op[u][1] = "set"
    /\ pc[u] = "idle" => half[u] = 0
    /\ pc[u] \in {"lock", "point", "read", "write"} => ~ Done(u)
    /\ half[u] <= Halves(u)
    /\ result[u] # "ok" => pc[u] = "unlock"

Pointed(u) == pc[u] = "read" /\ ~ disturbed[u] => pointer = Register(u)

MovedBy(u) ==
    pc[u] # "idle" /\ ~ disturbed[u] =>
        /\ half[u] >= 1 => value[u][1] = regs[<<op[u][2], 0>>]
        /\ half[u] = 2 => value[u][2] = regs[<<op[u][2], 1>>]
        /\ half[u] = 1 /\ op[u][1] = "get" => value[u][2] = 0

Progress == \A u \in Users : ProgressOf(u)
Points   == \A u \in Users : Pointed(u)
Moved    == \A u \in Users : MovedBy(u)

Apart ==
    \A u, w \in Users :
        u # w /\ op[u][1] = "set" /\ op[w] # NoCall /\ op[w][2] = op[u][2] =>
            disturbed[w]

IInv == TypeOK /\ LockHeld /\ Progress /\ Points /\ Moved /\ Apart

-----------------------------------------------------------------------------
LEMMA CallType ==
    ASSUME TypeOK, NEW u \in Users, op[u] # NoCall
    PROVE  /\ op[u][1] \in {"get", "set"} /\ op[u][2] \in Attributes
           /\ op[u][1] = "set" => op[u][2] \in Settable /\ op[u][2] \notin OneByte
           /\ op[u] = <<op[u][1], op[u][2]>>
<1>1. op[u] \in ({"get"} \X Attributes) \cup ({"set"} \X Settable)
  BY DEF TypeOK, Calls
<1>2. CASE op[u] \in {"get"} \X Attributes
  BY <1>2
<1>3. CASE op[u] \in {"set"} \X Settable
  BY <1>3, AttributesAssumption DEF Attributes
<1> QED
  BY <1>1, <1>2, <1>3

LEMMA HalvesType == \A u \in Users : Halves(u) \in {1, 2}
  BY DEF Halves

LEMMA RegisterType ==
    ASSUME IInv, NEW u \in Users, pc[u] # "idle", ~ Done(u)
    PROVE  Register(u) \in Registers /\ half[u] \in {0, 1} /\ half[u] + 1 <= Halves(u)
<1>1. op[u][2] \in Attributes
  BY CallType DEF IInv, Progress, ProgressOf
<1>2. half[u] \in 0 .. 2 /\ half[u] < Halves(u)
  <2>1. half[u] \in 0 .. 2
    BY DEF IInv, TypeOK
  <2>2. half[u] <= Halves(u) /\ half[u] # Halves(u)
    BY DEF IInv, Progress, ProgressOf, Done
  <2> QED
    BY <2>1, <2>2, HalvesType
<1>3. op[u][2] \in OneByte => half[u] = 0
  BY <1>2 DEF Halves
<1> QED
  BY <1>1, <1>2, <1>3, HalvesType DEF Registers, Register

LEMMA InitIInv == Init => IInv
<1> SUFFICES ASSUME Init PROVE IInv
  OBVIOUS
<1>1. TypeOK
  BY AttributesAssumption DEF Init, TypeOK, PCs, Pairs
<1>2. LockHeld
  BY AttributesAssumption DEF Init, LockHeld, Inside
<1>3. Progress
  BY HalvesType DEF Init, Progress, ProgressOf
<1>4. Points /\ Moved /\ Apart
  BY DEF Init, Points, Pointed, Moved, MovedBy, Apart
<1> QED
  BY <1>1, <1>2, <1>3, <1>4 DEF IInv

-----------------------------------------------------------------------------
LEMMA CallIInv == ASSUME IInv, NEW u \in Users, Call(u) PROVE IInv'
<1> USE DEF IInv
<1> PICK o \in Calls :
        /\ op' = [op EXCEPT ![u] = o]
        /\ disturbed' = DisturbedBy(u, o)
        /\ IF o[1] = "set" THEN \E v \in Pairs : value' = [value EXCEPT ![u] = v]
                           ELSE UNCHANGED value
  BY DEF Call
<1> DEFINE Rest == /\ pc[u] = "idle" /\ pc' = [pc EXCEPT ![u] = "lock"]
                   /\ UNCHANGED <<regs, pointer, lock, half, result>>
<1>1. Rest
  BY DEF Call, GoTo, cpld
<1>2. o # NoCall
  BY DEF Calls, NoCall
<1>3. TypeOK'
  <2>1. value' \in [Users -> Pairs]
    BY DEF TypeOK
  <2>2. disturbed' \in [Users -> BOOLEAN]
    BY DEF TypeOK, DisturbedBy
  <2> QED
    BY <1>1, <2>1, <2>2 DEF TypeOK, PCs
<1>4. LockHeld'
  BY <1>1 DEF LockHeld, Inside, TypeOK
<1>5. Progress'
  <2> SUFFICES ASSUME NEW w \in Users PROVE ProgressOf(w)'
    BY DEF Progress
  <2>1. CASE w = u
    <3>1. /\ pc'[u] = "lock" /\ op'[u] # NoCall /\ half'[u] = 0 /\ result'[u] = "ok"
      BY <1>1, <1>2 DEF TypeOK, Progress, ProgressOf
    <3>2. Halves(u)' \in {1, 2}
      BY DEF Halves
    <3> QED
      BY <2>1, <3>1, <3>2 DEF ProgressOf, Done
  <2>2. CASE w # u
    BY <1>1, <2>2 DEF TypeOK, Progress, ProgressOf, Done, Halves
  <2> QED
    BY <2>1, <2>2
<1>6. Points'
  <2> SUFFICES ASSUME NEW w \in Users PROVE Pointed(w)'
    BY DEF Points
  <2>1. w # u => (~ disturbed'[w] => ~ disturbed[w])
    BY DEF DisturbedBy
  <2> QED
    BY <1>1, <2>1 DEF TypeOK, Points, Pointed, Register
<1>7. Moved'
  <2> SUFFICES ASSUME NEW w \in Users PROVE MovedBy(w)'
    BY DEF Moved
  <2>1. CASE w = u
    <3>1. half'[u] = 0
      BY <1>1 DEF Progress, ProgressOf
    <3> QED
      BY <2>1, <3>1 DEF MovedBy
  <2>2. CASE w # u
    <3>1. ~ disturbed'[w] => ~ disturbed[w]
      BY <2>2 DEF DisturbedBy
    <3>2. value'[w] = value[w] /\ op'[w] = op[w] /\ pc'[w] = pc[w]
      BY <1>1, <2>2 DEF TypeOK
    <3> QED
      BY <1>1, <2>2, <3>1, <3>2 DEF Moved, MovedBy
  <2> QED
    BY <2>1, <2>2
<1>8. Apart'
  <2> SUFFICES ASSUME NEW x \in Users, NEW w \in Users, x # w,
                      op'[x][1] = "set", op'[w] # NoCall, op'[w][2] = op'[x][2]
               PROVE  disturbed'[w]
    BY DEF Apart
  <2>1. CASE x = u
    <3>1. op'[x] = o /\ op'[w] = op[w]
      BY <2>1 DEF TypeOK
    <3> QED
      BY <2>1, <3>1 DEF DisturbedBy
  <2>2. CASE w = u
    <3>1. op'[w] = o /\ op'[x] = op[x] /\ op[x] # NoCall
      <4>1. op'[w] = o /\ op'[x] = op[x]
        BY <2>2 DEF TypeOK
      <4> QED
        BY <4>1 DEF NoCall
    <3>2. op[x] = <<"set", o[2]>>
      BY <3>1, CallType
    <3> QED
      BY <2>2, <3>2 DEF DisturbedBy
  <2>3. CASE x # u /\ w # u
    <3>1. op'[w] = op[w] /\ op'[x] = op[x]
      BY <2>3 DEF TypeOK
    <3>2. disturbed[w]
      BY <3>1 DEF Apart
    <3> QED
      BY <2>3, <3>2 DEF DisturbedBy
  <2> QED
    BY <2>1, <2>2, <2>3
<1> QED
  BY <1>3, <1>4, <1>5, <1>6, <1>7, <1>8

LEMMA AcquireIInv == ASSUME IInv, NEW u \in Users, Acquire(u) PROVE IInv'
<1> USE DEF IInv
<1>1. /\ lock = NoUser /\ lock' = u /\ pc[u] = "lock"
      /\ pc' = [pc EXCEPT ![u] = IF op[u][1] = "get" THEN "point" ELSE "write"]
      /\ UNCHANGED <<regs, pointer, op, value, half, result, disturbed>>
  BY DEF Acquire, LockFree, GoTo, cpld
<1>2. op[u][1] \in {"get", "set"}
  BY <1>1, CallType DEF Progress, ProgressOf
<1>3. TypeOK'
  BY <1>1 DEF TypeOK, PCs
<1>4. LockHeld'
  BY <1>1, AttributesAssumption DEF LockHeld, Inside, TypeOK
<1>5. Progress'
  BY <1>1, <1>2 DEF TypeOK, Progress, ProgressOf, Done, Halves
<1>6. Points' /\ Moved'
  BY <1>1 DEF TypeOK, Points, Pointed, Moved, MovedBy, Register
<1>7. Apart'
  BY <1>1 DEF Apart
<1> QED
  BY <1>3, <1>4, <1>5, <1>6, <1>7

(* Only who holds the lock moves the pointer, so nobody else is between   *)
(* its two transfers.                                                     *)
LEMMA Alone ==
    ASSUME IInv, NEW u \in Users, pc[u] \in Inside, NEW w \in Users, w # u
    PROVE  pc[w] \notin Inside
  BY DEF IInv, LockHeld

LEMMA PointIInv == ASSUME IInv, NEW u \in Users, Point(u) PROVE IInv'
<1> USE DEF IInv
<1>1. /\ pc[u] = "point" /\ pc' = [pc EXCEPT ![u] = "read"]
      /\ UNCHANGED <<regs, lock, op, value, half, result>>
  BY DEF Point, GoTo
<1>2. \/ pointer' = Register(u) /\ UNCHANGED disturbed
      \/ disturbed' = [disturbed EXCEPT ![u] = TRUE] /\ UNCHANGED pointer
  BY DEF Point, TransferFails
<1>3. \A w \in Users : disturbed'[w] = disturbed[w] \/ (w = u /\ disturbed'[w])
  BY <1>2 DEF TypeOK
<1>4. TypeOK'
  <2>1. pointer' \in Registers /\ disturbed' \in [Users -> BOOLEAN]
    BY <1>1, <1>2, RegisterType DEF TypeOK, Progress, ProgressOf
  <2> QED
    BY <1>1, <2>1 DEF TypeOK, PCs
<1>5. LockHeld'
  BY <1>1 DEF LockHeld, Inside, TypeOK
<1>6. Progress'
  BY <1>1 DEF TypeOK, Progress, ProgressOf, Done, Halves
<1>7. Points'
  <2> SUFFICES ASSUME NEW w \in Users, pc'[w] = "read", ~ disturbed'[w]
               PROVE  pointer' = Register(w)'
    BY DEF Points, Pointed
  <2>1. w = u
    BY <1>1, Alone DEF Inside, TypeOK
  <2>2. Register(w)' = Register(w)
    BY <1>1 DEF Register
  <2> QED
    BY <1>2, <2>1, <2>2 DEF TypeOK
<1>8. Moved'
  BY <1>1, <1>3 DEF TypeOK, Moved, MovedBy
<1>9. Apart'
  BY <1>1, <1>3 DEF Apart
<1> QED
  BY <1>4, <1>5, <1>6, <1>7, <1>8, <1>9

LEMMA ReadIInv == ASSUME IInv, NEW u \in Users, Read(u) PROVE IInv'
<1> USE DEF IInv
<1>1. /\ pc[u] = "read" /\ pc' = [pc EXCEPT ![u] = "unlock"]
      /\ half' = [half EXCEPT ![u] = half[u] + 1]
      /\ UNCHANGED <<regs, pointer, lock, op, result, disturbed>>
  BY DEF Read, GoTo, NextHalf, cpld
<1> DEFINE byte == regs[pointer]
<1>2. value' = [value EXCEPT ![u] = IF half[u] = 0 THEN <<byte, 0>>
                                                    ELSE <<value[u][1], byte>>]
  BY DEF Read
<1>3. /\ half[u] \in {0, 1} /\ half[u] + 1 <= Halves(u)
      /\ op[u][1] = "get" /\ op[u] # NoCall
  BY <1>1, RegisterType DEF Progress, ProgressOf
<1>11. half'[u] = half[u] + 1 /\ half'[u] \in Nat
  <2>1. half \in [Users -> 0 .. 2]
    BY DEF TypeOK
  <2>2. half'[u] = half[u] + 1
    BY <1>1, <2>1, Zenon
  <2> QED
    BY <1>3, <2>2
<1>4. byte \in Bytes /\ (~ disturbed[u] => byte = regs[<<op[u][2], half[u]>>])
  BY <1>1 DEF TypeOK, Points, Pointed, Register
<1>5. TypeOK'
  <2>1. value' \in [Users -> Pairs]
    BY <1>2, <1>4, AttributesAssumption DEF TypeOK, Pairs
  <2>2. half' \in [Users -> 0 .. 2]
    <3>1. half[u] + 1 \in 0 .. 2
      BY <1>3
    <3> QED
      BY <1>1, <3>1 DEF TypeOK
  <2> QED
    BY <1>1, <2>1, <2>2 DEF TypeOK, PCs
<1>6. LockHeld'
  BY <1>1 DEF LockHeld, Inside, TypeOK
<1>7. Progress'
  <2> SUFFICES ASSUME NEW w \in Users PROVE ProgressOf(w)'
    BY DEF Progress
  <2>1. Halves(w)' = Halves(w)
    BY <1>1 DEF Halves
  <2>2. CASE w = u
    BY <1>1, <1>3, <2>1, <2>2 DEF TypeOK, ProgressOf
  <2>3. CASE w # u
    BY <1>1, <2>1, <2>3 DEF TypeOK, Progress, ProgressOf, Done
  <2> QED
    BY <2>2, <2>3
<1>8. Points'
  BY <1>1 DEF TypeOK, Points, Pointed, Register
<1>9. Moved'
  <2> SUFFICES ASSUME NEW w \in Users PROVE MovedBy(w)'
    BY DEF Moved
  <2>1. CASE w = u /\ half[u] = 0
    <3>1. half'[u] = 1
      BY <1>11, <2>1
    <3>2. value'[u] = <<byte, 0>>
      BY <1>2, <2>1 DEF TypeOK
    <3> QED
      BY <1>1, <1>4, <2>1, <3>1, <3>2 DEF MovedBy
  <2>2. CASE w = u /\ half[u] = 1
    <3>1. half'[u] = 2
      BY <1>11, <2>2
    <3>2. value'[u] = <<value[u][1], byte>>
      <4>1. half[u] # 0
        BY <2>2
      <4> QED
        BY <1>2, <4>1 DEF TypeOK
    <3>3. half[u] >= 1 /\ pc[u] # "idle"
      BY <1>1, <2>2
    <3>4. ~ disturbed[u] => value[u][1] = regs[<<op[u][2], 0>>]
      BY <3>3 DEF Moved, MovedBy
    <3> QED
      BY <1>1, <1>4, <2>2, <3>1, <3>2, <3>4 DEF MovedBy
  <2>3. CASE w # u
    BY <1>1, <1>2, <2>3 DEF TypeOK, Moved, MovedBy
  <2> QED
    BY <1>3, <2>1, <2>2, <2>3
<1>10. Apart'
  BY <1>1 DEF Apart
<1> QED
  BY <1>5, <1>6, <1>7, <1>8, <1>9, <1>10

LEMMA ReadFailsIInv == ASSUME IInv, NEW u \in Users, ReadFails(u) PROVE IInv'
<1> USE DEF IInv
<1>1. /\ pc[u] = "read" /\ pc' = [pc EXCEPT ![u] = "unlock"]
      /\ disturbed' = [disturbed EXCEPT ![u] = TRUE]
      /\ result' = [result EXCEPT ![u] = "read error"]
      /\ UNCHANGED <<regs, pointer, lock, op, value, half>>
  BY DEF ReadFails, GoTo, TransferFails, cpld
<1>2. TypeOK'
  BY <1>1 DEF TypeOK, PCs
<1>3. LockHeld'
  BY <1>1 DEF LockHeld, Inside, TypeOK
<1>4. Progress'
  BY <1>1 DEF TypeOK, Progress, ProgressOf, Done, Halves
<1>5. Points' /\ Moved'
  BY <1>1 DEF TypeOK, Points, Pointed, Moved, MovedBy, Register
<1>6. Apart'
  BY <1>1 DEF TypeOK, Apart
<1> QED
  BY <1>2, <1>3, <1>4, <1>5, <1>6

-----------------------------------------------------------------------------
(* The others at an attribute that is written are disturbed already. *)
LEMMA WriteIInv == ASSUME IInv, NEW u \in Users, Write(u) PROVE IInv'
<1> USE DEF IInv
<1> DEFINE byte == value[u][IF half[u] = 0 THEN 1 ELSE 2]
<1>1. /\ pc[u] = "write" /\ pc' = [pc EXCEPT ![u] = "unlock"]
      /\ half' = [half EXCEPT ![u] = half[u] + 1]
      /\ UNCHANGED <<lock, op, value, result>>
  BY DEF Write, GoTo, NextHalf
<1>2. \/ /\ pointer' = Register(u) /\ UNCHANGED disturbed
         /\ regs' = [regs EXCEPT ![Register(u)] = byte]
      \/ disturbed' = [disturbed EXCEPT ![u] = TRUE] /\ UNCHANGED <<regs, pointer>>
  BY DEF Write, TransferFails, cpld
<1>3. /\ half[u] \in {0, 1} /\ half[u] + 1 <= Halves(u) /\ Register(u) \in Registers
      /\ op[u][1] = "set" /\ op[u] # NoCall
  BY <1>1, RegisterType DEF Progress, ProgressOf
<1>12. half'[u] = half[u] + 1 /\ half'[u] \in Nat
  <2>1. half \in [Users -> 0 .. 2]
    BY DEF TypeOK
  <2>2. half'[u] = half[u] + 1
    BY <1>1, <2>1, Zenon
  <2> QED
    BY <1>3, <2>2
<1>4. byte \in Bytes
  BY DEF TypeOK, Pairs
<1>5. \A w \in Users : disturbed'[w] = disturbed[w] \/ (w = u /\ disturbed'[w])
  BY <1>2 DEF TypeOK
<1>6. TypeOK'
  <2>1. /\ pointer' \in Registers /\ disturbed' \in [Users -> BOOLEAN]
        /\ regs' \in [Registers -> Bytes]
    BY <1>2, <1>3, <1>4 DEF TypeOK
  <2>2. half' \in [Users -> 0 .. 2]
    <3>1. half[u] + 1 \in 0 .. 2
      BY <1>3
    <3> QED
      BY <1>1, <3>1 DEF TypeOK
  <2> QED
    BY <1>1, <2>1, <2>2 DEF TypeOK, PCs
<1>7. LockHeld'
  BY <1>1 DEF LockHeld, Inside, TypeOK
<1>8. Progress'
  <2> SUFFICES ASSUME NEW w \in Users PROVE ProgressOf(w)'
    BY DEF Progress
  <2>1. Halves(w)' = Halves(w)
    BY <1>1 DEF Halves
  <2>2. CASE w = u
    BY <1>1, <1>3, <2>1, <2>2 DEF TypeOK, ProgressOf
  <2>3. CASE w # u
    BY <1>1, <2>1, <2>3 DEF TypeOK, Progress, ProgressOf, Done
  <2> QED
    BY <2>2, <2>3
<1>9. Points'
  BY <1>1, Alone DEF TypeOK, Inside, Points, Pointed
<1>10. Moved'
  <2> SUFFICES ASSUME NEW w \in Users, pc'[w] # "idle", ~ disturbed'[w]
               PROVE  MovedBy(w)'
    BY DEF Moved, MovedBy
  <2>1. CASE w = u
    <3>1. regs' = [regs EXCEPT ![Register(u)] = byte] /\ ~ disturbed[u]
      BY <1>2, <2>1 DEF TypeOK
    <3>2. regs'[Register(u)] = byte
      BY <1>3, <3>1 DEF TypeOK
    <3>3. CASE half[u] = 0
      <4>1. Register(u) = <<op[u][2], 0>> /\ byte = value[u][1]
        BY <3>3 DEF Register
      <4>2. half'[u] = 1
        BY <1>12, <3>3
      <4> QED
        BY <1>1, <1>3, <2>1, <3>2, <4>1, <4>2 DEF MovedBy
    <3>4. CASE half[u] = 1
      <4>1. Register(u) = <<op[u][2], 1>> /\ byte = value[u][2]
        BY <3>4 DEF Register
      <4>2. half'[u] = 2
        BY <1>12, <3>4
      <4>3. <<op[u][2], 0>> \in Registers /\ <<op[u][2], 0>> # Register(u)
        BY <1>3, <4>1 DEF Registers
      <4>4. regs'[<<op[u][2], 0>>] = regs[<<op[u][2], 0>>]
        BY <3>1, <4>3 DEF TypeOK
      <4>5. half[u] >= 1 /\ pc[u] # "idle"
        BY <1>1, <3>4
      <4>6. value[u][1] = regs[<<op[u][2], 0>>]
        BY <3>1, <4>5 DEF Moved, MovedBy
      <4> QED
        BY <1>1, <1>3, <2>1, <3>2, <4>1, <4>2, <4>4, <4>6 DEF MovedBy
    <3> QED
      BY <1>3, <3>3, <3>4
  <2>2. CASE w # u
    <3>1. /\ pc[w] # "idle" /\ ~ disturbed[w] /\ op[w] # NoCall
          /\ half'[w] = half[w] /\ value'[w] = value[w] /\ op'[w] = op[w]
      BY <1>1, <1>5, <2>2 DEF TypeOK, Progress, ProgressOf
    <3>2. op[w][2] # op[u][2]
      BY <1>3, <2>2, <3>1 DEF Apart
    <3>3. \A h : <<op[w][2], h>> # Register(u)
      BY <3>2 DEF Register
    <3>4. \A h : <<op[w][2], h>> \in Registers =>
                     regs'[<<op[w][2], h>>] = regs[<<op[w][2], h>>]
      BY <1>2, <3>3 DEF TypeOK
    <3>5. /\ <<op[w][2], 0>> \in Registers
          /\ half[w] = 2 => <<op[w][2], 1>> \in Registers
      BY <3>1, CallType, HalvesType DEF Registers, Halves, Progress, ProgressOf
    <3> QED
      BY <3>1, <3>4, <3>5 DEF Moved, MovedBy
  <2> QED
    BY <2>1, <2>2
<1>11. Apart'
  BY <1>1, <1>5 DEF Apart
<1> QED
  BY <1>6, <1>7, <1>8, <1>9, <1>10, <1>11

-----------------------------------------------------------------------------
LEMMA UnlockIInv == ASSUME IInv, NEW u \in Users, Unlock(u) PROVE IInv'
<1> USE DEF IInv
<1>1. /\ pc[u] = "unlock" /\ pc' = [pc EXCEPT ![u] = "lock"] /\ lock' = NoUser
      /\ result[u] = "ok" /\ ~ Done(u)
      /\ UNCHANGED <<regs, pointer, op, value, half, result, disturbed>>
  BY DEF Unlock, GoTo, Released, cpld
<1>2. TypeOK'
  BY <1>1 DEF TypeOK, PCs
<1>3. LockHeld'
  BY <1>1, AttributesAssumption DEF LockHeld, Inside, TypeOK
<1>4. Progress'
  BY <1>1 DEF TypeOK, Progress, ProgressOf, Done, Halves
<1>5. Points' /\ Moved'
  BY <1>1 DEF TypeOK, Points, Pointed, Moved, MovedBy, Register
<1>6. Apart'
  BY <1>1 DEF Apart
<1> QED
  BY <1>2, <1>3, <1>4, <1>5, <1>6

LEMMA ReturnIInv == ASSUME IInv, NEW u \in Users, Return(u) PROVE IInv'
<1> USE DEF IInv
<1>1. /\ pc[u] = "unlock" /\ pc' = [pc EXCEPT ![u] = "idle"] /\ lock' = NoUser
      /\ op' = [op EXCEPT ![u] = NoCall]
      /\ value' = [value EXCEPT ![u] = <<0, 0>>]
      /\ half' = [half EXCEPT ![u] = 0]
      /\ result' = [result EXCEPT ![u] = "ok"]
      /\ disturbed' = [disturbed EXCEPT ![u] = FALSE]
      /\ UNCHANGED <<regs, pointer>>
  BY DEF Return, GoTo, Released, cpld
<1>2. TypeOK'
  <2>1. value' \in [Users -> Pairs]
    <3>1. <<0, 0>> \in Pairs
      BY AttributesAssumption DEF Pairs
    <3> QED
      BY <1>1, <3>1 DEF TypeOK
  <2>2. op' \in [Users -> Calls \cup {NoCall}]
    BY <1>1 DEF TypeOK
  <2>3. half' \in [Users -> 0 .. 2]
    <3>1. half \in [Users -> 0 .. 2]
      BY DEF TypeOK
    <3>3. 0 \in 0 .. 2
      OBVIOUS
    <3>2. \A S : 0 \in S /\ half \in [Users -> S] => half' \in [Users -> S]
      BY <1>1
    <3> QED
      BY <3>1, <3>2, <3>3
  <2>6. result' \in [Users -> {"ok", "read error"}]
    BY <1>1 DEF TypeOK
  <2>7. pc' \in [Users -> PCs]
    BY <1>1 DEF TypeOK, PCs
  <2>5. disturbed' \in [Users -> BOOLEAN]
    BY <1>1 DEF TypeOK
  <2>4. regs' \in [Registers -> Bytes] /\ pointer' \in Registers /\ lock' = NoUser
    BY <1>1 DEF TypeOK
  <2> QED
    BY <2>1, <2>2, <2>3, <2>4, <2>5, <2>6, <2>7 DEF TypeOK
<1>3. LockHeld'
  BY <1>1, AttributesAssumption DEF LockHeld, Inside, TypeOK
<1>4. \A w \in Users : w # u =>
          /\ pc'[w] = pc[w] /\ op'[w] = op[w] /\ value'[w] = value[w]
          /\ half'[w] = half[w] /\ result'[w] = result[w] /\ disturbed'[w] = disturbed[w]
  BY <1>1 DEF TypeOK
<1>5. /\ pc'[u] = "idle" /\ op'[u] = NoCall /\ half'[u] = 0 /\ result'[u] = "ok"
  BY <1>1 DEF TypeOK
<1>6. Progress'
  <2> SUFFICES ASSUME NEW w \in Users PROVE ProgressOf(w)'
    BY DEF Progress
  <2>1. CASE w = u
    <3>1. Halves(u)' \in {1, 2}
      BY DEF Halves
    <3> QED
      BY <1>5, <2>1, <3>1 DEF ProgressOf
  <2>2. CASE w # u
    BY <1>4, <2>2 DEF Progress, ProgressOf, Done, Halves
  <2> QED
    BY <2>1, <2>2
<1>7. Points' /\ Moved'
  BY <1>1, <1>4, <1>5 DEF Points, Pointed, Moved, MovedBy, Register
<1>8. Apart'
  BY <1>4, <1>5 DEF Apart, NoCall
<1> QED
  BY <1>2, <1>3, <1>6, <1>7, <1>8

LEMMA PlugIInv == IInv /\ Plug => IInv'
<1> SUFFICES ASSUME IInv, Plug PROVE IInv'
  OBVIOUS
<1> USE DEF IInv
<1> PICK g \in (ReadOnly \ OneByte) \X {0, 1} :
        /\ \E b \in Bytes : regs' = [regs EXCEPT ![g] = b]
        /\ disturbed' = [u \in Users |-> disturbed[u] \/ op[u][2] = g[1]]
  BY DEF Plug
<1> PICK b \in Bytes : regs' = [regs EXCEPT ![g] = b]
  OBVIOUS
<1>1. UNCHANGED <<pointer, lock, pc, op, value, half, result>>
  BY DEF Plug
<1>2. TypeOK'
  BY <1>1 DEF TypeOK
<1>3. LockHeld'
  BY <1>1 DEF LockHeld
<1>4. Progress'
  BY <1>1 DEF Progress, ProgressOf, Done, Halves
<1>5. Points'
  BY <1>1 DEF Points, Pointed, Register
<1>6. Moved'
  <2> SUFFICES ASSUME NEW u \in Users, pc[u] # "idle", ~ disturbed'[u]
               PROVE  MovedBy(u)'
    BY <1>1 DEF Moved, MovedBy
  <2>1. ~ disturbed[u] /\ op[u][2] # g[1] /\ op[u] # NoCall
    BY DEF Progress, ProgressOf
  <2>2. \A h : <<op[u][2], h>> # g
    BY <2>1
  <2>3. \A h : <<op[u][2], h>> \in Registers =>
                   regs'[<<op[u][2], h>>] = regs[<<op[u][2], h>>]
    BY <2>2 DEF TypeOK
  <2>4. /\ <<op[u][2], 0>> \in Registers
        /\ half[u] = 2 => <<op[u][2], 1>> \in Registers
    BY <2>1, CallType, HalvesType DEF Registers, Halves, Progress, ProgressOf
  <2> QED
    BY <1>1, <2>1, <2>3, <2>4 DEF Moved, MovedBy
<1>7. Apart'
  BY <1>1 DEF Apart
<1> QED
  BY <1>2, <1>3, <1>4, <1>5, <1>6, <1>7

LEMMA StutterIInv == IInv /\ UNCHANGED vars => IInv'
<1> SUFFICES ASSUME IInv, UNCHANGED vars PROVE IInv'
  OBVIOUS
<1> USE DEF IInv, vars, cpld, user
<1>1. TypeOK' /\ LockHeld' /\ Apart'
  BY DEF TypeOK, LockHeld, Apart
<1>2. Progress'
  BY DEF Progress, ProgressOf, Done, Halves
<1>3. Points' /\ Moved'
  BY DEF Points, Pointed, Register, Moved, MovedBy
<1> QED
  BY <1>1, <1>2, <1>3

LEMMA StepIInv == IInv /\ [Next]_vars => IInv'
  BY CallIInv, AcquireIInv, PointIInv, ReadIInv, ReadFailsIInv, WriteIInv, UnlockIInv,
     ReturnIInv, PlugIInv, StutterIInv DEF Next, Working

LEMMA Invariance == Spec => []IInv
  BY InitIInv, StepIInv, PTL DEF Spec

(* Registers, pointer, lock and the local variables of every call of      *)
(* get_* and set_* keep their types.                                      *)
THEOREM TypeCorrect == Spec => []TypeOK
<1>1. IInv => TypeOK
  BY DEF IInv
<1> QED
  BY <1>1, Invariance, PTL

-----------------------------------------------------------------------------
(* Who returns has moved as many bytes as the attribute has. *)
LEMMA ReturnsWhole ==
    ASSUME IInv, [Next]_vars, NEW u \in Users, Returns(u, "get") \/ Returns(u, "set")
    PROVE  half[u] = Halves(u) /\ op[u] # NoCall
<1>1. /\ pc[u] # "idle" /\ pc'[u] = "idle" /\ result[u] = "ok"
  BY DEF Returns
<1>2. CASE \E w \in Users : Return(w)
  <2> PICK w \in Users : Return(w)
    BY <1>2
  <2>1. u = w
    BY <1>1 DEF Return, GoTo, IInv, TypeOK
  <2> QED
    BY <1>1, <2>1 DEF Return, Done, IInv, Progress, ProgressOf
<1>3. CASE ~ \E w \in Users : Return(w)
  <2>1. CASE UNCHANGED vars \/ Plug
    BY <1>1, <2>1 DEF vars, user, Plug
  <2>2. CASE \E w \in Users : \/ Call(w) \/ Acquire(w) \/ Point(w) \/ Read(w)
                               \/ ReadFails(w) \/ Write(w) \/ Unlock(w)
    BY <1>1, <2>2 DEF Call, Acquire, Point, Read, ReadFails, Write, Unlock, GoTo, IInv, TypeOK
  <2> QED
    BY <1>3, <2>1, <2>2 DEF Next, Working
<1> QED
  BY <1>2, <1>3

(* Its bytes are those of the registers. *)
LEMMA ReturnsExact ==
    ASSUME IInv, [Next]_vars, NEW u \in Users, Returns(u, "get") \/ Returns(u, "set")
    PROVE  value[u] = Holds(op[u][2])
<1>1. pc[u] # "idle" /\ ~ disturbed[u] /\ half[u] = Halves(u) /\ op[u] # NoCall
  BY ReturnsWhole DEF Returns
<1>2. value[u] = <<value[u][1], value[u][2]>>
  <2>1. value[u] \in Bytes \X Bytes
    BY DEF IInv, TypeOK, Pairs
  <2> QED
    BY <2>1
<1>3. op[u][1] = "set" => op[u][2] \notin OneByte
  BY <1>1, CallType DEF IInv
<1>4. op[u][1] \in {"get", "set"}
  BY <1>1, CallType DEF IInv
<1>5. MovedBy(u)
  BY DEF IInv, Moved
<1>6. CASE op[u][2] \in OneByte
  BY <1>1, <1>2, <1>3, <1>4, <1>5, <1>6 DEF MovedBy, Holds, Halves
<1>7. CASE op[u][2] \notin OneByte
  BY <1>1, <1>2, <1>5, <1>7 DEF MovedBy, Holds, Halves
<1> QED
  BY <1>6, <1>7

(* A get of any attribute shows its registers, for any number of threads  *)
(* that get and set this and other attributes meanwhile.                  *)
THEOREM GetIsExact == Spec => QuietGetIsExact
<1>1. IInv /\ [Next]_vars => [\A u \in Users : Returns(u, "get") => value[u] = Holds(op[u][2])]_vars
  BY ReturnsExact
<1> QED
  BY <1>1, Invariance, PTL DEF Spec, QuietGetIsExact

(* A set has both bytes in place when it returns. *)
THEOREM SetTakesEffect == Spec => QuietSetTakesEffect
<1>1. IInv /\ [Next]_vars => [\A u \in Users : Returns(u, "set") => value[u] = Holds(op[u][2])]_vars
  BY ReturnsExact
<1> QED
  BY <1>1, Invariance, PTL DEF Spec, QuietSetTakesEffect
================================================================================
