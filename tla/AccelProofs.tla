---------------------------- MODULE AccelProofs ----------------------------
(***************************************************************************)
(* Proofs about Accel, for any number of users, taps, calls, failed        *)
(* transfers and probes, and any full scale.                               *)
(***************************************************************************)
EXTENDS Accel, FiniteSetTheorems, TLAPS

(* The managed resources in the order of acquisition; devres is always a   *)
(* prefix of them.  Have[n] are held when probe is at step n.              *)
Resource == <<"ac", "input", "gpio", "irq", "register">>
Stack(k) == [i \in 1..k |-> Resource[i]]
Have     == <<0, 1, 2, 2, 3, 4, 4>>

CoreTypes ==
  /\ bind \in {"unbound", "probe", "write", "attach", "bound", "hide", "unregister",
               "standby", "release"}
  /\ irq \in {"idle", "status", "source", "press", "sync", "release", "lastSync"}
  /\ at \in 1..7 /\ (bind = "write" => at \in 1..4)
  /\ sysfs \in BOOLEAN /\ drvdata \in BOOLEAN
  /\ pc \in [User -> {"idle", "oops", "rate", "bwRate", "read", "x", "y", "z"}]

(* How many resources are held where.                                      *)
Holds(k) ==
  /\ devres = Stack(k)
  /\ bind = "unbound" => k = 0
  /\ bind = "probe" => k = Have[at]
  /\ bind \in {"write", "attach", "bound", "unregister"} => k = 5
  /\ bind = "hide" => k = (IF drvdata THEN 5 ELSE 4)
  /\ bind = "standby" => k = 4
  /\ bind = "release" => k <= 4
  /\ irq # "idle" => k >= 4

(* The attributes exist only while the private data does, nobody is in     *)
(* them before spi_set_drvdata, and removal waits for those who are.       *)
Attributes ==
  /\ sysfs => \/ bind \in {"write", "attach", "bound"}
              \/ bind = "probe" /\ at = 7
              \/ bind = "hide" /\ at = 1
  /\ bind \in {"bound", "unregister", "standby"} => drvdata
  /\ drvdata => bind \in {"bound", "hide", "unregister", "standby", "release"}
  /\ (\E u \in User : pc[u] # "idle") =>
       sysfs \/ (bind = "hide" /\ at = 2)
  /\ (\E u \in User : InCall(u)) => drvdata

CoreInv == CoreTypes /\ (\E k \in 0..5 : Holds(k)) /\ Attributes

-----------------------------------------------------------------------------
LEMMA StackFacts ==
  /\ \A k \in 0..4 : Append(Stack(k), Resource[k + 1]) = Stack(k + 1)
  /\ \A k \in 1..5 : Front(Stack(k)) = Stack(k - 1) /\ Last(Stack(k)) = Resource[k]
  /\ \A k \in 0..5 : ToSet(Stack(k)) = {Resource[i] : i \in 1..k}
  /\ \A k \in 0..5 : Stack(k) = <<>> <=> k = 0
<1>1. \A k \in 0..5 : /\ Stack(k) \in Seq({"ac", "input", "gpio", "irq", "register"})
                      /\ Len(Stack(k)) = k /\ DOMAIN Stack(k) = 1..k
                      /\ \A i \in 1..k : Stack(k)[i] = Resource[i]
  BY DEF Stack, Resource
<1>2. ASSUME NEW k \in 0..4 PROVE Append(Stack(k), Resource[k + 1]) = Stack(k + 1)
  <2> DEFINE s == Append(Stack(k), Resource[k + 1])
  <2>0. Resource[k + 1] \in {"ac", "input", "gpio", "irq", "register"}
    <3>1. k = 0 \/ k = 1 \/ k = 2 \/ k = 3 \/ k = 4
      OBVIOUS
    <3> QED
      BY <3>1 DEF Resource
  <2>1. /\ Len(Stack(k)) = k /\ Stack(k) \in Seq({"ac", "input", "gpio", "irq", "register"})
        /\ \A i \in 1..k : Stack(k)[i] = Resource[i]
        /\ Resource[k + 1] \in {"ac", "input", "gpio", "irq", "register"}
    <3>1. k \in 0..5
      OBVIOUS
    <3> QED
      BY <1>1, <2>0, <3>1, Zenon
  <2>2. DOMAIN s = 1..(k + 1) /\ \A i \in 1..(k + 1) : s[i] = Resource[i]
    BY <2>1
  <2>3. s = [i \in 1..(k + 1) |-> s[i]]
    BY <2>1, <2>2
  <2> QED
    BY <2>2, <2>3 DEF Stack
<1>3. ASSUME NEW k \in 1..5 PROVE Front(Stack(k)) = Stack(k - 1)
  <2>1. SubSeq(Stack(k), 1, k - 1) = [i \in 1..(k - 1) |-> Stack(k)[i]]
    BY <1>1
  <2> QED
    BY <1>1, <2>1 DEF Stack, Front
<1>4. ASSUME NEW k \in 1..5 PROVE Last(Stack(k)) = Resource[k]
  <2>1. k \in 0..5 /\ k \in 1..k
    OBVIOUS
  <2>2. Len(Stack(k)) = k /\ Stack(k)[k] = Resource[k]
    BY <1>1, <2>1, Zenon
  <2> QED
    BY <2>2, Zenon DEF Last
<1>5. \A k \in 0..5 : ToSet(Stack(k)) = {Resource[i] : i \in 1..k}
  BY <1>1 DEF ToSet
<1>6. ASSUME NEW k \in 0..5 PROVE Stack(k) = <<>> <=> k = 0
  <2>1. Len(Stack(k)) = k /\ Stack(k) \in Seq({"ac", "input", "gpio", "irq", "register"})
    BY <1>1
  <2>2. \A t \in Seq({"ac", "input", "gpio", "irq", "register"}) : t = <<>> <=> Len(t) = 0
    OBVIOUS
  <2> QED
    BY <2>1, <2>2
<1> QED
  BY <1>2, <1>3, <1>4, <1>5, <1>6

LEMMA HeldOnes ==
  ASSUME NEW k \in 0..5
  PROVE  /\ "irq" \in ToSet(Stack(k)) => k >= 4
         /\ k >= 2 => {"ac", "input"} \subseteq ToSet(Stack(k))
<1>1. ToSet(Stack(k)) = {Resource[i] : i \in 1..k}
  BY StackFacts
<1>2. /\ Resource[1] = "ac" /\ Resource[2] = "input" /\ Resource[3] = "gpio"
      /\ Resource[4] = "irq" /\ Resource[5] = "register"
  BY DEF Resource
<1>3. ASSUME "irq" \in ToSet(Stack(k)) PROVE k >= 4
  <2>1. PICK i \in 1..k : Resource[i] = "irq"
    BY <1>1, <1>3
  <2>2. i = 1 \/ i = 2 \/ i = 3 \/ i = 4 \/ i = 5
    OBVIOUS
  <2>3. i >= 4
    BY <1>2, <2>1, <2>2
  <2> QED
    BY <2>3
<1>4. ASSUME k >= 2 PROVE {"ac", "input"} \subseteq ToSet(Stack(k))
  <2>1. 1 \in 1..k /\ 2 \in 1..k
    BY <1>4
  <2> QED
    BY <1>1, <1>2, <2>1
<1> QED
  BY <1>3, <1>4

LEMMA StepFacts ==
  /\ Len(Steps) = 7 /\ Len(InitWrites) = 4
  /\ Steps[1] = "ac" /\ Steps[2] = "input" /\ Steps[3] = "id" /\ Steps[4] = "gpio"
  /\ Steps[5] = "irq" /\ Steps[6] = "sysfs" /\ Steps[7] = "register"
  BY DEF Steps, InitWrites

LEMMA CoreInit == Init => CoreInv
<1> SUFFICES ASSUME Init PROVE CoreInv
  OBVIOUS
<1>1. Holds(0)
  BY StackFacts DEF Init, Holds
<1>2. CoreTypes
  <2>1. pc \in [User -> {"idle", "oops", "rate", "bwRate", "read", "x", "y", "z"}]
    BY DEF Init
  <2>2. bind = "unbound" /\ irq = "idle" /\ at = 1 /\ sysfs = FALSE /\ drvdata = FALSE
    BY DEF Init
  <2>3. at \in 1..7
    BY <2>2
  <2> QED
    BY <2>1, <2>2, <2>3, Zenon DEF CoreTypes
<1>3. Attributes
  BY DEF Init, Attributes, InCall
<1> QED
  BY <1>1, <1>2, <1>3 DEF CoreInv

-----------------------------------------------------------------------------
(* What probe holds after its next step.                                   *)
LEMMA AcquireStack ==
  ASSUME NEW n \in 1..7, devres = Stack(Have[n])
  PROVE  (IF Steps[n] \in Managed THEN Append(devres, Steps[n]) ELSE devres)
           = Stack(IF n = 7 THEN 5 ELSE Have[n + 1])
<1>1. /\ Have[1] = 0 /\ Have[2] = 1 /\ Have[3] = 2 /\ Have[4] = 2 /\ Have[5] = 3
      /\ Have[6] = 4 /\ Have[7] = 4
  BY DEF Have
<1>2. /\ Resource[1] = "ac" /\ Resource[2] = "input" /\ Resource[3] = "gpio"
      /\ Resource[4] = "irq" /\ Resource[5] = "register"
  BY DEF Resource
<1>3. /\ Append(Stack(0), Resource[1]) = Stack(1) /\ Append(Stack(1), Resource[2]) = Stack(2)
      /\ Append(Stack(2), Resource[3]) = Stack(3) /\ Append(Stack(3), Resource[4]) = Stack(4)
      /\ Append(Stack(4), Resource[5]) = Stack(5)
  BY StackFacts
<1>4. /\ Steps[3] \notin Managed /\ Steps[6] \notin Managed
      /\ {Steps[1], Steps[2], Steps[4], Steps[5], Steps[7]} \subseteq Managed
  BY StepFacts DEF Managed
<1>5. n = 1 \/ n = 2 \/ n = 3 \/ n = 4 \/ n = 5 \/ n = 6 \/ n = 7
  OBVIOUS
<1>6. CASE n = 1
  <2>1. Have[n] = 0 /\ Have[n + 1] = 1
    BY <1>1, <1>6
  <2>2. Steps[n] = Resource[1] /\ Steps[n] \in Managed
    BY <1>2, <1>4, <1>6, StepFacts
  <2> QED
    BY <1>3, <1>6, <2>1, <2>2
<1>7. CASE n = 2
  <2>1. Have[n] = 1 /\ Have[n + 1] = 2
    BY <1>1, <1>7
  <2>2. Steps[n] = Resource[2] /\ Steps[n] \in Managed
    BY <1>2, <1>4, <1>7, StepFacts
  <2> QED
    BY <1>3, <1>7, <2>1, <2>2
<1>8. CASE n = 3
  <2>1. Have[n] = Have[n + 1] /\ Steps[n] \notin Managed
    BY <1>1, <1>4, <1>8
  <2> QED
    BY <1>8, <2>1
<1>9. CASE n = 4
  <2>1. Have[n] = 2 /\ Have[n + 1] = 3
    BY <1>1, <1>9
  <2>2. Steps[n] = Resource[3] /\ Steps[n] \in Managed
    BY <1>2, <1>4, <1>9, StepFacts
  <2> QED
    BY <1>3, <1>9, <2>1, <2>2
<1>10. CASE n = 5
  <2>1. Have[n] = 3 /\ Have[n + 1] = 4
    BY <1>1, <1>10
  <2>2. Steps[n] = Resource[4] /\ Steps[n] \in Managed
    BY <1>2, <1>4, <1>10, StepFacts
  <2> QED
    BY <1>3, <1>10, <2>1, <2>2
<1>11. CASE n = 6
  <2>1. Have[n] = Have[n + 1] /\ Steps[n] \notin Managed
    BY <1>1, <1>4, <1>11
  <2> QED
    BY <1>11, <2>1
<1>12. CASE n = 7
  <2>1. Have[n] = 4
    BY <1>1, <1>12
  <2>2. Steps[n] = Resource[5] /\ Steps[n] \in Managed
    BY <1>2, <1>4, <1>12, StepFacts
  <2> QED
    BY <1>3, <1>12, <2>1, <2>2
<1> QED
  BY <1>5, <1>6, <1>7, <1>8, <1>9, <1>10, <1>11, <1>12

LEMMA AcquireKeeps == ASSUME CoreInv, Acquire PROVE CoreInv'
<1>1. /\ bind = "probe" /\ at \in 1..7 /\ devres = Stack(Have[at])
      /\ irq # "idle" => at = 6 \/ at = 7
  BY DEF Acquire, CoreInv, CoreTypes, Holds, Have
<1>2. /\ devres' = (IF Steps[at] \in Managed THEN Append(devres, Steps[at]) ELSE devres)
      /\ sysfs' = (sysfs \/ Steps[at] = "sysfs")
      /\ IF at = 7 THEN bind' = "write" /\ at' = 1 ELSE bind' = "probe" /\ at' = at + 1
      /\ UNCHANGED <<drvdata, pc, irq>>
  BY StepFacts DEF Acquire, irqVars
<1> PICK n \in 1..7 : n = at
  BY <1>1
<1> PICK m \in 0..5 : m = (IF n = 7 THEN 5 ELSE Have[n + 1])
  <2>1. n = 1 \/ n = 2 \/ n = 3 \/ n = 4 \/ n = 5 \/ n = 6 \/ n = 7
    OBVIOUS
  <2> QED
    BY <2>1 DEF Have
<1>3. devres' = Stack(m)
  BY <1>1, <1>2, AcquireStack
<1>4. Holds(m)'
  <2>1. CASE n = 7
    BY <1>1, <1>2, <1>3, <2>1 DEF Holds
  <2>2. CASE n # 7
    <3>1. n = 6 => m = 4
      BY <2>2 DEF Have
    <3>2. irq = irq' /\ (irq # "idle" => n = 6)
      BY <1>1, <1>2, <2>2
    <3>3. bind' = "probe" /\ at' = n + 1 /\ m = Have[n + 1]
      BY <1>2, <2>2
    <3> QED
      BY <1>3, <3>1, <3>2, <3>3 DEF Holds
  <2> QED
    BY <2>1, <2>2
<1>6. CoreTypes'
  BY <1>1, <1>2 DEF CoreInv, CoreTypes
<1>7. Attributes'
  <2>1. ~drvdata /\ \A u \in User : ~InCall(u)
    BY <1>1 DEF CoreInv, Attributes
  <2>2. sysfs' => sysfs \/ at = 6
    <3>1. at = 1 \/ at = 2 \/ at = 3 \/ at = 4 \/ at = 5 \/ at = 6 \/ at = 7
      BY <1>1
    <3> QED
      BY <1>2, <3>1, StepFacts
  <2>3. sysfs => at = 7
    BY <1>1 DEF CoreInv, Attributes
  <2>4. (\E u \in User : pc[u] # "idle") => sysfs'
    BY <1>1, <1>2 DEF CoreInv, Attributes, CoreTypes
  <2> QED
    BY <1>1, <1>2, <2>1, <2>2, <2>3, <2>4 DEF Attributes, InCall
<1> QED
  BY <1>4, <1>6, <1>7 DEF CoreInv

LEMMA CoreMoveKeeps ==
  ASSUME CoreInv,
         \/ Probe \/ FailToAcquire \/ Attach \/ SpiRemove \/ Hide \/ Drain \/ Unbound
         \/ \E ok \in BOOLEAN : InitWrite(ok) \/ Standby(ok)
  PROVE  CoreInv'
<1> PICK k \in 0..5 : Holds(k)
  BY DEF CoreInv
<1>1. UNCHANGED <<devres, pc, irq>>
  BY DEF Probe, FailToAcquire, Attach, SpiRemove, Hide, Drain, Unbound, InitWrite, Standby,
     userVars, irqVars
<1> USE DEF CoreInv, CoreTypes
<1>2. CASE Probe
  <2>1. bind = "unbound" /\ bind' = "probe" /\ at' = 1 /\ UNCHANGED <<sysfs, drvdata>>
    BY <1>2 DEF Probe
  <2>2. Holds(k)'
    BY <1>1, <2>1 DEF Holds, Have
  <2> QED
    BY <1>1, <2>1, <2>2 DEF Attributes, InCall
<1>3. CASE FailToAcquire
  <2>1. /\ bind = "probe" /\ bind' = (IF at = 7 THEN "hide" ELSE "release") /\ at' = 1
        /\ UNCHANGED <<sysfs, drvdata>> /\ ~drvdata /\ at \in 1..7
    BY <1>3, StepFacts DEF FailToAcquire, AfterFailure, Attributes
  <2>2. k <= 4 /\ (at = 7 => k = 4)
    BY <2>1 DEF Holds, Have
  <2>3. Holds(k)'
    BY <1>1, <2>1, <2>2 DEF Holds
  <2> QED
    BY <1>1, <2>1, <2>3 DEF Attributes, InCall
<1>4. ASSUME NEW ok \in BOOLEAN, InitWrite(ok) PROVE CoreInv'
  <2>1. /\ bind = "write" /\ UNCHANGED <<sysfs, drvdata>> /\ ~drvdata
        /\ \/ bind' = "attach" /\ at' = 1
           \/ bind' = "write" /\ at' = at + 1 /\ at # 4
    BY <1>4, StepFacts DEF InitWrite, Attributes
  <2>2. Holds(k)'
    BY <1>1, <2>1 DEF Holds
  <2> QED
    BY <1>1, <2>1, <2>2 DEF Attributes, InCall
<1>5. CASE Attach
  <2>1. bind = "attach" /\ bind' = "bound" /\ drvdata' = TRUE /\ UNCHANGED <<sysfs, at>>
    BY <1>5 DEF Attach
  <2>2. Holds(k)'
    BY <1>1, <2>1 DEF Holds
  <2> QED
    BY <1>1, <2>1, <2>2 DEF Attributes, InCall
<1>6. CASE SpiRemove
  <2>1. bind = "bound" /\ bind' = "hide" /\ at' = 1 /\ UNCHANGED <<sysfs, drvdata>>
    BY <1>6 DEF SpiRemove
  <2>2. CASE drvdata
    <3>1. Holds(k)'
      BY <1>1, <2>1, <2>2 DEF Holds
    <3> QED
      BY <1>1, <2>1, <3>1 DEF Attributes, InCall
  <2>3. CASE ~drvdata
    BY <2>1, <2>3 DEF Attributes
  <2> QED
    BY <2>2, <2>3
<1>7. CASE Hide
  <2>1. /\ bind = "hide" /\ at = 1 /\ at' = 2 /\ sysfs' = FALSE /\ UNCHANGED <<bind, drvdata>>
    BY <1>7 DEF Hide
  <2>2. Holds(k)'
    BY <1>1, <2>1 DEF Holds
  <2>3. CoreTypes'
    <3>1. at' \in 1..7
      BY <2>1
    <3>2. sysfs' \in BOOLEAN /\ bind' # "write"
      BY <2>1
    <3> QED
      BY <1>1, <2>1, <3>1, <3>2
  <2>4. Attributes'
    BY <1>1, <2>1 DEF Attributes, InCall
  <2> QED
    BY <2>2, <2>3, <2>4
<1>8. CASE Drain
  <2>1. /\ bind = "hide" /\ at = 2 /\ at' = 1 /\ UNCHANGED <<sysfs, drvdata>>
        /\ bind' = (IF drvdata THEN "unregister" ELSE "release")
        /\ \A u \in User : pc[u] = "idle"
    BY <1>8 DEF Drain, Drained
  <2>2. Holds(k)'
    BY <1>1, <2>1 DEF Holds
  <2> QED
    BY <1>1, <2>1, <2>2 DEF Attributes, InCall
<1>9. CASE Unbound
  <2>1. /\ bind = "release" /\ bind' = "unbound" /\ devres = <<>> /\ drvdata' = FALSE
        /\ UNCHANGED <<sysfs, at>>
    BY <1>9 DEF Unbound
  <2>2. k = 0
    BY <2>1, StackFacts DEF Holds
  <2>3. Holds(k)'
    BY <1>1, <2>1, <2>2 DEF Holds
  <2> QED
    BY <1>1, <2>1, <2>3 DEF Attributes, InCall
<1>10. ASSUME NEW ok \in BOOLEAN, Standby(ok) PROVE CoreInv'
  <2>1. bind = "standby" /\ bind' = "release" /\ UNCHANGED <<at, sysfs, drvdata>>
    BY <1>10 DEF Standby
  <2>2. Holds(k)'
    BY <1>1, <2>1 DEF Holds
  <2> QED
    BY <1>1, <2>1, <2>2 DEF Attributes, InCall
<1> QED
  BY <1>2, <1>3, <1>4, <1>5, <1>6, <1>7, <1>8, <1>9, <1>10

LEMMA ReleaseKeeps == ASSUME CoreInv, Unregister \/ DevresRelease PROVE CoreInv'
<1> PICK k \in 0..5 : Holds(k)
  BY DEF CoreInv
<1>1. UNCHANGED <<at, sysfs, drvdata, pc, irq>> /\ devres' = Front(devres)
  BY DEF Unregister, DevresRelease, userVars, irqVars
<1>2. CASE Unregister
  <2>1. bind = "unregister" /\ bind' = "standby" /\ k = 5
    BY <1>2 DEF Unregister, Holds
  <2>2. devres' = Stack(4)
    BY <1>1, <2>1, StackFacts DEF Holds
  <2>3. Holds(4)'
    BY <1>1, <2>1, <2>2 DEF Holds
  <2> QED
    BY <1>1, <2>1, <2>3 DEF CoreInv, CoreTypes, Attributes, InCall
<1>3. CASE DevresRelease
  <2>1. /\ bind = "release" /\ bind' = bind /\ k \in 1..4
        /\ Last(devres) = "irq" => irq = "idle"
    BY <1>3, StackFacts DEF DevresRelease, Released, Holds
  <2>2. devres' = Stack(k - 1) /\ Last(devres) = Resource[k]
    BY <1>1, <2>1, StackFacts DEF Holds
  <2>3. irq = "idle"
    BY <2>1, <2>2 DEF Holds, Resource, CoreInv, CoreTypes
  <2>4. Holds(k - 1)' /\ k - 1 \in 0..5
    BY <1>1, <2>1, <2>2, <2>3 DEF Holds
  <2> QED
    BY <1>1, <2>1, <2>4 DEF CoreInv, CoreTypes, Attributes, InCall
<1> QED
  BY <1>2, <1>3

LEMMA IrqKeeps == ASSUME CoreInv, Tap \/ Irq PROVE CoreInv'
<1> PICK k \in 0..5 : Holds(k)
  BY DEF CoreInv
<1>1. UNCHANGED <<bind, at, devres, sysfs, drvdata, pc>>
  BY DEF Tap, Irq, Fire, Sync, ReadStatus, ReadSource, SendKeyEvents, coreVars, userVars
<1>2. /\ irq' \in {"idle", "status", "source", "press", "sync", "release", "lastSync"}
      /\ irq' # "idle" => irq # "idle" \/ "irq" \in ToSet(devres)
  BY DEF Tap, Irq, Fire, Sync, AfterSync, ReadStatus, ReadSource, SendKeyEvents, irqVars,
     CoreInv, CoreTypes
<1>3. Holds(k)'
  BY <1>1, <1>2, HeldOnes DEF Holds
<1> QED
  BY <1>1, <1>2, <1>3 DEF CoreInv, CoreTypes, Attributes, InCall

LEMMA CallKeeps ==
  ASSUME CoreInv, NEW u \in User, NEW a \in {"read", "rate"}, NEW v, Call(u, a, v)
  PROVE  CoreInv'
<1> PICK k \in 0..5 : Holds(k)
  BY DEF CoreInv
<1>1. /\ UNCHANGED <<bind, at, devres, sysfs, drvdata, irq>> /\ sysfs
      /\ pc' = [pc EXCEPT ![u] = IF drvdata THEN a ELSE "oops"]
  BY DEF Call, coreVars, irqVars
<1>2. Holds(k)' /\ CoreTypes'
  BY <1>1 DEF Holds, CoreInv, CoreTypes
<1>3. Attributes'
  BY <1>1 DEF Attributes, InCall, CoreInv, CoreTypes
<1> QED
  BY <1>2, <1>3 DEF CoreInv

LEMMA UserKeeps == ASSUME CoreInv, NEW u \in User, UserStep(u) PROVE CoreInv'
<1> PICK k \in 0..5 : Holds(k)
  BY DEF CoreInv
<1>1. UNCHANGED <<bind, at, devres, sysfs, drvdata, irq>> /\ InCall(u)
  BY DEF UserStep, RefuseRate, RateStore, SaveAxis, RateWrite, ReadBlock, coreVars, irqVars,
     InCall, CoreInv, CoreTypes, Axis, ToSet
<1>2. \E l \in {"idle", "bwRate", "x", "y", "z"} : pc' = [pc EXCEPT ![u] = l]
  BY DEF UserStep, RefuseRate, RateStore, SaveAxis, RateWrite, ReadBlock, Return
<1>3. Holds(k)' /\ CoreTypes'
  BY <1>1, <1>2 DEF Holds, CoreInv, CoreTypes
<1>4. Attributes'
  BY <1>1, <1>2 DEF Attributes, InCall, CoreInv, CoreTypes
<1> QED
  BY <1>3, <1>4 DEF CoreInv

LEMMA CoreNext == CoreInv /\ [Next]_vars => CoreInv'
<1> SUFFICES ASSUME CoreInv, [Next]_vars PROVE CoreInv'
  OBVIOUS
<1>1. CASE UNCHANGED vars
  <2>1. UNCHANGED <<bind, at, devres, sysfs, drvdata, irq, pc>>
    BY <1>1 DEF vars, coreVars, irqVars, userVars
  <2>2. \A k \in 0..5 : Holds(k) => Holds(k)'
    BY <2>1 DEF Holds
  <2> QED
    BY <2>1, <2>2 DEF CoreInv, CoreTypes, Attributes, InCall
<1>2. CASE CoreStep
  BY <1>2, AcquireKeeps, CoreMoveKeeps, ReleaseKeeps DEF CoreStep
<1>3. CASE Tap \/ Irq
  BY <1>3, IrqKeeps
<1>4. ASSUME NEW u \in User, Call(u, "read", 0) \/ \E r \in Rates : Call(u, "rate", r)
      PROVE  CoreInv'
  BY <1>4, CallKeeps
<1> QED
  BY <1>1, <1>2, <1>3, <1>4, CoreMoveKeeps, UserKeeps DEF Next

LEMMA CoreInvariant == Spec => []CoreInv
  BY CoreInit, CoreNext, PTL DEF Spec

(* NoUseAfterFree: the interrupt handler and the attributes use the        *)
(* private data and the input device only while these are allocated.       *)
THEOREM NothingFreedIsUsed == Spec => []NoUseAfterFree
<1>1. CoreInv => NoUseAfterFree
  <2> SUFFICES ASSUME CoreInv PROVE NoUseAfterFree
    OBVIOUS
  <2> PICK k \in 0..5 : Holds(k)
    BY DEF CoreInv
  <2>1. irq # "idle" => k >= 2
    BY DEF Holds
  <2>2. (\E u \in User : InCall(u)) => k >= 2
    BY DEF CoreInv, Attributes, Holds, Have, InCall
  <2> QED
    BY <2>1, <2>2, HeldOnes DEF NoUseAfterFree, Holds
<1> QED
  BY <1>1, CoreInvariant, PTL

-----------------------------------------------------------------------------
(* The key is down only inside adxl345_do_tap, what waits for a            *)
(* synchronisation is the event that the handler has just reported, and    *)
(* listeners who have the button down will be told its release: the key    *)
(* is down, or the release waits to be synchronised.                       *)
Handler ==
  /\ heard \in Seq({0, 1})
  /\ {key, listening, stat, int} \subseteq BOOLEAN
  /\ key => stat /\ irq \in {"sync", "release"}
  /\ \/ frame = <<>>
     \/ frame = <<1>> /\ irq = "sync" /\ (listening => key)
     \/ frame = <<0>> /\ irq = "lastSync"

Registered ==
  /\ listening => bind \in {"write", "attach", "bound", "hide", "unregister"}
  /\ listening /\ bind = "hide" => drvdata
  /\ bind = "probe" => frame = <<>>

Told ==
  listening /\ ~ButtonUp => \/ irq = "release" /\ key
                            \/ irq = "lastSync" /\ frame = <<0>>

Alternates(h) == \A i \in 1..(Len(h) - 1) : h[i] = 1 => h[i + 1] = 0

(* A press that the listeners have not got yet, and a tap that the handler *)
(* has not read yet, have each their tap.                                  *)
Owing == irq \in {"press", "sync"}

TapsCounted ==
  /\ {presses, taps, faults} \subseteq Nat
  /\ faults = 0 => /\ presses <= taps
                   /\ Owing \/ int => presses + 1 <= taps
                   /\ Owing /\ int => presses + 2 <= taps

TouchInv == Handler /\ Registered /\ Told /\ Alternates(heard) /\ TapsCounted

LEMMA HeardOneMore ==
  ASSUME NEW h \in Seq({0, 1}), NEW e \in {0, 1}
  PROVE  /\ h \o <<e>> = Append(h, e) /\ Append(h, e) \in Seq({0, 1})
         /\ Append(h, e) # <<>> /\ Last(Append(h, e)) = e
         /\ Alternates(h) /\ (e = 0 \/ h = <<>> \/ Last(h) = 0) => Alternates(Append(h, e))
<1> DEFINE g == Append(h, e)
<1>1. h \o <<e>> = g /\ g \in Seq({0, 1})
  OBVIOUS
<1>2. /\ Len(h) \in Nat /\ Len(g) = Len(h) + 1 /\ g[Len(h) + 1] = e
      /\ \A i \in 1..Len(h) : g[i] = h[i]
  OBVIOUS
<1>3. g # <<>>
  <2>1. Len(g) # 0 /\ Len(<<>>) = 0
    BY <1>2
  <2> QED
    BY <2>1
<1>4. Last(g) = e
  BY <1>2, Zenon DEF Last
<1>5. ASSUME Alternates(h), e = 0 \/ h = <<>> \/ Last(h) = 0 PROVE Alternates(g)
  <2> SUFFICES ASSUME NEW i \in 1..(Len(g) - 1), g[i] = 1 PROVE g[i + 1] = 0
    BY DEF Alternates
  <2>1. i \in 1..Len(h)
    BY <1>2
  <2>2. CASE i = Len(h)
    <3>1. h # <<>> /\ g[i + 1] = e /\ h[i] = 1 /\ Last(h) = h[i]
      BY <1>2, <2>1, <2>2 DEF Last
    <3> QED
      BY <1>5, <3>1
  <2>3. CASE i # Len(h)
    <3>1. i \in 1..(Len(h) - 1) /\ i + 1 \in 1..Len(h)
      BY <1>2, <2>1, <2>3
    <3> QED
      BY <1>2, <1>5, <2>1, <3>1 DEF Alternates
  <2> QED
    BY <2>2, <2>3
<1> QED
  BY <1>1, <1>3, <1>4, <1>5

LEMMA OnesInFrame ==
  /\ Cardinality({i \in DOMAIN <<>> : <<>>[i] = 1}) = 0
  /\ Cardinality({i \in DOMAIN <<0>> : <<0>>[i] = 1}) = 0
  /\ Cardinality({i \in DOMAIN <<1>> : <<1>>[i] = 1}) = 1
<1>1. {i \in DOMAIN <<>> : <<>>[i] = 1} = {}
  OBVIOUS
<1>2. {i \in DOMAIN <<0>> : <<0>>[i] = 1} = {}
  OBVIOUS
<1>3. {i \in DOMAIN <<1>> : <<1>>[i] = 1} = {1}
  OBVIOUS
<1> QED
  BY <1>1, <1>2, <1>3, FS_EmptySet, FS_Singleton

LEMMA TouchInit == Init => TouchInv
<1> SUFFICES ASSUME Init PROVE TouchInv
  OBVIOUS
<1>1. Handler /\ Registered /\ Told
  <2>1. /\ heard = <<>> /\ frame = <<>> /\ bind = "unbound" /\ key = FALSE
        /\ listening = FALSE /\ stat = FALSE /\ int = FALSE
    BY DEF Init
  <2>2. <<>> \in Seq({0, 1})
    OBVIOUS
  <2>3. Handler
    BY <2>1, <2>2, Zenon DEF Handler
  <2> QED
    BY <2>1, <2>3, Zenon DEF Registered, Told
<1>2. Alternates(heard)
  BY DEF Init, Alternates
<1>3. TapsCounted
  BY DEF Init, TapsCounted, Owing
<1> QED
  BY <1>1, <1>2, <1>3 DEF TouchInv

(* What the driver core and the users do leaves the handler and the input  *)
(* device alone, except for registering and unregistering it.              *)
LEMMA TouchQuiet ==
  ASSUME CoreInv, TouchInv, UNCHANGED <<inputVars, irqVars, int, taps>>,
         faults' \in {faults, faults + 1},
         \/ UNCHANGED <<bind, drvdata>>
         \/ bind' = "probe" /\ irq = "idle"
         \/ bind' \notin {"probe", "hide"} /\ ~listening
         \/ bind' = "hide" /\ (listening => drvdata') 
         \/ bind' \in {"write", "attach", "bound", "unregister"},
         bind' = "probe" => ~listening
  PROVE  TouchInv'
<1>1. UNCHANGED <<listening, key, frame, heard, presses, irq, stat, int, taps>>
  BY DEF inputVars, irqVars
<1>2. Handler' /\ Told'
  BY <1>1 DEF TouchInv, Handler, Told, ButtonUp
<1>3. Alternates(heard)'
  BY <1>1 DEF TouchInv
<1>4. TapsCounted'
  BY <1>1 DEF TouchInv, TapsCounted, Owing
<1>5. Registered'
  BY <1>1 DEF TouchInv, Registered, Handler
<1> QED
  BY <1>2, <1>3, <1>4, <1>5 DEF TouchInv

LEMMA TouchCore ==
  ASSUME CoreInv, TouchInv,
         \/ Probe \/ FailToAcquire \/ Attach \/ SpiRemove \/ Hide \/ Drain \/ Unbound
         \/ DevresRelease
         \/ \E ok \in BOOLEAN : InitWrite(ok) \/ Standby(ok)
  PROVE  TouchInv'
<1> PICK k \in 0..5 : Holds(k)
  BY DEF CoreInv
<1> USE DEF CoreInv, Attributes, TouchInv, Registered
<1>1. UNCHANGED <<inputVars, irqVars, int, taps>>
  BY DEF Probe, FailToAcquire, Attach, SpiRemove, Hide, Drain, Unbound, DevresRelease,
     InitWrite, Standby, chipVars
<1>2. faults' \in {faults, faults + 1}
  BY DEF Probe, FailToAcquire, Attach, SpiRemove, Hide, Drain, Unbound, DevresRelease,
     InitWrite, Standby, Fault
<1>3. CASE Probe
  BY <1>1, <1>2, <1>3, TouchQuiet DEF Probe, Holds
<1>4. CASE FailToAcquire
  BY <1>1, <1>2, <1>4, TouchQuiet DEF FailToAcquire, AfterFailure
<1>5. CASE Attach \/ \E ok \in BOOLEAN : InitWrite(ok)
  BY <1>1, <1>2, <1>5, TouchQuiet DEF Attach, InitWrite
<1>6. CASE SpiRemove \/ Hide \/ Drain
  BY <1>1, <1>2, <1>6, TouchQuiet DEF SpiRemove, Hide, Drain
<1>7. CASE Unbound \/ DevresRelease \/ \E ok \in BOOLEAN : Standby(ok)
  BY <1>1, <1>2, <1>7, TouchQuiet DEF Unbound, DevresRelease, Standby
<1> QED
  BY <1>3, <1>4, <1>5, <1>6, <1>7

LEMMA TouchUser ==
  ASSUME CoreInv, TouchInv, NEW u \in User,
         UserStep(u) \/ \E a \in {"read", "rate"}, v \in Nat : Call(u, a, v)
  PROVE  TouchInv'
<1>1. UNCHANGED <<inputVars, irqVars, int, taps, bind, drvdata>>
  BY DEF UserStep, RefuseRate, RateStore, SaveAxis, RateWrite, ReadBlock, Call, coreVars, chipVars
<1>2. faults' \in {faults, faults + 1}
  BY DEF UserStep, RefuseRate, RateStore, SaveAxis, RateWrite, ReadBlock, Call, Fault
<1>3. bind = "probe" => ~listening
  BY DEF TouchInv, Registered
<1> QED
  BY <1>1, <1>2, <1>3, TouchQuiet

(* Probe registers the input device: a new listener has the button up,     *)
(* wherever the handler is.                                                *)
LEMMA TouchAcquire == ASSUME CoreInv, TouchInv, Acquire PROVE TouchInv'
<1> PICK k \in 0..5 : Holds(k)
  BY DEF CoreInv
<1>1. /\ bind = "probe" /\ at \in 1..7 /\ k = Have[at] /\ ~listening /\ frame = <<>>
      /\ at = 2 => irq = "idle"
  BY DEF Acquire, CoreInv, CoreTypes, Holds, Have, TouchInv, Registered
<1>2. Steps[at] = "input" => at = 2
  <2>1. at = 1 \/ at = 2 \/ at = 3 \/ at = 4 \/ at = 5 \/ at = 6 \/ at = 7
    BY <1>1
  <2> QED
    BY <2>1, StepFacts
<1>3. Steps[at] = "register" <=> at = 7
  <2>1. at = 1 \/ at = 2 \/ at = 3 \/ at = 4 \/ at = 5 \/ at = 6 \/ at = 7
    BY <1>1
  <2> QED
    BY <2>1, StepFacts
<1>4. /\ key' = (key /\ Steps[at] # "input") /\ frame' = frame
      /\ listening' = (at = 7) /\ heard' = (IF at = 7 THEN <<>> ELSE heard)
      /\ bind' = (IF at = 7 THEN "write" ELSE "probe")
      /\ UNCHANGED <<int, taps, presses, irq, stat, faults>>
  BY <1>1, <1>3, StepFacts DEF Acquire, chipVars, irqVars
<1>5. key' = key
  BY <1>1, <1>2, <1>4 DEF TouchInv, Handler
<1>6. Handler'
  <2>1. heard' \in Seq({0, 1})
    BY <1>4 DEF TouchInv, Handler
  <2>2. listening' \in BOOLEAN
    BY <1>4
  <2> QED
    BY <1>1, <1>4, <1>5, <2>1, <2>2 DEF TouchInv, Handler
<1>7. Registered'
  BY <1>1, <1>4 DEF Registered
<1>8. Told'
  BY <1>1, <1>4 DEF Told, ButtonUp
<1>9. Alternates(heard)'
  <2>1. Alternates(<<>>)
    BY DEF Alternates
  <2> QED
    BY <1>4, <2>1 DEF TouchInv
<1>10. TapsCounted'
  BY <1>4 DEF TouchInv, TapsCounted, Owing
<1> QED
  BY <1>6, <1>7, <1>8, <1>9, <1>10 DEF TouchInv

LEMMA TouchUnregister == ASSUME CoreInv, TouchInv, Unregister PROVE TouchInv'
<1>1. /\ bind = "unregister" /\ bind' = "standby" /\ listening' = FALSE /\ key' = FALSE
      /\ heard' = (IF key THEN Append(heard, 0) ELSE heard)
      /\ UNCHANGED <<frame, irq, stat, int, taps, presses, faults>>
  BY DEF Unregister, KeysReleased, chipVars, irqVars
<1>2. heard' \in Seq({0, 1}) /\ Alternates(heard)'
  <2>1. heard \in Seq({0, 1}) /\ Alternates(heard)
    BY DEF TouchInv, Handler
  <2>2. Append(heard, 0) \in Seq({0, 1}) /\ Alternates(Append(heard, 0))
    BY <2>1, HeardOneMore
  <2> QED
    BY <1>1, <2>1, <2>2
<1>3. Handler'
  BY <1>1, <1>2 DEF TouchInv, Handler
<1>4. Registered' /\ Told'
  BY <1>1 DEF Registered, Told
<1>5. TapsCounted'
  BY <1>1 DEF TouchInv, TapsCounted, Owing
<1> QED
  BY <1>2, <1>3, <1>4, <1>5 DEF TouchInv

(* The chip and the first half of the handler: no event of a key yet.      *)
LEMMA TouchNoEvent ==
  ASSUME TouchInv,
         Tap \/ Fire \/ \E ok, bits \in BOOLEAN : ReadStatus(ok, bits) \/ ReadSource(ok, bits)
  PROVE  TouchInv'
<1>1. UNCHANGED <<listening, key, frame, heard, presses, bind, drvdata>>
  BY DEF Tap, Fire, ReadStatus, ReadSource, inputVars, coreVars
<1>2. /\ Tap => UNCHANGED <<irq, stat>>
      /\ ~Tap => irq \in {"idle", "status", "source"} /\ irq' \in {"status", "source", "press", "lastSync"}
      /\ {stat', int'} \subseteq BOOLEAN
  BY DEF Tap, Fire, ReadStatus, ReadSource, irqVars, chipVars, ClearedByRead, TouchInv, Handler
<1>3. Handler'
  BY <1>1, <1>2 DEF TouchInv, Handler
<1>4. Registered'
  BY <1>1 DEF TouchInv, Registered
<1>5. Told'
  BY <1>1, <1>2 DEF TouchInv, Told, ButtonUp
<1>6. Alternates(heard)'
  BY <1>1 DEF TouchInv
<1>7. TapsCounted'
  <2> USE DEF TouchInv, TapsCounted, Owing
  <2>1. CASE Tap
    BY <1>1, <1>2, <2>1 DEF Tap
  <2>2. CASE Fire
    BY <1>1, <2>2 DEF Fire, chipVars
  <2>3. ASSUME NEW ok \in BOOLEAN, NEW bits \in BOOLEAN, ReadStatus(ok, bits) PROVE TapsCounted'
    <3>1. UNCHANGED <<presses, taps, int>> /\ ~Owing' /\ faults' \in {faults, faults + 1}
      BY <1>1, <2>3 DEF ReadStatus, chipVars, Fault
    <3> QED
      BY <3>1
  <2>4. ASSUME NEW ok \in BOOLEAN, NEW bits \in BOOLEAN, ReadSource(ok, bits) PROVE TapsCounted'
    <3>1. UNCHANGED <<presses, taps>> /\ int' = (int /\ ~ok)
      BY <1>1, <2>4 DEF ReadSource, ClearedByRead
    <3>2. CASE ok
      <4>1. faults' = faults /\ int' = FALSE /\ irq' = (IF int THEN "press" ELSE "lastSync")
        BY <2>4, <3>2 DEF ReadSource, ClearedByRead
      <4> QED
        BY <3>1, <4>1
    <3>3. CASE ~ok
      <4>1. faults' = faults + 1
        BY <2>4, <3>3 DEF ReadSource, Fault
      <4> QED
        BY <3>1, <4>1
    <3> QED
      BY <3>2, <3>3
  <2> QED
    BY <2>1, <2>2, <2>3, <2>4
<1> QED
  BY <1>3, <1>4, <1>5, <1>6, <1>7 DEF TouchInv

LEMMA TouchReport ==
  ASSUME TouchInv, NEW down \in BOOLEAN, SendKeyEvents(down) PROVE TouchInv'
<1>1. /\ irq = (IF down THEN "press" ELSE "release") /\ irq' = (IF down THEN "sync" ELSE "lastSync")
      /\ UNCHANGED <<listening, heard, presses, stat, faults, int, taps, bind, drvdata>>
  BY DEF SendKeyEvents, coreVars, chipVars
<1>2. frame = <<>> /\ (key => ~down /\ stat)
  BY <1>1 DEF TouchInv, Handler
<1>3. /\ key' = (IF stat /\ key # down THEN down ELSE key)
      /\ frame' = (IF (stat /\ key # down) /\ listening
                     THEN Append(frame, IF down THEN 1 ELSE 0) ELSE frame)
  BY DEF SendKeyEvents, ReportKey
<1>4. Append(<<>>, 1) = <<1>> /\ Append(<<>>, 0) = <<0>>
  OBVIOUS
<1>5. {key, stat, listening} \subseteq BOOLEAN
  BY DEF TouchInv, Handler
<1>6. CASE down
  <2>1. /\ key' = stat /\ frame' = (IF stat /\ listening THEN <<1>> ELSE <<>>)
        /\ irq' = "sync" /\ irq = "press" /\ ~key
    BY <1>1, <1>2, <1>3, <1>4, <1>5, <1>6
  <2>2. Handler'
    BY <1>1, <2>1 DEF TouchInv, Handler
  <2>3. Told'
    BY <1>1, <2>1 DEF TouchInv, Told, ButtonUp
  <2>4. TapsCounted'
    BY <1>1, <2>1 DEF TouchInv, TapsCounted, Owing
  <2>5. Registered'
    BY <1>1, <2>1 DEF TouchInv, Registered
  <2> QED
    BY <1>1, <2>2, <2>3, <2>4, <2>5 DEF TouchInv
<1>7. CASE ~down
  <2>1. /\ key' = FALSE /\ frame' = (IF key /\ listening THEN <<0>> ELSE <<>>)
        /\ irq' = "lastSync" /\ irq = "release"
    BY <1>1, <1>2, <1>3, <1>4, <1>5, <1>7
  <2>2. Handler'
    BY <1>1, <2>1 DEF TouchInv, Handler
  <2>3. Told'
    BY <1>1, <2>1 DEF TouchInv, Told, ButtonUp
  <2>4. TapsCounted'
    BY <1>1, <2>1 DEF TouchInv, TapsCounted, Owing
  <2>5. Registered'
    BY <1>1, <2>1 DEF TouchInv, Registered
  <2> QED
    BY <1>1, <2>2, <2>3, <2>4, <2>5 DEF TouchInv
<1> QED
  BY <1>6, <1>7

LEMMA TouchSync == ASSUME TouchInv, Sync PROVE TouchInv'
<1>1. /\ irq \in {"sync", "lastSync"} /\ irq' = (IF irq = "sync" THEN "release" ELSE "idle")
      /\ stat' = (stat /\ irq' # "idle") /\ frame' = <<>>
      /\ UNCHANGED <<listening, key, faults, int, taps, bind, drvdata>>
  BY DEF Sync, InputSync, AfterSync, coreVars, chipVars
<1>2. /\ heard' = (IF listening THEN heard \o frame ELSE heard)
      /\ presses' = (IF listening
                       THEN presses + Cardinality({i \in DOMAIN frame : frame[i] = 1})
                       ELSE presses)
  BY DEF Sync, InputSync
<1>3. heard \in Seq({0, 1}) /\ Alternates(heard) /\ presses \in Nat
  BY DEF TouchInv, Handler, TapsCounted
<1>4. heard \o <<>> = heard
  BY <1>3
<1>5. Registered'
  BY <1>1 DEF TouchInv, Registered
<1>6. CASE ~listening \/ frame = <<>>
  <2>1. heard' = heard /\ presses' = presses
    <3>1. CASE ~listening
      BY <1>2, <3>1, Zenon
    <3>2. CASE listening /\ frame = <<>>
      <4>1. heard' = heard \o <<>> /\ presses' = presses + 0
        BY <1>2, <3>2, OnesInFrame, Zenon
      <4> QED
        BY <1>3, <1>4, <4>1
    <3> QED
      BY <1>6, <3>1, <3>2
  <2>2. Handler'
    BY <1>1, <2>1 DEF TouchInv, Handler
  <2>3. Told'
    BY <1>1, <1>6, <2>1 DEF TouchInv, Told, ButtonUp
  <2>4. TapsCounted'
    BY <1>1, <2>1 DEF TouchInv, TapsCounted, Owing
  <2> QED
    BY <1>5, <2>1, <2>2, <2>3, <2>4 DEF TouchInv
<1>7. CASE listening /\ frame = <<1>>
  <2>1. irq = "sync" /\ key /\ stat /\ ButtonUp
    BY <1>7 DEF TouchInv, Handler, Told
  <2>2. heard' = Append(heard, 1) /\ presses' = presses + 1
    BY <1>2, <1>3, <1>7, HeardOneMore, OnesInFrame
  <2>3. heard' \in Seq({0, 1}) /\ Alternates(heard)'
    <3>1. Append(heard, 1) \in Seq({0, 1}) /\ Alternates(Append(heard, 1))
      BY <1>3, <2>1, HeardOneMore DEF ButtonUp
    <3> QED
      BY <2>2, <3>1
  <2>4. Handler'
    BY <1>1, <2>1, <2>3 DEF TouchInv, Handler
  <2>5. Told'
    BY <1>1, <2>1 DEF Told
  <2>6. TapsCounted'
    BY <1>1, <2>1, <2>2 DEF TouchInv, TapsCounted, Owing
  <2> QED
    BY <1>5, <2>3, <2>4, <2>5, <2>6 DEF TouchInv
<1>8. CASE listening /\ frame = <<0>>
  <2>1. irq = "lastSync" /\ ~key
    BY <1>8 DEF TouchInv, Handler
  <2>2. heard' = Append(heard, 0) /\ presses' = presses
    BY <1>2, <1>3, <1>8, HeardOneMore, OnesInFrame
  <2>3. heard' \in Seq({0, 1}) /\ Alternates(heard)' /\ ButtonUp'
    <3>1. /\ Append(heard, 0) \in Seq({0, 1}) /\ Alternates(Append(heard, 0))
          /\ Last(Append(heard, 0)) = 0
      BY <1>3, HeardOneMore
    <3> QED
      BY <2>2, <3>1 DEF ButtonUp
  <2>4. Handler'
    BY <1>1, <2>1, <2>3 DEF TouchInv, Handler
  <2>5. Told'
    BY <2>3 DEF Told
  <2>6. TapsCounted'
    BY <1>1, <2>1, <2>2 DEF TouchInv, TapsCounted, Owing
  <2> QED
    BY <1>5, <2>3, <2>4, <2>5, <2>6 DEF TouchInv
<1> QED
  BY <1>6, <1>7, <1>8 DEF TouchInv, Handler

LEMMA TouchNext == CoreInv /\ TouchInv /\ [Next]_vars => TouchInv'
<1> SUFFICES ASSUME CoreInv, TouchInv, [Next]_vars PROVE TouchInv'
  OBVIOUS
<1>1. CASE UNCHANGED vars
  <2>1. /\ UNCHANGED <<inputVars, irqVars, int, taps, bind, drvdata>>
        /\ faults' \in {faults, faults + 1}
    BY <1>1 DEF vars, coreVars, chipVars
  <2>2. bind = "probe" => ~listening
    BY DEF TouchInv, Registered
  <2> QED
    BY <2>1, <2>2, TouchQuiet
<1>2. CASE CoreStep \/ Probe \/ SpiRemove
  BY <1>2, TouchCore, TouchAcquire, TouchUnregister DEF CoreStep
<1>3. CASE Tap \/ Irq
  BY <1>3, TouchNoEvent, TouchReport, TouchSync DEF Irq
<1>4. ASSUME NEW u \in User, \/ Call(u, "read", 0) \/ UserStep(u)
                             \/ \E r \in Rates : Call(u, "rate", r)
      PROVE  TouchInv'
  BY <1>4, TouchUser, AccelAssumption
<1> QED
  BY <1>1, <1>2, <1>3, <1>4 DEF Next

(* TouchMeansTap: listeners never get two presses in a row, have the       *)
(* button up whenever the handler rests, and get no more presses than      *)
(* there were taps if no transfer failed.                                  *)
THEOREM PressesAreTaps == Spec => []TouchMeansTap
<1>1. TouchInv => TouchMeansTap
  BY DEF TouchInv, Told, Alternates, TapsCounted, TouchMeansTap
<1> QED
  BY <1>1, CoreInvariant, TouchInit, TouchNext, PTL DEF Spec

-----------------------------------------------------------------------------
(* As long as no two calls overlapped there is one caller at most; a rate  *)
(* and a position that are being stored are the caller's.                  *)
OneCaller ==
  ~overlap => \A u, w \in User : pc[u] # "idle" /\ pc[w] # "idle" => u = w

RateWritten == bind \in {"attach", "bound"} \/ (bind = "write" /\ at > 2)

RateKept ==
  /\ dataRate \in 0..15 /\ val \in [User -> Int] /\ faults \in Nat
  /\ \A u \in User : pc[u] = "rate" => val[u] \in Nat
  /\ ~overlap => \A u \in User : pc[u] = "bwRate" => dataRate = Rate(val[u])
  /\ ~overlap /\ faults = 0 /\ RateWritten /\ (\A u \in User : pc[u] # "bwRate") =>
       bwRate = dataRate

Allocated == bind \in {"write", "attach", "bound"} \/ (bind = "probe" /\ at > 1)

PositionKept ==
  /\ saved \in [{"x", "y", "z"} -> Int]
  /\ \A u \in User : pc[u] \in {"x", "y", "z"} => val[u] \in Samples
  /\ ~overlap => \A u \in User : /\ pc[u] \in {"y", "z"} => saved["x"] = val[u]
                                 /\ pc[u] = "z" => saved["y"] = val[u]
  /\ ~overlap /\ Allocated /\ (\A u \in User : pc[u] \notin {"y", "z"}) =>
       /\ saved["x"] \in Samples \cup {0}
       /\ saved["y"] = saved["x"] /\ saved["z"] = saved["x"]

AgreeInv == OneCaller /\ RateKept /\ PositionKept

LEMMA BitsKeepTheValue ==
  /\ \A r \in 0..15 : Rate(r) = r
  /\ \A x \in Nat : Rate(x) \in 0..15
  /\ \A v \in Samples : v \in Int /\ SignExtend32(Le16(v)) = v
<1>1. \A r \in 0..15 : Rate(r) = r
  BY DEF Rate
<1>2. \A x \in Nat : Rate(x) \in 0..15
  BY DEF Rate
<1>3. ASSUME NEW v \in Samples PROVE v \in Int /\ SignExtend32(Le16(v)) = v
  <2>1. v \in -4096..4095
    <3>1. Full \in Int /\ 1 <= Full /\ Full <= 4096
      BY AccelAssumption
    <3>2. v = -Full \/ v = Full - 1
      BY DEF Samples
    <3>3. v \in Int /\ -4096 <= v /\ v <= 4095
      BY <3>1, <3>2
    <3> QED
      BY <3>3
  <2>2. (v % 65536) % 8192 = (IF v >= 0 THEN v ELSE v + 8192)
    BY <2>1
  <2> QED
    BY <2>1, <2>2 DEF SignExtend32, Le16
<1> QED
  BY <1>1, <1>2, <1>3

LEMMA AgreeInit == Init => AgreeInv
<1> SUFFICES ASSUME Init PROVE AgreeInv
  OBVIOUS
<1>1. /\ bind = "unbound" /\ dataRate = 0 /\ faults = 0 /\ \A u \in User : pc[u] = "idle"
      /\ val = [u \in User |-> 0] /\ saved = [a \in {"x", "y", "z"} |-> 0]
  BY DEF Init, Axis, ToSet
<1>2. OneCaller
  BY <1>1 DEF OneCaller
<1>3. RateKept
  BY <1>1 DEF RateKept, RateWritten
<1>4. PositionKept
  BY <1>1 DEF PositionKept, Allocated
<1> QED
  BY <1>2, <1>3, <1>4 DEF AgreeInv

LEMMA AgreeQuiet ==
  ASSUME AgreeInv, UNCHANGED <<dataRate, saved, pc, val, overlap, bwRate>>,
         faults' \in {faults, faults + 1}, RateWritten' => RateWritten, Allocated' => Allocated
  PROVE  AgreeInv'
<1>1. OneCaller'
  BY DEF AgreeInv, OneCaller
<1>2. RateKept'
  BY DEF AgreeInv, RateKept
<1>3. PositionKept'
  BY DEF AgreeInv, PositionKept
<1> QED
  BY <1>1, <1>2, <1>3 DEF AgreeInv

LEMMA AgreeOthers ==
  ASSUME CoreInv, AgreeInv,
         \/ Probe \/ FailToAcquire \/ Attach \/ SpiRemove \/ Hide \/ Drain \/ Unbound
         \/ Unregister \/ DevresRelease \/ Tap \/ Irq \/ UNCHANGED vars
         \/ \E ok \in BOOLEAN : Standby(ok)
  PROVE  AgreeInv'
<1>1. UNCHANGED <<dataRate, saved, pc, val, overlap, bwRate>>
  BY DEF Probe, FailToAcquire, Attach, SpiRemove, Hide, Drain, Unbound, Unregister,
     DevresRelease, Standby, Tap, Irq, Fire, Sync, ReadStatus, ReadSource, SendKeyEvents,
     chipVars, userVars, vars
<1>2. faults' \in {faults, faults + 1}
  BY DEF Probe, FailToAcquire, Attach, SpiRemove, Hide, Drain, Unbound, Unregister,
     DevresRelease, Standby, Tap, Irq, Fire, Sync, ReadStatus, ReadSource, SendKeyEvents,
     Fault, vars
<1>3. (RateWritten' => RateWritten) /\ (Allocated' => Allocated)
  BY DEF Probe, FailToAcquire, AfterFailure, Attach, SpiRemove, Hide, Drain, Unbound, Unregister,
     DevresRelease, Standby, Tap, Irq, Fire, Sync, ReadStatus, ReadSource, SendKeyEvents,
     coreVars, vars, RateWritten, Allocated, CoreInv, CoreTypes
<1> QED
  BY <1>1, <1>2, <1>3, AgreeQuiet

(* While probe runs nobody is in an attribute, other than the ones that    *)
(* died there.                                                             *)
LEMMA NobodyInProbe ==
  ASSUME CoreInv, bind \in {"probe", "write", "attach"}
  PROVE  \A u \in User : pc[u] \in {"idle", "oops"}
  BY DEF CoreInv, CoreTypes, Attributes, InCall

LEMMA AgreeProbe ==
  ASSUME CoreInv, AgreeInv, Acquire \/ \E ok \in BOOLEAN : InitWrite(ok) PROVE AgreeInv'
<1>1. CASE Acquire
  <2>1. /\ bind = "probe" /\ UNCHANGED <<pc, val, overlap, bwRate, faults>> /\ at \in 1..7
        /\ dataRate' = (IF Steps[at] = "ac" THEN DefaultRate ELSE dataRate)
        /\ saved' = (IF Steps[at] = "ac" THEN [a \in ToSet(Axis) |-> 0] ELSE saved)
        /\ bind' = "probe" \/ (bind' = "write" /\ at' = 1)
    BY <1>1 DEF Acquire, chipVars, CoreInv, CoreTypes
  <2>2. \A u \in User : pc[u] \in {"idle", "oops"}
    BY <2>1, NobodyInProbe
  <2>3. OneCaller'
    BY <2>1 DEF AgreeInv, OneCaller
  <2>4. RateKept'
    BY <2>1, <2>2 DEF AgreeInv, RateKept, RateWritten, DefaultRate
  <2>5. [a \in ToSet(Axis) |-> 0] = [a \in {"x", "y", "z"} |-> 0]
    BY DEF Axis, ToSet
  <2>6. at > 1 \/ (at = 1 /\ Steps[at] = "ac")
    BY <2>1, StepFacts
  <2>7. PositionKept'
    BY <2>1, <2>2, <2>5, <2>6 DEF AgreeInv, PositionKept, Allocated
  <2> QED
    BY <2>3, <2>4, <2>7 DEF AgreeInv
<1>2. ASSUME NEW ok \in BOOLEAN, InitWrite(ok) PROVE AgreeInv'
  <2>1. /\ bind = "write" /\ UNCHANGED <<pc, val, overlap, dataRate, saved>> /\ at \in 1..4
        /\ IF ok THEN faults' = faults ELSE faults' = faults + 1
        /\ bwRate' = (IF ok /\ InitWrites[at] = "BW_RATE" THEN Rate(dataRate) ELSE bwRate)
        /\ IF at = 4 THEN bind' = "attach" /\ at' = 1 ELSE bind' = "write" /\ at' = at + 1
    BY <1>2, StepFacts DEF InitWrite, userVars, Fault, CoreInv, CoreTypes
  <2>2. \A u \in User : pc[u] \in {"idle", "oops"}
    BY <2>1, NobodyInProbe
  <2>3. OneCaller'
    BY <2>1 DEF AgreeInv, OneCaller
  <2>4. InitWrites[at] = "BW_RATE" <=> at = 2
    <3>1. at = 1 \/ at = 2 \/ at = 3 \/ at = 4
      BY <2>1
    <3> QED
      BY <3>1 DEF InitWrites
  <2>5. Rate(dataRate) = dataRate
    BY BitsKeepTheValue DEF AgreeInv, RateKept
  <2>6. RateKept'
    <3>1. ASSUME ~overlap, faults' = 0, RateWritten' PROVE bwRate' = dataRate'
      <4>1. faults \in Nat /\ ok /\ faults = 0
        BY <2>1, <3>1 DEF AgreeInv, RateKept
      <4>2. CASE at = 2
        BY <2>1, <2>4, <2>5, <4>1, <4>2
      <4>3. CASE at # 2
        <5>1. RateWritten
          BY <2>1, <3>1, <4>3 DEF RateWritten
        <5> QED
          BY <2>1, <2>2, <2>4, <3>1, <4>1, <4>3, <5>1 DEF AgreeInv, RateKept
      <4> QED
        BY <4>2, <4>3
    <3>2. faults' \in Nat
      BY <2>1 DEF AgreeInv, RateKept
    <3> QED
      BY <2>1, <2>2, <3>1, <3>2 DEF AgreeInv, RateKept
  <2>7. PositionKept'
    BY <2>1, <2>2 DEF AgreeInv, PositionKept, Allocated
  <2> QED
    BY <2>3, <2>6, <2>7 DEF AgreeInv
<1> QED
  BY <1>1, <1>2

LEMMA AgreeCall ==
  ASSUME CoreInv, AgreeInv, NEW u \in User, NEW a \in {"read", "rate"}, NEW v \in Nat, Call(u, a, v)
  PROVE  AgreeInv'
<1>1. /\ pc[u] = "idle" /\ UNCHANGED <<dataRate, saved, bwRate, faults, bind, at>>
      /\ pc' = [pc EXCEPT ![u] = IF drvdata THEN a ELSE "oops"]
      /\ val' = [val EXCEPT ![u] = IF drvdata THEN v ELSE 0]
      /\ overlap' = (overlap \/ \E w \in User : pc[w] # "idle")
  BY DEF Call, coreVars, chipVars
<1>2. /\ pc \in [User -> {"idle", "oops", "rate", "bwRate", "read", "x", "y", "z"}]
      /\ val \in [User -> Int]
  BY DEF CoreInv, CoreTypes, AgreeInv, RateKept
<1>3. /\ \A w \in User : w # u => pc'[w] = pc[w] /\ val'[w] = val[w]
      /\ pc'[u] \in {"oops", "read", "rate"} /\ val'[u] \in Nat /\ val' \in [User -> Int]
  BY <1>1, <1>2
<1>4. OneCaller'
  BY <1>1, <1>3 DEF OneCaller
<1>5. RateKept'
  BY <1>1, <1>3 DEF AgreeInv, RateKept, RateWritten
<1>6. PositionKept'
  BY <1>1, <1>3 DEF AgreeInv, PositionKept, Allocated
<1> QED
  BY <1>4, <1>5, <1>6 DEF AgreeInv

LEMMA AgreeUser ==
  ASSUME CoreInv, AgreeInv, NEW u \in User, UserStep(u) PROVE AgreeInv'
<1>1. /\ pc \in [User -> {"idle", "oops", "rate", "bwRate", "read", "x", "y", "z"}]
      /\ val \in [User -> Int] /\ saved \in [{"x", "y", "z"} -> Int] /\ faults \in Nat
  BY DEF CoreInv, CoreTypes, AgreeInv, RateKept, PositionKept
<1>2. UNCHANGED <<overlap, bind, at>> /\ faults' \in {faults, faults + 1}
  BY DEF UserStep, RefuseRate, RateStore, SaveAxis, RateWrite, ReadBlock, coreVars, Fault
<1>3. pc[u] # "idle" /\ \A w \in User : w # u => pc'[w] = pc[w] /\ val'[w] = val[w]
  BY <1>1 DEF UserStep, RefuseRate, RateStore, SaveAxis, RateWrite, ReadBlock, Return, Axis, ToSet
<1>4. ~overlap => \A w \in User : w # u => pc[w] = "idle"
  BY <1>3 DEF AgreeInv, OneCaller
<1>5. OneCaller'
  BY <1>2, <1>3, <1>4 DEF OneCaller
<1>6. RateWritten' = RateWritten /\ Allocated' = Allocated
  BY <1>2 DEF RateWritten, Allocated
<1>7. CASE RefuseRate(u)
  <2>1. /\ UNCHANGED <<dataRate, saved, bwRate, faults>> /\ pc[u] = "rate" /\ pc'[u] = "idle"
        /\ val' \in [User -> Int]
    BY <1>1, <1>7 DEF RefuseRate, Return, chipVars
  <2>2. RateKept'
    BY <1>2, <1>3, <1>6, <2>1 DEF AgreeInv, RateKept
  <2>3. PositionKept'
    BY <1>2, <1>3, <1>6, <2>1 DEF AgreeInv, PositionKept
  <2> QED
    BY <1>5, <2>2, <2>3 DEF AgreeInv
<1>8. CASE RateStore(u)
  <2>1. /\ UNCHANGED <<saved, val, faults>> /\ pc[u] = "rate" /\ pc'[u] = "bwRate"
        /\ dataRate' = Rate(val[u])
    BY <1>1, <1>8 DEF RateStore
  <2>2. dataRate' \in 0..15
    BY <2>1, BitsKeepTheValue DEF AgreeInv, RateKept
  <2>3. RateKept'
    BY <1>1, <1>2, <1>3, <1>4, <1>6, <2>1, <2>2 DEF AgreeInv, RateKept
  <2>4. PositionKept'
    BY <1>2, <1>3, <1>6, <2>1 DEF AgreeInv, PositionKept
  <2> QED
    BY <1>5, <2>3, <2>4 DEF AgreeInv
<1>9. ASSUME NEW ok \in BOOLEAN, RateWrite(u, ok) PROVE AgreeInv'
  <2>1. /\ UNCHANGED <<dataRate, saved>> /\ pc[u] = "bwRate" /\ pc'[u] = "idle"
        /\ val' \in [User -> Int] /\ (~ok => faults' # 0)
        /\ ok => faults' = faults /\ bwRate' = Rate(val[u])
    BY <1>1, <1>9 DEF RateWrite, Return, RateToWrite, Fault
  <2>2. ~overlap => dataRate = Rate(val[u])
    BY <2>1 DEF AgreeInv, RateKept
  <2>3. RateKept'
    BY <1>1, <1>2, <1>3, <1>4, <2>1, <2>2 DEF AgreeInv, RateKept
  <2>4. PositionKept'
    BY <1>2, <1>3, <1>6, <2>1 DEF AgreeInv, PositionKept
  <2> QED
    BY <1>5, <2>3, <2>4 DEF AgreeInv
<1>10. ASSUME NEW ok \in BOOLEAN, NEW v \in Samples, ReadBlock(u, v, ok) PROVE AgreeInv'
  <2>1. /\ UNCHANGED <<dataRate, saved, bwRate>> /\ pc[u] = "read" /\ pc'[u] = "x"
        /\ val' = [val EXCEPT ![u] = SignExtend32(Le16(v))]
    BY <1>1, <1>10 DEF ReadBlock, chipVars
  <2>2. val' \in [User -> Int] /\ val'[u] = v
    BY <1>1, <2>1, BitsKeepTheValue
  <2>3. RateKept'
    BY <1>1, <1>2, <1>3, <1>6, <2>1, <2>2 DEF AgreeInv, RateKept
  <2>4. PositionKept'
    BY <1>2, <1>3, <1>6, <2>1, <2>2 DEF AgreeInv, PositionKept
  <2> QED
    BY <1>5, <2>3, <2>4 DEF AgreeInv
<1>11. CASE SaveAxis(u)
  <2>1. /\ UNCHANGED <<dataRate, bwRate, faults>> /\ pc[u] \in {"x", "y", "z"}
        /\ saved' = [saved EXCEPT ![pc[u]] = val[u]]
        /\ pc'[u] = (IF pc[u] = "x" THEN "y" ELSE IF pc[u] = "y" THEN "z" ELSE "idle")
        /\ pc[u] # "z" => val' = val
        /\ val' \in [User -> Int]
    BY <1>1, <1>11 DEF SaveAxis, Return, chipVars, Axis, ToSet
  <2>2. val[u] \in Samples
    BY <2>1 DEF AgreeInv, PositionKept
  <2>3. /\ saved' \in [{"x", "y", "z"} -> Int] /\ saved'[pc[u]] = val[u]
        /\ \A a \in {"x", "y", "z"} : a # pc[u] => saved'[a] = saved[a]
    BY <1>1, <2>1
  <2>4. RateKept'
    BY <1>1, <1>2, <1>3, <1>6, <2>1 DEF AgreeInv, RateKept
  <2>5. PositionKept'
    <3>1. \A w \in User : pc'[w] \in {"x", "y", "z"} => val'[w] \in Samples
      BY <1>3, <2>1, <2>2 DEF AgreeInv, PositionKept
    <3>2. ASSUME ~overlap, NEW w \in User
          PROVE  /\ pc'[w] \in {"y", "z"} => saved'["x"] = val'[w]
                 /\ pc'[w] = "z" => saved'["y"] = val'[w]
      <4>1. CASE w # u
        BY <1>3, <1>4, <3>2, <4>1
      <4>2. CASE w = u
        BY <2>1, <2>3, <3>2, <4>2 DEF AgreeInv, PositionKept
      <4> QED
        BY <4>1, <4>2
    <3>3. ASSUME ~overlap, \A w \in User : pc'[w] \notin {"y", "z"}
          PROVE  /\ saved'["x"] \in Samples \cup {0}
                 /\ saved'["y"] = saved'["x"] /\ saved'["z"] = saved'["x"]
      <4>1. pc[u] = "z"
        BY <2>1, <3>3
      <4> QED
        BY <2>2, <2>3, <3>3, <4>1 DEF AgreeInv, PositionKept
    <3> QED
      BY <1>2, <2>3, <3>1, <3>2, <3>3 DEF PositionKept
  <2> QED
    BY <1>5, <2>4, <2>5 DEF AgreeInv
<1> QED
  BY <1>7, <1>8, <1>9, <1>10, <1>11 DEF UserStep

LEMMA AgreeNext == CoreInv /\ AgreeInv /\ [Next]_vars => AgreeInv'
<1> SUFFICES ASSUME CoreInv, AgreeInv, [Next]_vars PROVE AgreeInv'
  OBVIOUS
<1>1. ASSUME NEW u \in User, Call(u, "read", 0) \/ \E r \in Rates : Call(u, "rate", r)
      PROVE  AgreeInv'
  BY <1>1, AgreeCall, AccelAssumption
<1> QED
  BY <1>1, AgreeOthers, AgreeProbe, AgreeUser DEF Next, CoreStep

(* SerialCallsAgree: if no two calls overlapped and no transfer failed,    *)
(* between the calls the chip's rate is the reported one and the saved     *)
(* position is one sample.                                                 *)
THEOREM SerialCallsStayConsistent == Spec => []SerialCallsAgree
<1>1. AgreeInv => SerialCallsAgree
  <2> SUFFICES ASSUME AgreeInv, ~overlap, faults = 0, bind = "bound", Drained
               PROVE  /\ bwRate = dataRate
                      /\ saved["x"] \in Samples \cup {0}
                      /\ \A a \in ToSet(Axis) : saved[a] = saved["x"]
    BY DEF SerialCallsAgree
  <2>1. bwRate = dataRate
    BY DEF AgreeInv, RateKept, RateWritten, Drained
  <2>2. /\ saved["x"] \in Samples \cup {0}
        /\ saved["y"] = saved["x"] /\ saved["z"] = saved["x"]
    BY DEF AgreeInv, PositionKept, Allocated, Drained
  <2>3. ToSet(Axis) = {"x", "y", "z"}
    BY DEF Axis, ToSet
  <2> QED
    BY <2>1, <2>2, <2>3
<1> QED
  BY <1>1, CoreInvariant, AgreeInit, AgreeNext, PTL DEF Spec
=============================================================================
