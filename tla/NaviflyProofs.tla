--------------------------- MODULE NaviflyProofs ---------------------------
(***************************************************************************)
(* Proofs about Navifly, for any number of scans, connects and             *)
(* disconnects.                                                            *)
(***************************************************************************)
EXTENDS Navifly, FiniteSetTheorems, TLAPS

NaviTypes ==
  /\ phase \in {"creating", "failed", "ready", "cancel1", "cancel2", "cancel3", "gone"}
  /\ pend \subseteq Works /\ run \subseteq Works
  /\ sem \in {"free", "scan"} /\ scanPc \in {"idle", "report", "clear"}
  /\ op \in {"idle", "scan", "connect", "disconnect"}
  /\ nScan \in 0..MaxScan /\ scanRequest \in 0..nScan
  /\ accepted \subseteq 1..nScan
  /\ done \in [0..MaxScan -> Nat]
  /\ connects \in Nat /\ dummies \in Nat
  /\ answers \in [ok : Nat, timeout : Nat]
  /\ late \in BOOLEAN

(* What is held while the module is loaded, and that nothing of the        *)
(* context is used before it is initialised.                               *)
Resources ==
  /\ phase = "creating" => \E k \in 0..5 : res = Unwinds(k)
  /\ phase = "ready" => res = Unwinds(5)
  /\ phase \in {"failed", "gone"} => res = {}
  /\ phase \in {"creating", "failed"} =>
       /\ pend = {} /\ run = {} /\ scanPc = "idle" /\ op = "idle"
       /\ sem = "free" /\ scanRequest = 0 /\ ssid = Empty

(* The work items that module exit has cancelled, one after the other,     *)
(* stay cancelled unless an operation schedules one late.                  *)
Cancelled ==
  late \/ /\ Exiting => "connect" \notin pend \cup run
          /\ phase \in {"cancel2", "cancel3", "gone"} => "disconnect" \notin pend \cup run
          /\ phase \in {"cancel3", "gone"} => "scan" \notin pend \cup run

(* scan_request is owned by one of: the operation that is about to         *)
(* schedule the work, the pending work, the running work; or module exit   *)
(* has cancelled the work.                                                 *)
ScanOwned ==
  /\ scanPc = "idle" <=> "scan" \notin run
  /\ scanPc = "clear" <=> sem = "scan"
  /\ scanRequest = 0 => "scan" \notin pend /\ scanPc = "idle" /\ op # "scan"
  /\ op = "scan" => /\ "scan" \notin pend /\ scanPc = "idle"
                    /\ scanRequest = nScan /\ done[nScan] = 0
  /\ "scan" \in pend => scanPc = "idle"
  /\ "scan" \in pend \/ scanPc = "report" =>
       scanRequest \in accepted /\ done[scanRequest] = 0
  /\ \A r \in 1..MaxScan : r > nScan => done[r] = 0

(* How many connects wait for their result, without cardinalities.         *)
Waiting(set) == IF "connect" \in set THEN 1 ELSE 0

Answered ==
  /\ ~Exiting => connects = answers.ok + answers.timeout + Waiting(pend) + Waiting(run)
  /\ answers.ok + (IF ssid = Dummy THEN 1 ELSE 0) <= dummies

NaviInv == /\ NaviTypes /\ Resources /\ Cancelled /\ ScanOwned
           /\ ScanReportedOnce /\ Answered

-----------------------------------------------------------------------------
LEMMA StepsAre ==
  /\ Len(Steps) = 5
  /\ \A i, j \in 1..5 : Steps[i] = Steps[j] => i = j
  BY DEF Steps

LEMMA UnwindsGrow ==
  ASSUME NEW k \in 0..4
  PROVE  /\ Unwinds(k + 1) = Unwinds(k) \cup {Steps[k + 1]}
         /\ Steps[k + 1] \notin Unwinds(k)
<1>1. \A i \in 1..(k + 1) : i \in 1..k \/ i = k + 1
  OBVIOUS
<1>2. 1..k \subseteq 1..5 /\ k + 1 \in 1..5 /\ k + 1 \notin 1..k /\ 1..k \subseteq 1..(k + 1)
  OBVIOUS
<1>3. Unwinds(k + 1) = Unwinds(k) \cup {Steps[k + 1]}
  <2>1. \A x : x \in Unwinds(k + 1) <=> \E i \in 1..(k + 1) : x = Steps[i]
    BY DEF Unwinds
  <2>2. \A x : x \in Unwinds(k) <=> \E i \in 1..k : x = Steps[i]
    BY DEF Unwinds
  <2> QED
    BY <1>1, <1>2, <2>1, <2>2
<1>4. Steps[k + 1] \notin Unwinds(k)
  <2> SUFFICES ASSUME NEW i \in 1..k, Steps[k + 1] = Steps[i] PROVE FALSE
    BY DEF Unwinds
  <2>1. i \in 1..5 /\ k + 1 \in 1..5 /\ i # k + 1
    OBVIOUS
  <2> QED
    BY <2>1, StepsAre
<1> QED
  BY <1>3, <1>4

(* As many resources are held as steps were taken.                         *)
LEMMA UnwindsCount ==
  \A k \in 0..5 : IsFiniteSet(Unwinds(k)) /\ Cardinality(Unwinds(k)) = k
<1> DEFINE P(k) == IsFiniteSet(Unwinds(k)) /\ Cardinality(Unwinds(k)) = k
<1>1. P(0)
  <2>1. Unwinds(0) = {}
    BY DEF Unwinds
  <2> QED
    BY <2>1, FS_EmptySet
<1>2. ASSUME NEW k \in 0..4, P(k) PROVE P(k + 1)
  <2>1. /\ Unwinds(k + 1) = Unwinds(k) \cup {Steps[k + 1]}
        /\ Steps[k + 1] \notin Unwinds(k)
    BY UnwindsGrow
  <2>2. /\ IsFiniteSet(Unwinds(k) \cup {Steps[k + 1]})
        /\ Cardinality(Unwinds(k) \cup {Steps[k + 1]}) = Cardinality(Unwinds(k)) + 1
    BY <1>2, <2>1, FS_AddElement
  <2> QED
    BY <1>2, <2>1, <2>2
<1>3. P(1) /\ P(2)
  BY <1>1, <1>2
<1>4. P(3) /\ P(4)
  BY <1>3, <1>2
<1>5. P(5)
  BY <1>4, <1>2
<1> HIDE DEF P
<1>6. \A k \in 0..5 : P(k)
  <2> SUFFICES ASSUME NEW k \in 0..5 PROVE P(k)
    OBVIOUS
  <2>1. k = 0 \/ k = 1 \/ k = 2 \/ k = 3 \/ k = 4 \/ k = 5
    OBVIOUS
  <2> QED
    BY <1>1, <1>3, <1>4, <1>5, <2>1
<1> QED
  BY <1>6 DEF P

LEMMA WaitingIsCount ==
  ASSUME NEW S
  PROVE  Cardinality({"connect"} \cap S) = Waiting(S)
<1>1. CASE "connect" \in S
  <2>1. {"connect"} \cap S = {"connect"}
    BY <1>1
  <2> QED
    BY <1>1, <2>1, FS_Singleton DEF Waiting
<1>2. CASE "connect" \notin S
  <2>1. {"connect"} \cap S = {}
    BY <1>2
  <2> QED
    BY <1>2, <2>1, FS_EmptySet DEF Waiting
<1> QED
  BY <1>1, <1>2

LEMMA SsidsDiffer == Dummy # Other /\ Dummy # Empty /\ Other # Empty
<1>1. \A a, b : Cardinality({a, b}) # 3
  <2> SUFFICES ASSUME NEW a, NEW b PROVE Cardinality({a, b}) # 3
    OBVIOUS
  <2>1. IsFiniteSet({a}) /\ Cardinality({a}) = 1
    BY FS_Singleton
  <2>2. Cardinality({a} \cup {b}) \in {1, 2}
    BY <2>1, FS_AddElement
  <2>3. {a} \cup {b} = {a, b}
    OBVIOUS
  <2> QED
    BY <2>2, <2>3
<1>2. /\ Dummy = Other => {Dummy, Other, Empty} = {Dummy, Empty}
      /\ Dummy = Empty => {Dummy, Other, Empty} = {Dummy, Other}
      /\ Other = Empty => {Dummy, Other, Empty} = {Dummy, Other}
  OBVIOUS
<1> QED
  BY <1>1, <1>2, NaviflyAssumption

LEMMA NaviInit == Init => NaviInv
<1> SUFFICES ASSUME Init PROVE NaviInv
  OBVIOUS
<1> USE NaviflyAssumption DEF Init
<1>1. NaviTypes
  <2>1. nScan \in 0..MaxScan /\ scanRequest \in 0..nScan /\ accepted \subseteq 1..nScan
    OBVIOUS
  <2>2. done \in [0..MaxScan -> Nat] /\ answers \in [ok : Nat, timeout : Nat]
    OBVIOUS
  <2> QED
    BY <2>1, <2>2 DEF NaviTypes
<1>2. Resources
  <2>1. Unwinds(0) = {}
    BY DEF Unwinds
  <2> QED
    BY <2>1 DEF Resources
<1>3. Cancelled
  BY DEF Cancelled, Exiting
<1>4. ScanOwned /\ ScanReportedOnce
  BY DEF ScanOwned, ScanReportedOnce
<1>5. Answered
  BY SsidsDiffer DEF Answered, Exiting, Waiting
<1> QED
  BY <1>1, <1>2, <1>3, <1>4, <1>5 DEF NaviInv

-----------------------------------------------------------------------------
LEMMA LoadKeeps ==
  ASSUME NaviInv, Acquire \/ FailToAcquire \/ InitContext
  PROVE  NaviInv'
<1> USE DEF NaviInv
<1>1. phase = "creating"
  BY DEF Acquire, FailToAcquire, InitContext
<1>2. PICK k \in 0..5 : res = Unwinds(k)
  BY <1>1 DEF Resources
<1>3. Cardinality(res) = k
  BY <1>2, UnwindsCount
<1>4. /\ phase' \in {"creating", "failed", "ready"}
      /\ UNCHANGED <<pend, run, scanPc, sem, scanRequest, ssid>>
      /\ UNCHANGED <<op, paired, nScan, calls, accepted, done, connects, dummies,
                     answers, late>>
  BY <1>1 DEF Acquire, FailToAcquire, InitContext, Resources, workVars, ctxVars,
     callVars, histVars
<1>5. NaviTypes'
  BY <1>4 DEF NaviTypes
<1>6. Resources'
  <2>1. CASE Acquire
    <3>1. phase' = "creating" /\ k \in 0..4 /\ res' = res \cup {Steps[k + 1]}
      BY <1>1, <1>3, <2>1, StepsAre DEF Acquire
    <3>2. res' = Unwinds(k + 1) /\ k + 1 \in 0..5
      BY <1>2, <3>1, UnwindsGrow
    <3> QED
      BY <1>1, <1>4, <3>1, <3>2 DEF Resources
  <2>2. CASE FailToAcquire
    <3>1. phase' = "failed" /\ res' = {}
      BY <1>2, <1>3, <2>2 DEF FailToAcquire
    <3> QED
      BY <1>1, <1>4, <3>1 DEF Resources
  <2>3. CASE InitContext
    <3>1. phase' = "ready" /\ res' = Unwinds(5)
      BY <1>2, <1>3, <2>3, StepsAre DEF InitContext
    <3> QED
      BY <1>1, <1>4, <3>1 DEF Resources
  <2> QED
    BY <2>1, <2>2, <2>3
<1>7. Cancelled'
  BY <1>4 DEF Cancelled, Exiting
<1>8. ScanOwned' /\ ScanReportedOnce'
  BY <1>4 DEF ScanOwned, ScanReportedOnce
<1>9. Answered'
  BY <1>1, <1>4 DEF Answered, Exiting, Waiting
<1> QED
  BY <1>5, <1>6, <1>7, <1>8, <1>9

(* A call that is interrupted or refused, or that asks for a disconnect.   *)
LEMMA QuietCallKeeps ==
  ASSUME NaviInv, Interrupted \/ NvfScanBusy \/ NvfDisconnect
  PROVE  NaviInv'
<1> USE DEF NaviInv
<1>1. /\ phase \notin {"creating", "failed"} /\ op = "idle" /\ op' \in {"idle", "disconnect"}
      /\ nScan' \in {nScan, nScan + 1} /\ nScan' <= MaxScan
      /\ UNCHANGED <<phase, res, pend, run, scanPc, sem, scanRequest, ssid>>
      /\ UNCHANGED <<accepted, done, connects, dummies, answers, late>>
  BY NaviflyAssumption DEF Interrupted, NvfScanBusy, NvfDisconnect, Callable,
     NaviTypes, initVars, workVars, ctxVars, histVars
<1>2. NaviTypes'
  BY <1>1, NaviflyAssumption DEF NaviTypes
<1>3. Resources' /\ Cancelled'
  BY <1>1 DEF Resources, Cancelled, Exiting
<1>4. ScanOwned' /\ ScanReportedOnce'
  BY <1>1 DEF ScanOwned, ScanReportedOnce, NaviTypes
<1>5. Answered'
  BY <1>1 DEF Answered, Exiting, Waiting
<1> QED
  BY <1>2, <1>3, <1>4, <1>5

LEMMA ScanKeeps == ASSUME NaviInv, NvfScan PROVE NaviInv'
<1> USE DEF NaviInv
<1>1. /\ phase \notin {"creating", "failed"} /\ op = "idle" /\ op' = "scan"
      /\ scanRequest = 0 /\ sem = "free" /\ nScan < MaxScan
      /\ nScan' = nScan + 1 /\ scanRequest' = nScan + 1
      /\ UNCHANGED <<phase, res, pend, run, scanPc, sem, ssid>>
      /\ UNCHANGED <<accepted, done, connects, dummies, answers, late>>
  BY DEF NvfScan, Callable, SemTaken, NotBusy, initVars, workVars, histVars
<1>2. nScan \in Nat /\ nScan + 1 \in 1..MaxScan /\ nScan + 1 > nScan
  BY <1>1, NaviflyAssumption DEF NaviTypes
<1>3. NaviTypes'
  BY <1>1, <1>2, NaviflyAssumption DEF NaviTypes
<1>4. Resources' /\ Cancelled'
  BY <1>1 DEF Resources, Cancelled, Exiting
<1>5. ScanOwned'
  <2>1. done[nScan + 1] = 0 /\ "scan" \notin pend /\ scanPc = "idle" /\ scanRequest' # 0
    BY <1>1, <1>2 DEF ScanOwned
  <2> QED
    BY <1>1, <1>2, <2>1 DEF ScanOwned
<1>6. ScanReportedOnce'
  BY <1>1 DEF ScanReportedOnce
<1>7. Answered'
  BY <1>1 DEF Answered, Exiting, Waiting
<1> QED
  BY <1>3, <1>4, <1>5, <1>6, <1>7

LEMMA ScheduleScanKeeps == ASSUME NaviInv, ScheduleScan PROVE NaviInv'
<1> USE DEF NaviInv
<1>1. /\ op = "scan" /\ op' = "idle" /\ "scan" \notin pend /\ pend' = pend \cup {"scan"}
      /\ accepted' = accepted \cup {nScan} /\ late' = (late \/ Exiting)
      /\ UNCHANGED <<phase, res, run, scanPc, sem, scanRequest, ssid>>
      /\ UNCHANGED <<nScan, done, connects, dummies, answers>>
  BY DEF ScheduleScan, Queued, ScanOwned, initVars, ctxVars
<1>2. /\ scanRequest = nScan /\ scanRequest # 0 /\ nScan \in 1..MaxScan /\ done[nScan] = 0
      /\ scanPc = "idle" /\ phase \notin {"creating", "failed"}
  BY <1>1, NaviflyAssumption DEF ScanOwned, NaviTypes, Resources
<1>3. NaviTypes'
  BY <1>1, <1>2 DEF NaviTypes, Works, Exiting
<1>4. Resources' /\ Cancelled'
  BY <1>1, <1>2 DEF Resources, Cancelled, Exiting
<1>5. ScanOwned'
  BY <1>1, <1>2 DEF ScanOwned
<1>6. ScanReportedOnce'
  BY <1>1 DEF ScanReportedOnce
<1>7. Answered'
  BY <1>1 DEF Answered, Exiting, Waiting
<1> QED
  BY <1>3, <1>4, <1>5, <1>6, <1>7

LEMMA ConnectKeeps ==
  ASSUME NaviInv, NEW s \in {Dummy, Other, Empty}, NvfConnect(s)
  PROVE  NaviInv'
<1> USE DEF NaviInv
<1>1. /\ phase \notin {"creating", "failed"} /\ op = "idle" /\ op' \in {"idle", "connect"}
      /\ ssid' = (IF s = Empty THEN ssid ELSE s)
      /\ dummies' = (IF s = Dummy THEN dummies + 1 ELSE dummies)
      /\ UNCHANGED <<phase, res, pend, run, scanPc, sem, scanRequest>>
      /\ UNCHANGED <<nScan, accepted, done, connects, answers, late>>
  BY DEF NvfConnect, Callable, initVars, workVars
<1>2. NaviTypes'
  BY <1>1 DEF NaviTypes
<1>3. Resources' /\ Cancelled'
  BY <1>1 DEF Resources, Cancelled, Exiting
<1>4. ScanOwned' /\ ScanReportedOnce'
  BY <1>1 DEF ScanOwned, ScanReportedOnce
<1>5. answers.ok \in Nat /\ dummies \in Nat
  BY DEF NaviTypes
<1>6. answers.ok + (IF ssid' = Dummy THEN 1 ELSE 0) <= dummies'
  BY <1>1, <1>5, SsidsDiffer DEF Answered
<1>7. Answered'
  BY <1>1, <1>6 DEF Answered, Exiting, Waiting
<1> QED
  BY <1>2, <1>3, <1>4, <1>7

LEMMA ScheduleConnectKeeps == ASSUME NaviInv, ScheduleConnect PROVE NaviInv'
<1> USE DEF NaviInv
<1>1. /\ op = "connect" /\ op' = "idle" /\ pend' = pend \cup {"connect"}
      /\ connects' = (IF "connect" \notin pend THEN connects + 1 ELSE connects)
      /\ late' = (late \/ Exiting)
      /\ UNCHANGED <<phase, res, run, scanPc, sem, scanRequest, ssid>>
      /\ UNCHANGED <<nScan, accepted, done, dummies, answers>>
  BY DEF ScheduleConnect, Queued, initVars, ctxVars
<1>2. NaviTypes'
  BY <1>1 DEF NaviTypes, Works, Exiting
<1>3. Resources' /\ Cancelled'
  BY <1>1 DEF Resources, Cancelled, Exiting
<1>4. ScanOwned' /\ ScanReportedOnce'
  BY <1>1 DEF ScanOwned, ScanReportedOnce
<1>5. Answered'
  <2>1. answers.ok \in Nat /\ answers.timeout \in Nat /\ connects \in Nat
    BY DEF NaviTypes
  <2>2. connects' - connects = Waiting(pend') - Waiting(pend)
    BY <1>1, <2>1 DEF Waiting
  <2>3. Waiting(pend) \in Nat /\ Waiting(pend') \in Nat /\ Waiting(run) \in Nat
    BY DEF Waiting
  <2>4. connects' \in Nat
    BY <1>1, <2>1
  <2>5. ~Exiting => connects' = answers.ok + answers.timeout + Waiting(pend') + Waiting(run)
    BY <2>1, <2>2, <2>3, <2>4 DEF Answered
  <2> QED
    BY <1>1, <2>5 DEF Answered, Exiting
<1> QED
  BY <1>2, <1>3, <1>4, <1>5

LEMMA ScheduleDisconnectKeeps == ASSUME NaviInv, ScheduleDisconnect PROVE NaviInv'
<1> USE DEF NaviInv
<1>1. /\ op = "disconnect" /\ op' = "idle" /\ pend' = pend \cup {"disconnect"}
      /\ late' = (late \/ Exiting)
      /\ UNCHANGED <<phase, res, run, scanPc, sem, scanRequest, ssid>>
      /\ UNCHANGED <<nScan, accepted, done, connects, dummies, answers>>
  BY DEF ScheduleDisconnect, initVars, ctxVars
<1>2. NaviTypes'
  BY <1>1 DEF NaviTypes, Works, Exiting
<1>3. Resources' /\ Cancelled'
  BY <1>1 DEF Resources, Cancelled, Exiting
<1>4. ScanOwned' /\ ScanReportedOnce'
  BY <1>1 DEF ScanOwned, ScanReportedOnce
<1>5. Answered'
  BY <1>1 DEF Answered, Exiting, Waiting
<1> QED
  BY <1>2, <1>3, <1>4, <1>5

-----------------------------------------------------------------------------
LEMMA StartKeeps == ASSUME NaviInv, NEW w \in Works, Start(w) PROVE NaviInv'
<1> USE DEF NaviInv
<1>1. /\ w \in pend /\ w \notin run /\ pend' = pend \ {w} /\ run' = run \cup {w}
      /\ scanPc' = (IF w = "scan" THEN "report" ELSE scanPc)
      /\ UNCHANGED <<phase, res, sem, scanRequest, ssid, op, nScan, accepted>>
      /\ UNCHANGED <<done, connects, dummies, answers, late>>
  BY DEF Start, initVars, ctxVars, callVars, histVars
<1>2. NaviTypes'
  BY <1>1 DEF NaviTypes
<1>3. Resources' /\ Cancelled'
  BY <1>1 DEF Resources, Cancelled, Exiting
<1>4. ScanOwned'
  BY <1>1 DEF ScanOwned, NaviTypes
<1>5. ScanReportedOnce'
  BY <1>1 DEF ScanReportedOnce
<1>6. Answered'
  <2>1. Waiting(pend') + Waiting(run') = Waiting(pend) + Waiting(run)
    BY <1>1 DEF Waiting
  <2>2. answers.ok \in Nat /\ answers.timeout \in Nat
    BY DEF NaviTypes
  <2>3. /\ Waiting(pend) \in Nat /\ Waiting(pend') \in Nat
        /\ Waiting(run) \in Nat /\ Waiting(run') \in Nat
    BY DEF Waiting
  <2>4. ~Exiting => connects = answers.ok + answers.timeout + Waiting(pend') + Waiting(run')
    BY <2>1, <2>2, <2>3 DEF Answered
  <2> QED
    BY <1>1, <2>4 DEF Answered, Exiting
<1> QED
  BY <1>2, <1>3, <1>4, <1>5, <1>6

LEMMA ReportKeeps == ASSUME NaviInv, ReportScan PROVE NaviInv'
<1> USE DEF NaviInv
<1>1. /\ scanPc = "report" /\ scanPc' = "clear" /\ sem = "free" /\ sem' = "scan"
      /\ done' = [done EXCEPT ![scanRequest] = @ + 1]
      /\ UNCHANGED <<phase, res, pend, run, scanRequest, ssid, op, nScan>>
      /\ UNCHANGED <<accepted, connects, dummies, answers, late>>
  BY DEF ReportScan, initVars, callVars
<1>2. /\ scanRequest \in accepted /\ scanRequest \in 1..nScan /\ done[scanRequest] = 0
      /\ "scan" \in run /\ "scan" \notin pend /\ op # "scan"
      /\ scanRequest \in 0..MaxScan /\ done \in [0..MaxScan -> Nat] /\ nScan \in 0..MaxScan
  BY <1>1, NaviflyAssumption DEF ScanOwned, NaviTypes
<1>3. /\ done' \in [0..MaxScan -> Nat]
      /\ \A r \in 0..MaxScan : done'[r] = IF r = scanRequest THEN 1 ELSE done[r]
  BY <1>1, <1>2
<1>4. NaviTypes'
  BY <1>1, <1>3 DEF NaviTypes
<1>5. Resources' /\ Cancelled'
  BY <1>1 DEF Resources, Cancelled, Exiting
<1>6. ScanOwned'
  BY <1>1, <1>2, <1>3, NaviflyAssumption DEF ScanOwned
<1>7. ScanReportedOnce'
  BY <1>1, <1>2, <1>3, NaviflyAssumption DEF ScanReportedOnce
<1>8. Answered'
  BY <1>1 DEF Answered, Exiting, Waiting
<1> QED
  BY <1>4, <1>5, <1>6, <1>7, <1>8

LEMMA ClearKeeps == ASSUME NaviInv, ClearScan PROVE NaviInv'
<1> USE DEF NaviInv
<1>1. /\ scanPc = "clear" /\ scanPc' = "idle" /\ sem' = "free" /\ scanRequest' = 0
      /\ run' = run \ {"scan"}
      /\ UNCHANGED <<phase, res, pend, ssid, op, nScan>>
      /\ UNCHANGED <<accepted, done, connects, dummies, answers, late>>
  BY DEF ClearScan, initVars, callVars, histVars
<1>2. "scan" \notin pend /\ op # "scan"
  BY <1>1 DEF ScanOwned
<1>3. NaviTypes'
  BY <1>1, NaviflyAssumption DEF NaviTypes
<1>4. Resources' /\ Cancelled'
  BY <1>1 DEF Resources, Cancelled, Exiting
<1>5. ScanOwned' /\ ScanReportedOnce'
  BY <1>1, <1>2 DEF ScanOwned, ScanReportedOnce
<1>6. Answered'
  BY <1>1 DEF Answered, Exiting, Waiting
<1> QED
  BY <1>3, <1>4, <1>5, <1>6

LEMMA ConnectRoutineKeeps == ASSUME NaviInv, ConnectRoutine PROVE NaviInv'
<1> USE DEF NaviInv
<1>1. /\ "connect" \in run /\ run' = run \ {"connect"} /\ ssid' = Empty
      /\ answers' = (IF ssid = Dummy THEN [answers EXCEPT !.ok = @ + 1]
                                     ELSE [answers EXCEPT !.timeout = @ + 1])
      /\ UNCHANGED <<phase, res, pend, scanPc, sem, scanRequest, op, nScan>>
      /\ UNCHANGED <<accepted, done, connects, dummies, late>>
  BY DEF ConnectRoutine, SsidCleared, initVars, callVars
<1>2. answers \in [ok : Nat, timeout : Nat] /\ answers.ok \in Nat /\ answers.timeout \in Nat
  BY DEF NaviTypes
<1>3. /\ answers' \in [ok : Nat, timeout : Nat]
      /\ ssid = Dummy => answers'.ok = answers.ok + 1 /\ answers'.timeout = answers.timeout
      /\ ssid # Dummy => answers'.ok = answers.ok /\ answers'.timeout = answers.timeout + 1
  BY <1>1, <1>2
<1>4. NaviTypes'
  BY <1>1, <1>3 DEF NaviTypes
<1>5. Resources' /\ Cancelled'
  BY <1>1 DEF Resources, Cancelled, Exiting
<1>6. ScanOwned' /\ ScanReportedOnce'
  BY <1>1 DEF ScanOwned, ScanReportedOnce
<1>7. Answered'
  <2>1. Waiting(run) = 1 /\ Waiting(run') = 0 /\ Waiting(pend) \in Nat
    BY <1>1 DEF Waiting
  <2>2. answers'.ok + answers'.timeout = answers.ok + answers.timeout + 1
    BY <1>2, <1>3
  <2>3. answers'.ok \in Nat /\ answers'.timeout \in Nat
    BY <1>3
  <2>4. ~Exiting => connects = answers'.ok + answers'.timeout + Waiting(pend) + Waiting(run')
    BY <1>2, <2>1, <2>2, <2>3 DEF Answered
  <2>5. answers'.ok <= dummies
    BY <1>2, <1>3 DEF Answered, NaviTypes
  <2>6. answers'.ok + (IF ssid' = Dummy THEN 1 ELSE 0) <= dummies'
    BY <1>1, <2>3, <2>5, SsidsDiffer
  <2> QED
    BY <1>1, <2>4, <2>6 DEF Answered, Exiting
<1> QED
  BY <1>4, <1>5, <1>6, <1>7

LEMMA DisconnectRoutineKeeps == ASSUME NaviInv, DisconnectRoutine PROVE NaviInv'
<1> USE DEF NaviInv
<1>1. /\ run' = run \ {"disconnect"} /\ "disconnect" \in run
      /\ UNCHANGED <<phase, res, pend, scanPc, sem, scanRequest, ssid, op, nScan>>
      /\ UNCHANGED <<accepted, done, connects, dummies, answers, late>>
  BY DEF DisconnectRoutine, initVars, ctxVars, callVars, histVars
<1>2. NaviTypes' /\ Resources' /\ Cancelled'
  BY <1>1 DEF NaviTypes, Resources, Cancelled, Exiting
<1>3. ScanOwned' /\ ScanReportedOnce'
  BY <1>1 DEF ScanOwned, ScanReportedOnce
<1>4. Answered'
  BY <1>1 DEF Answered, Exiting, Waiting
<1> QED
  BY <1>2, <1>3, <1>4

-----------------------------------------------------------------------------
LEMMA ExitKeeps == ASSUME NaviInv, Exit PROVE NaviInv'
<1> USE DEF NaviInv
<1>1. /\ phase \in {"ready", "cancel1", "cancel2", "cancel3"} /\ Exiting'
      /\ pend' \subseteq pend /\ phase' \notin {"creating", "failed", "ready"}
      /\ phase' \in {"cancel1", "cancel2", "cancel3", "gone"}
      /\ phase' = "gone" => res' = {}
      /\ UNCHANGED <<run, scanPc, sem, scanRequest, ssid, op, nScan>>
      /\ UNCHANGED <<accepted, done, connects, dummies, answers, late>>
  BY DEF Exit, Cancel, Free, Exiting, workVars, ctxVars, callVars, histVars
<1>2. NaviTypes' /\ Resources'
  BY <1>1 DEF NaviTypes, Resources
<1>3. Cancelled'
  <2>1. CASE Cancel("ready", "connect", "cancel1")
    BY <1>1, <2>1 DEF Cancel, Cancelled, Exiting
  <2>2. CASE Cancel("cancel1", "disconnect", "cancel2")
    BY <1>1, <2>2 DEF Cancel, Cancelled, Exiting
  <2>3. CASE Cancel("cancel2", "scan", "cancel3")
    BY <1>1, <2>3 DEF Cancel, Cancelled, Exiting
  <2>4. CASE Free
    BY <1>1, <2>4 DEF Free, workVars, Cancelled, Exiting
  <2> QED
    BY <2>1, <2>2, <2>3, <2>4 DEF Exit
<1>4. ScanOwned'
  BY <1>1 DEF ScanOwned
<1>5. ScanReportedOnce' /\ Answered'
  BY <1>1 DEF ScanReportedOnce, Answered
<1> QED
  BY <1>2, <1>3, <1>4, <1>5

LEMMA NaviNext == NaviInv /\ [Next]_vars => NaviInv'
<1> SUFFICES ASSUME NaviInv, [Next]_vars PROVE NaviInv'
  OBVIOUS
<1>1. CASE UNCHANGED vars
  <2>1. /\ UNCHANGED <<phase, res, pend, run, scanPc, sem, scanRequest, ssid, op, nScan>>
        /\ UNCHANGED <<accepted, done, connects, dummies, answers, late>>
    BY <1>1 DEF vars, initVars, workVars, ctxVars, callVars, histVars
  <2>2. NaviTypes' /\ Resources' /\ Cancelled'
    BY <2>1 DEF NaviInv, NaviTypes, Resources, Cancelled, Exiting
  <2>3. ScanOwned' /\ ScanReportedOnce' /\ Answered'
    BY <2>1 DEF NaviInv, ScanOwned, ScanReportedOnce, Answered, Exiting, Waiting
  <2> QED
    BY <2>2, <2>3 DEF NaviInv
<1>2. CASE Work
  BY <1>2, StartKeeps, ReportKeeps, ClearKeeps, ConnectRoutineKeeps,
     DisconnectRoutineKeeps DEF Work
<1>3. CASE Schedule
  BY <1>3, ScheduleScanKeeps, ScheduleConnectKeeps, ScheduleDisconnectKeeps DEF Schedule
<1> QED
  BY <1>1, <1>2, <1>3, LoadKeeps, QuietCallKeeps, ScanKeeps, ConnectKeeps, ExitKeeps
  DEF Next, Halt

LEMMA NaviInvariant == Spec => []NaviInv
  BY NaviInit, NaviNext, PTL DEF Spec

(* NothingLeftBehind: a failed load gives back everything, and unloading   *)
(* leaves no work item in the freed context unless an operation overlapped *)
(* with it.                                                                *)
THEOREM UnloadIsClean == Spec => []NothingLeftBehind
<1>1. NaviInv => NothingLeftBehind
  <2> SUFFICES ASSUME NaviInv PROVE NothingLeftBehind
    OBVIOUS
  <2>1. phase = "ready" => res = {Steps[i] : i \in 1..Len(Steps)}
    BY StepsAre DEF NaviInv, Resources, Unwinds
  <2>2. phase = "gone" /\ ~late => \A w \in Works : w \notin pend \cup run
    BY DEF NaviInv, Cancelled, Exiting, Works
  <2>3. phase = "gone" => late \/ pend \cup run = {}
    BY <2>2 DEF NaviInv, NaviTypes
  <2> QED
    BY <2>1, <2>3 DEF NaviInv, Resources, NothingLeftBehind
<1> QED
  BY <1>1, NaviInvariant, PTL

(* ScanReportedOnce: cfg80211_scan_done is called at most once for each    *)
(* accepted request and for nothing else.                                  *)
THEOREM ScansAreReportedOnce == Spec => []ScanReportedOnce
<1>1. NaviInv => ScanReportedOnce
  BY DEF NaviInv
<1> QED
  BY <1>1, NaviInvariant, PTL

(* ConnectsAnswered: every accepted connect is answered or still waits in  *)
(* the work queue, and no success is reported that nobody asked for.       *)
THEOREM ConnectsAreAnswered == Spec => []ConnectsAnswered
<1>1. NaviInv => ConnectsAnswered
  <2> SUFFICES ASSUME NaviInv PROVE ConnectsAnswered
    OBVIOUS
  <2>1. Outstanding = Waiting(pend) + Waiting(run)
    BY WaitingIsCount DEF Outstanding
  <2>2. answers.ok \in Nat /\ answers.timeout \in Nat /\ dummies \in Nat
    BY DEF NaviInv, NaviTypes
  <2>3. Waiting(pend) \in Nat /\ Waiting(run) \in Nat
    BY DEF Waiting
  <2>4. ~Exiting => connects = answers.ok + answers.timeout + Outstanding
    BY <2>1, <2>2, <2>3 DEF NaviInv, Answered
  <2>5. answers.ok <= dummies
    BY <2>2 DEF NaviInv, Answered
  <2> QED
    BY <2>4, <2>5 DEF ConnectsAnswered
<1> QED
  BY <1>1, NaviInvariant, PTL
=============================================================================
