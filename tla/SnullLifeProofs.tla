-------------------------- MODULE SnullLifeProofs --------------------------
(***************************************************************************)
(* Proofs about SnullLife, for any pool size and NAPI weight and any       *)
(* number of frames, watchdog expirations, opens and loads.                *)
(***************************************************************************)
EXTENDS SnullLife, TLAPS

LifeTypes ==
  /\ mod \in {"out", "in", "allocate", "register", "cleanup"} /\ idx \in Dev
  /\ st \in [Dev -> {"null", "allocated", "registered", "freed"}]
  /\ up \in [Dev -> {"down", "up", "closing"}]
  /\ stopped \in [Dev -> BOOLEAN] /\ rxInt \in [Dev -> BOOLEAN]
  /\ napi \in [Dev -> {"disabled", "off", "scheduled"}]
  /\ pool \in [Dev -> Nat] /\ queue \in [Dev -> Nat]
  /\ leaked \subseteq Dev /\ missed \subseteq Dev /\ emptyStart \subseteq Dev
  /\ stray \subseteq Dev /\ lost \in Nat

(* Where loading and unloading stand, in terms of the two interfaces.      *)
Stages ==
  /\ mod = "out" => \A d \in Dev : st[d] \in {"null", "freed"}
  /\ mod = "allocate" => /\ \A d \in Dev : st[d] \in {"null", "allocated"}
                         /\ st[idx] = "null" /\ st[2] = "null"
  /\ mod = "register" => \A d \in Dev : st[d] # "null"
  /\ mod = "cleanup" /\ idx = 2 => st[1] \in {"null", "freed"}
  /\ \A d \in Dev : st[d] = "freed" => mod \in {"cleanup", "out"}
  /\ st[2] = "freed" => mod = "out"
  /\ \A d \in Dev : st[d] = "registered" => st[Peer(d)] # "null"

(* Only a registered interface is open, and only an open one has NAPI.     *)
OpenOnes ==
  \A d \in Dev : /\ up[d] # "down" => st[d] = "registered"
                 /\ napi[d] # "disabled" <=> up[d] # "down"

(* The receive interrupt is armed unless a poll is scheduled, also while   *)
(* the interface is closed, so that the next open finds it armed; frames   *)
(* wait only for a poll.                                                   *)
Armed ==
  \A d \in Dev \ missed :
    /\ up[d] = "down" /\ st[d] \in {"allocated", "registered"} => rxInt[d]
    /\ up[d] # "down" => (rxInt[d] <=> napi[d] = "off")
    /\ napi[d] # "scheduled" => queue[d] = 0

NoneWaiting ==
  /\ \A d \in Dev : st[d] \in {"null", "freed"} => queue[d] = 0
  /\ lost = 0 \/ missed # {}

StartedEmpty ==
  /\ \A d \in Dev : pool[d] = 0 /\ up[d] = "up" /\ ~stopped[d] => d \in emptyStart
  /\ LockKept

LifeInv == /\ LifeTypes /\ Stages /\ OpenOnes /\ Armed /\ NoneWaiting
           /\ StartedEmpty /\ FirstStaysClear

LEMMA DevFacts ==
  /\ Dev = {1, 2} /\ Peer(1) = 2 /\ Peer(2) = 1
  /\ \A d \in Dev : Peer(d) \in Dev /\ Peer(d) # d /\ Peer(Peer(d)) = d
  BY DEF Dev, Peer

LEMMA LifeInit == Init => LifeInv
  BY DevFacts DEF Init, All, LifeInv, LifeTypes, Stages, OpenOnes, Armed,
                  NoneWaiting, StartedEmpty, LockKept, FirstStaysClear

LEMMA LoadKeeps == ASSUME LifeInv, Load PROVE LifeInv'
<1> USE DevFacts DEF LifeInv, Load, All
<1>1. LifeTypes'
  BY DEF LifeTypes
<1>2. Stages'
  BY DEF Stages
<1>3. \A d \in Dev : up[d] = "down" /\ napi[d] = "disabled" /\ queue[d] = 0
  BY DEF Stages, OpenOnes, NoneWaiting, LifeTypes
<1>4. OpenOnes' /\ Armed' /\ NoneWaiting' /\ StartedEmpty'
  BY <1>3 DEF OpenOnes, Armed, NoneWaiting, StartedEmpty, LockKept
<1>5. FirstStaysClear'
  BY DEF FirstStaysClear
<1> QED
  BY <1>1, <1>2, <1>4, <1>5

LEMMA AllocateKeeps ==
  ASSUME LifeInv, NEW ok \in BOOLEAN, NEW n \in 0..PoolSize, Allocate(ok, n)
  PROVE  LifeInv'
<1> USE DevFacts, LifeAssumption DEF LifeInv
<1>1. /\ mod = "allocate" /\ idx \in Dev /\ n \in Nat
      /\ \A d \in Dev : up[d] = "down" /\ napi[d] = "disabled"
                        /\ st[d] \in {"null", "allocated"}
  BY DEF Allocate, LifeTypes, Stages, OpenOnes
<1>2. /\ \A d \in Dev : st'[d] = IF d = idx THEN (IF ok THEN "allocated" ELSE "null")
                                            ELSE st[d]
      /\ \A d \in Dev : rxInt'[d] = IF d = idx THEN ok ELSE rxInt[d]
      /\ idx' = Peer(idx)
      /\ idx = 1 => mod' = "allocate"
      /\ idx = 2 /\ "null" \in {st'[d] : d \in Dev} => mod' = "cleanup"
      /\ idx = 2 /\ "null" \notin {st'[d] : d \in Dev} => mod' = "register"
  BY <1>1 DEF Allocate, LifeTypes
<1>3. /\ st' \in [Dev -> {"null", "allocated", "registered", "freed"}]
      /\ pool' \in [Dev -> Nat] /\ rxInt' \in [Dev -> BOOLEAN]
  BY <1>1 DEF Allocate, LifeTypes
<1>4. UNCHANGED <<up, stopped, napi, queue, leaked, hung, stray, lost, missed,
                  emptyStart>>
  BY DEF Allocate, histVars
<1>5. LifeTypes'
  BY <1>1, <1>2, <1>3, <1>4 DEF LifeTypes
<1>6. Stages'
  BY <1>1, <1>2 DEF Stages
<1>7. OpenOnes'
  BY <1>1, <1>4 DEF OpenOnes
<1>8. Armed'
  BY <1>1, <1>2, <1>4 DEF Armed
<1>9. NoneWaiting'
  <2>1. st[idx] = "null"
    BY <1>1 DEF Stages
  <2> QED
    BY <1>1, <1>2, <1>4, <2>1 DEF NoneWaiting
<1>10. StartedEmpty' /\ FirstStaysClear'
  BY <1>1, <1>4 DEF StartedEmpty, LockKept, FirstStaysClear
<1> QED
  BY <1>5, <1>6, <1>7, <1>8, <1>9, <1>10

LEMMA RegisterKeeps == ASSUME LifeInv, NEW ok \in BOOLEAN, Register(ok) PROVE LifeInv'
<1> USE DevFacts DEF LifeInv
<1>1. /\ mod = "register" /\ idx \in Dev
      /\ \A d \in Dev : st[d] \in {"allocated", "registered"}
  BY DEF Register, LifeTypes, Stages
<1>2. /\ \A d \in Dev : st'[d] = IF d = idx /\ ok THEN "registered" ELSE st[d]
      /\ idx' = Peer(idx)
      /\ mod' \in {"register", "in", "cleanup"}
      /\ mod' # "register" => idx = 2
  BY <1>1 DEF Register, LifeTypes
<1>3. st' \in [Dev -> {"null", "allocated", "registered", "freed"}]
  BY <1>1 DEF Register, LifeTypes
<1>4. UNCHANGED <<up, stopped, napi, rxInt, pool, queue, leaked, hung, stray,
                  lost, missed, emptyStart>>
  BY DEF Register, netVars, bufVars, histVars
<1>5. LifeTypes'
  BY <1>1, <1>2, <1>3, <1>4 DEF LifeTypes
<1>6. Stages'
  BY <1>1, <1>2 DEF Stages
<1>7. OpenOnes'
  BY <1>1, <1>2, <1>4 DEF OpenOnes
<1>8. Armed'
  BY <1>1, <1>2, <1>4 DEF Armed
<1>9. NoneWaiting'
  BY <1>1, <1>2, <1>4 DEF NoneWaiting
<1>10. StartedEmpty' /\ FirstStaysClear'
  BY <1>4 DEF StartedEmpty, LockKept, FirstStaysClear
<1> QED
  BY <1>5, <1>6, <1>7, <1>8, <1>9, <1>10

LEMMA UnloadKeeps == ASSUME LifeInv, Unload PROVE LifeInv'
<1> USE DevFacts DEF LifeInv, Unload, netVars, bufVars, histVars
<1>1. LifeTypes' /\ Stages'
  BY DEF LifeTypes, Stages
<1>2. OpenOnes' /\ Armed' /\ NoneWaiting' /\ StartedEmpty' /\ FirstStaysClear'
  BY DEF OpenOnes, Armed, NoneWaiting, StartedEmpty, LockKept, FirstStaysClear
<1> QED
  BY <1>1, <1>2

LEMMA CleanupKeeps == ASSUME LifeInv, Cleanup PROVE LifeInv'
<1> USE DevFacts DEF LifeInv
<1>1. /\ mod = "cleanup" /\ idx \in Dev /\ up[idx] = "down" /\ napi[idx] = "disabled"
      /\ idx' = Peer(idx) /\ mod' = (IF idx = 1 THEN "cleanup" ELSE "out")
      /\ queue[idx] \in Nat /\ lost \in Nat /\ lost' = lost + queue[idx]
  BY DEF Cleanup, Unregistered, LifeTypes, OpenOnes
<1>2. /\ \A d \in Dev : st'[d] = IF d = idx /\ st[d] # "null" THEN "freed" ELSE st[d]
      /\ \A d \in Dev : queue'[d] = IF d = idx THEN 0 ELSE queue[d]
      /\ \A d \in Dev : pool'[d] = IF d = idx THEN 0 ELSE pool[d]
  BY <1>1 DEF Cleanup, LifeTypes
<1>3. /\ st' \in [Dev -> {"null", "allocated", "registered", "freed"}]
      /\ pool' \in [Dev -> Nat] /\ queue' \in [Dev -> Nat] /\ lost' \in Nat
  BY <1>1 DEF Cleanup, LifeTypes
<1>4. UNCHANGED <<up, stopped, napi, rxInt, leaked, hung, stray, missed, emptyStart>>
  BY DEF Cleanup, netVars
<1>5. LifeTypes'
  BY <1>1, <1>3, <1>4 DEF LifeTypes
<1>6. Stages'
  BY <1>1, <1>2 DEF Stages
<1>7. OpenOnes'
  BY <1>1, <1>2, <1>4 DEF OpenOnes
<1>8. Armed'
  BY <1>1, <1>2, <1>4 DEF Armed
<1>9. NoneWaiting'
  <2>1. idx \notin missed => lost' = lost
    BY <1>1 DEF Armed
  <2> QED
    BY <1>1, <1>2, <1>4, <2>1 DEF NoneWaiting
<1>10. StartedEmpty' /\ FirstStaysClear'
  BY <1>1, <1>2, <1>4 DEF StartedEmpty, LockKept, FirstStaysClear
<1> QED
  BY <1>5, <1>6, <1>7, <1>8, <1>9, <1>10

LEMMA OpenKeeps == ASSUME LifeInv, NEW d \in Dev, Open(d) PROVE LifeInv'
<1> USE DevFacts DEF LifeInv
<1>1. /\ st[d] = "registered" /\ up[d] = "down"
      /\ \A e \in Dev : up'[e] = IF e = d THEN "up" ELSE up[e]
      /\ \A e \in Dev : napi'[e] = IF e = d THEN "off" ELSE napi[e]
      /\ \A e \in Dev : stopped'[e] = IF e = d THEN FALSE ELSE stopped[e]
      /\ emptyStart' = IF pool[d] = 0 THEN emptyStart \cup {d} ELSE emptyStart
      /\ UNCHANGED <<mod, idx, st, rxInt, pool, queue, leaked, stray, lost, missed>>
  BY DEF Open, LifeTypes, modVars, bufVars
<1>2. LifeTypes'
  BY DEF Open, LifeTypes, modVars, bufVars
<1>3. Stages' /\ NoneWaiting' /\ FirstStaysClear'
  BY <1>1 DEF Stages, NoneWaiting, FirstStaysClear
<1>4. OpenOnes'
  BY <1>1 DEF OpenOnes
<1>5. Armed'
  BY <1>1 DEF Armed, OpenOnes, LifeTypes
<1>6. StartedEmpty'
  BY <1>1 DEF StartedEmpty, LockKept
<1> QED
  BY <1>2, <1>3, <1>4, <1>5, <1>6

LEMMA CloseKeeps == ASSUME LifeInv, NEW d \in Dev, Close(d) PROVE LifeInv'
<1> USE DevFacts DEF LifeInv
<1>1. /\ up[d] = "up"
      /\ \A e \in Dev : up'[e] = IF e = d THEN "closing" ELSE up[e]
      /\ \A e \in Dev : stopped'[e] = IF e = d THEN TRUE ELSE stopped[e]
      /\ UNCHANGED <<mod, idx, st, napi, rxInt, pool, queue, leaked, stray, lost,
                     missed, emptyStart>>
  BY DEF Close, LifeTypes, modVars, bufVars, histVars
<1>2. LifeTypes'
  BY DEF Close, LifeTypes, modVars, bufVars, histVars
<1>3. Stages' /\ NoneWaiting' /\ FirstStaysClear'
  BY <1>1 DEF Stages, NoneWaiting, FirstStaysClear
<1>4. OpenOnes'
  BY <1>1 DEF OpenOnes
<1>5. Armed'
  BY <1>1 DEF OpenOnes, Armed, LifeTypes
<1>6. StartedEmpty'
  BY <1>1 DEF StartedEmpty, LockKept
<1> QED
  BY <1>2, <1>3, <1>4, <1>5, <1>6

LEMMA EndCloseKeeps == ASSUME LifeInv, NEW d \in Dev, EndClose(d) PROVE LifeInv'
<1> USE DevFacts DEF LifeInv
<1>1. /\ up[d] = "closing" /\ napi[d] = "off"
      /\ \A e \in Dev : up'[e] = IF e = d THEN "down" ELSE up[e]
      /\ \A e \in Dev : napi'[e] = IF e = d THEN "disabled" ELSE napi[e]
      /\ UNCHANGED <<mod, idx, st, stopped, rxInt, pool, queue, leaked, stray, lost,
                     missed, emptyStart>>
  BY DEF EndClose, LifeTypes, modVars, bufVars, histVars
<1>2. LifeTypes'
  BY DEF EndClose, LifeTypes, modVars, bufVars, histVars
<1>3. Stages' /\ NoneWaiting' /\ FirstStaysClear'
  BY <1>1 DEF Stages, NoneWaiting, FirstStaysClear
<1>4. OpenOnes'
  BY <1>1 DEF OpenOnes
<1>5. Armed'
  BY <1>1 DEF OpenOnes, Armed, LifeTypes
<1>6. StartedEmpty'
  BY <1>1 DEF StartedEmpty, LockKept
<1> QED
  BY <1>2, <1>3, <1>4, <1>5, <1>6

(* The first interface is open only while the second is not freed, and no  *)
(* open interface is freed.                                                *)
LEMMA FirstTouchesNothing ==
  ASSUME LifeInv, up[1] # "down"
  PROVE  Touches(1) = {}
  BY DevFacts DEF LifeInv, OpenOnes, Stages, Touches

LEMMA XmitKeeps == ASSUME LifeInv, NEW d \in Dev, Xmit(d) PROVE LifeInv'
<1> USE DevFacts DEF LifeInv
<1> DEFINE p == Peer(d)
<1>1. /\ up[d] = "up" /\ ~stopped[d] /\ pool[d] > 0 /\ pool[d] \in Nat
      /\ p \in Dev /\ p # d /\ queue[p] \in Nat
      /\ st[d] = "registered" /\ st[p] # "null"
  BY DEF Xmit, CanSend, LifeTypes, OpenOnes, Stages
<1>2. /\ \A e \in Dev : pool'[e] = IF e = d THEN pool[d] - 1 ELSE pool[e]
      /\ \A e \in Dev : stopped'[e] = IF e = d THEN pool[d] - 1 = 0 ELSE stopped[e]
      /\ \A e \in Dev : queue'[e] = IF e = p THEN (IF st[p] = "freed" THEN 0
                                                   ELSE queue[p] + 1)
                                             ELSE queue[e]
      /\ \A e \in Dev : rxInt'[e] = IF e = p THEN FALSE ELSE rxInt[e]
      /\ \A e \in Dev : napi'[e] = IF e = p /\ Listens(p) /\ rxInt[p]
                                   THEN "scheduled" ELSE napi[e]
      /\ missed' = IF Listens(p) THEN missed ELSE missed \cup {p}
      /\ stray' = stray \cup Touches(d)
      /\ UNCHANGED <<mod, idx, st, up, leaked, lost, emptyStart>>
  BY <1>1 DEF Xmit, LifeTypes, modVars, StopsQueue, MaskedBy
<1>3. /\ pool' \in [Dev -> Nat] /\ queue' \in [Dev -> Nat]
      /\ stopped' \in [Dev -> BOOLEAN] /\ rxInt' \in [Dev -> BOOLEAN]
      /\ napi' \in [Dev -> {"disabled", "off", "scheduled"}]
  BY <1>1 DEF Xmit, LifeTypes, StopsQueue, MaskedBy
<1>4. stray' \subseteq Dev /\ missed' \subseteq Dev
  BY <1>1, <1>2 DEF LifeTypes, Touches
<1>5. LifeTypes'
  BY <1>2, <1>3, <1>4 DEF LifeTypes
<1>6. Stages'
  BY <1>2 DEF Stages
<1> HIDE DEF p
<1>7. OpenOnes'
  BY <1>1, <1>2 DEF OpenOnes, Listens
<1>8. Armed'
  <2> SUFFICES ASSUME NEW e \in Dev \ missed'
               PROVE  /\ up[e] = "down" /\ st[e] \in {"allocated", "registered"}
                           => rxInt'[e]
                      /\ up[e] # "down" => (rxInt'[e] <=> napi'[e] = "off")
                      /\ napi'[e] # "scheduled" => queue'[e] = 0
    BY <1>2 DEF Armed
  <2>1. CASE e # p
    <3>1. e \in Dev \ missed /\ rxInt'[e] = rxInt[e] /\ napi'[e] = napi[e]
          /\ queue'[e] = queue[e]
      BY <1>2, <2>1
    <3> QED
      BY <3>1 DEF Armed
  <2>2. CASE e = p
    <3>1. Listens(p) /\ p \notin missed /\ up[p] = "up"
      BY <1>1, <1>2, <2>2 DEF Listens, OpenOnes, LifeTypes
    <3>2. napi'[p] = "scheduled"
      BY <1>1, <1>2, <3>1 DEF Armed, OpenOnes, LifeTypes
    <3> QED
      BY <1>1, <1>2, <2>2, <3>1, <3>2
  <2> QED
    BY <2>1, <2>2
<1>9. NoneWaiting'
  BY <1>1, <1>2 DEF NoneWaiting
<1>10. StartedEmpty'
  BY <1>1, <1>2 DEF StartedEmpty, LockKept
<1>11. FirstStaysClear'
  <2>1. d = 1 => Touches(d) = {}
    BY <1>1, FirstTouchesNothing
  <2>2. d # 1 => 1 \notin Touches(d)
    BY DEF Touches
  <2> QED
    BY <1>2, <2>1, <2>2 DEF FirstStaysClear
<1> QED
  BY <1>5, <1>6, <1>7, <1>8, <1>9, <1>10, <1>11

LEMMA MinOfTwo ==
  ASSUME NEW a \in Nat, NEW b \in Nat
  PROVE  Min({a, b}) = IF a <= b THEN a ELSE b
<1> DEFINE m == IF a <= b THEN a ELSE b
<1>1. m \in {a, b} /\ \A y \in {a, b} : m <= y
  OBVIOUS
<1>2. \A x \in {a, b} : (\A y \in {a, b} : x <= y) => x = m
  OBVIOUS
<1> HIDE DEF m
<1>3. Min({a, b}) \in {a, b} /\ \A y \in {a, b} : Min({a, b}) <= y
  BY <1>1 DEF Min
<1>4. Min({a, b}) = m
  BY <1>2, <1>3
<1> QED
  BY <1>4 DEF m

LEMMA PollKeeps == ASSUME LifeInv, NEW d \in Dev, Poll(d) PROVE LifeInv'
<1> USE DevFacts, LifeAssumption DEF LifeInv
<1> DEFINE p == Peer(d)
           n == Min({Budget, queue[d]})
           cut == ~Completes(n) /\ up[d] = "closing"
<1>1. /\ napi[d] = "scheduled" /\ p \in Dev /\ p # d /\ up[d] # "down"
      /\ st[d] = "registered" /\ queue[d] \in Nat /\ pool[p] \in Nat
      /\ Budget \in Nat \ {0}
  BY DEF Poll, LifeTypes, OpenOnes
<1>2. /\ n \in Nat /\ n <= queue[d] /\ queue[d] - n \in Nat
      /\ Completes(n) => n = queue[d]
      /\ ~Completes(n) => n = Budget
  <2>1. n = IF Budget <= queue[d] THEN Budget ELSE queue[d]
    BY <1>1, MinOfTwo
  <2> HIDE DEF n
  <2> QED
    BY <1>1, <2>1 DEF Completes
<1>3. /\ queue' = [queue EXCEPT ![d] = @ - n]
      /\ pool' = [pool EXCEPT ![p] = IF st[p] = "freed" THEN 0 ELSE @ + n]
      /\ stray' = (IF n > 0 THEN stray \cup Touches(d) ELSE stray)
      /\ stopped' = [stopped EXCEPT ![p] = @ /\ ~(n > 0 /\ pool[p] = 0)]
      /\ napi' = [napi EXCEPT ![d] = IF Completes(n) \/ cut THEN "off" ELSE @]
      /\ rxInt' = [rxInt EXCEPT ![d] = @ \/ Completes(n)]
      /\ missed' = (IF cut THEN missed \cup {d} ELSE missed)
      /\ UNCHANGED <<mod, idx, st, up, leaked, lost, emptyStart>>
  BY DEF Poll, modVars
<1> HIDE DEF n, p
<1>4. /\ \A e \in Dev : queue'[e] = IF e = d THEN queue[d] - n ELSE queue[e]
      /\ \A e \in Dev : pool'[e] = IF e = p THEN (IF st[p] = "freed" THEN 0
                                                  ELSE pool[p] + n)
                                            ELSE pool[e]
      /\ \A e \in Dev : napi'[e] = IF e = d /\ (Completes(n) \/ cut) THEN "off" ELSE napi[e]
      /\ \A e \in Dev : e # d => rxInt'[e] = rxInt[e]
      /\ Completes(n) => rxInt'[d] = TRUE
      /\ ~Completes(n) => rxInt'[d] = rxInt[d]
      /\ \A e \in Dev : e # p => stopped'[e] = stopped[e]
      /\ ~stopped'[p] => ~stopped[p] \/ (n > 0 /\ pool[p] = 0)
  BY <1>1, <1>3 DEF LifeTypes
<1>5. LifeTypes'
  <2>1. /\ queue' \in [Dev -> Nat] /\ pool' \in [Dev -> Nat]
        /\ napi' \in [Dev -> {"disabled", "off", "scheduled"}]
    BY <1>1, <1>2, <1>3 DEF LifeTypes
  <2>2. stopped' \in [Dev -> BOOLEAN] /\ rxInt' \in [Dev -> BOOLEAN]
    BY <1>1, <1>3 DEF LifeTypes
  <2>3. stray' \subseteq Dev /\ missed' \subseteq Dev
    BY <1>3 DEF LifeTypes, Touches
  <2> QED
    BY <1>3, <2>1, <2>2, <2>3 DEF LifeTypes
<1>6. Stages'
  BY <1>3 DEF Stages
<1>7. OpenOnes'
  BY <1>1, <1>3, <1>4 DEF OpenOnes
<1>8. Armed'
  <2> SUFFICES ASSUME NEW e \in Dev \ missed'
               PROVE  /\ up[e] = "down" /\ st[e] \in {"allocated", "registered"}
                           => rxInt'[e]
                      /\ up[e] # "down" => (rxInt'[e] <=> napi'[e] = "off")
                      /\ napi'[e] # "scheduled" => queue'[e] = 0
    BY <1>3 DEF Armed
  <2>1. CASE e # d
    BY <1>1, <1>3, <1>4, <2>1 DEF Armed
  <2>2. CASE e = d
    <3>1. ~cut /\ d \notin missed /\ ~rxInt[d]
      BY <1>1, <1>3, <2>2 DEF Armed
    <3>2. CASE Completes(n)
      BY <1>1, <1>2, <1>4, <2>2, <3>2
    <3>3. CASE ~Completes(n)
      BY <1>1, <1>4, <2>2, <3>1, <3>3
    <3> QED
      BY <3>2, <3>3
  <2> QED
    BY <2>1, <2>2
<1>9. NoneWaiting'
  BY <1>1, <1>3, <1>4 DEF NoneWaiting
<1>10. StartedEmpty'
  <2>1. ASSUME NEW e \in Dev, pool'[e] = 0, up[e] = "up", ~stopped'[e]
        PROVE  e \in emptyStart
    <3>1. CASE e # p
      BY <1>4, <2>1, <3>1 DEF StartedEmpty
    <3>2. CASE e = p
      <4>1. st[p] = "registered"
        BY <1>1, <2>1, <3>2 DEF OpenOnes
      <4>2. pool[p] + n = 0
        BY <1>4, <2>1, <3>2, <4>1
      <4>3. pool[p] = 0 /\ ~(n > 0)
        BY <1>1, <1>2, <4>2
      <4> QED
        BY <1>4, <2>1, <3>2, <4>3 DEF StartedEmpty
    <3> QED
      BY <3>1, <3>2
  <2> QED
    BY <1>3, <2>1 DEF StartedEmpty, LockKept
<1>11. FirstStaysClear'
  <2>1. d = 1 => Touches(d) = {}
    BY <1>1, FirstTouchesNothing
  <2>2. d # 1 => 1 \notin Touches(d)
    BY DEF Touches
  <2> QED
    BY <1>3, <2>1, <2>2 DEF FirstStaysClear
<1> QED
  BY <1>5, <1>6, <1>7, <1>8, <1>9, <1>10, <1>11

LEMMA OutOfPoolKeeps == ASSUME LifeInv, NEW d \in Dev, OutOfPool(d) PROVE LifeInv'
<1> USE DEF LifeInv, OutOfPool, CanSend, modVars, netVars, histVars
<1>1. LifeTypes' /\ Stages' /\ OpenOnes'
  BY DEF LifeTypes, Stages, OpenOnes
<1>2. Armed' /\ NoneWaiting' /\ FirstStaysClear'
  BY DEF Armed, NoneWaiting, FirstStaysClear
<1>3. StartedEmpty'
  BY DEF StartedEmpty, LockKept
<1> QED
  BY <1>1, <1>2, <1>3

LEMMA TimeoutKeeps ==
  ASSUME LifeInv, NEW d \in Dev, NEW n \in 0..PoolSize, TxTimeout(d, n)
  PROVE  LifeInv'
<1> USE DevFacts, LifeAssumption DEF LifeInv
<1>1. /\ \A e \in Dev : pool'[e] = IF e = d THEN n ELSE pool[e]
      /\ \A e \in Dev : stopped'[e] = IF e = d THEN FALSE ELSE stopped[e]
      /\ emptyStart' = IF n = 0 THEN emptyStart \cup {d} ELSE emptyStart
      /\ UNCHANGED <<mod, idx, st, up, napi, rxInt, queue, leaked, stray, lost, missed>>
  BY DEF TxTimeout, LifeTypes, modVars
<1>2. LifeTypes'
  BY DEF TxTimeout, LifeTypes, modVars
<1>3. Stages' /\ OpenOnes' /\ Armed' /\ NoneWaiting' /\ FirstStaysClear'
  BY <1>1 DEF Stages, OpenOnes, Armed, NoneWaiting, FirstStaysClear
<1>4. StartedEmpty'
  BY <1>1 DEF StartedEmpty, LockKept
<1> QED
  BY <1>2, <1>3, <1>4

LEMMA LifeNext == LifeInv /\ [Next]_vars => LifeInv'
<1> SUFFICES ASSUME LifeInv, [Next]_vars PROVE LifeInv'
  OBVIOUS
<1>1. CASE UNCHANGED vars \/ \E d \in Dev : Spin(d)
  <2>1. UNCHANGED <<mod, idx, st, up, stopped, napi, rxInt, pool, queue, leaked,
                    stray, lost, missed, emptyStart>>
    BY <1>1 DEF vars, Spin, modVars, netVars, bufVars, histVars
  <2> QED
    BY <2>1 DEF LifeInv, LifeTypes, Stages, OpenOnes, Armed, NoneWaiting,
                StartedEmpty, LockKept, FirstStaysClear
<1> QED
  BY <1>1, LoadKeeps, AllocateKeeps, RegisterKeeps, UnloadKeeps, CleanupKeeps,
     OpenKeeps, CloseKeeps, EndCloseKeeps, XmitKeeps, PollKeeps,
     OutOfPoolKeeps, TimeoutKeeps DEF Next

LEMMA LifeInvariant == Spec => []LifeInv
  BY LifeInit, LifeNext, PTL DEF Spec

(* HearsWhileUp: an interface that no frame met while its NAPI was         *)
(* disabled is never deaf, through any sequence of loads, opens, closes    *)
(* and polls.                                                              *)
THEOREM NeverDeaf == Spec => []HearsWhileUp
<1>1. LifeInv => HearsWhileUp
  BY DEF LifeInv, Armed, HearsWhileUp
<1> QED
  BY <1>1, LifeInvariant, PTL

(* LockKept: snull_get_tx_buffer returns with the lock held only for an    *)
(* interface whose queue was started with an empty pool.                   *)
THEOREM LockLeaksOnlyEmpty == Spec => []LockKept
<1>1. LifeInv => LockKept
  BY DEF LifeInv, StartedEmpty
<1> QED
  BY <1>1, LifeInvariant, PTL

(* FirstStaysClear: the first interface never touches freed memory.        *)
THEOREM FirstNeverStrays == Spec => []FirstStaysClear
<1>1. LifeInv => FirstStaysClear
  BY DEF LifeInv
<1> QED
  BY <1>1, LifeInvariant, PTL

(* UnloadFreesAll: unloading loses no buffer unless a frame met an         *)
(* interface whose NAPI was disabled, also if the second interface used    *)
(* the freed first one.                                                    *)
THEOREM UnloadLosesNothing == Spec => []UnloadFreesAll
<1>1. LifeInv => UnloadFreesAll
  BY DEF LifeInv, NoneWaiting, UnloadFreesAll
<1> QED
  BY <1>1, LifeInvariant, PTL
=============================================================================
