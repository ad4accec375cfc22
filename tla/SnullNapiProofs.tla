-------------------------- MODULE SnullNapiProofs --------------------------
(***************************************************************************)
(* Proofs about SnullNapi, for any pool size, weight and lockup parameter  *)
(* and any number of frames and watchdog expirations.                      *)
(***************************************************************************)
EXTENDS SnullNapi, TLAPS

(* The buffers numbered so far; the next pool is numbered after them.      *)
LastBuf == PoolSize * (txErrors + 1)

NapiTypes ==
  /\ ppool \in Seq(Buf) /\ rxQueue \in Seq(Buf)
  /\ data \in [Buf -> Nat] /\ sent \in Nat
  /\ txErrors \in 0..MaxTimeout /\ live \subseteq 1..LastBuf
  /\ txPc \in {"idle", "get", "enqueue", "ifRxInt", "rxIntr", "txIntr", "reset", "recover"}
  /\ pollPc \in {"idle", "loop", "release", "ifStopped", "ifNext", "wake", "done"}
  /\ napi \in {"off", "scheduled", "polling"} /\ rxIntEnabled \in BOOLEAN
  /\ txPc = "enqueue" => txPkt \in Buf
  /\ txPc = "reset" => txErrors < MaxTimeout
  /\ pollPc = "release" => pollPkt \in Buf

(* The poll runs exactly while NAPI says so.                               *)
PollRuns == pollPc # "idle" <=> napi = "polling"

(* The buffer that a context has taken and not given away yet.             *)
TxHolds   == IF txPc = "enqueue" THEN {txPkt} ELSE {}
PollHolds == IF pollPc = "release" THEN {pollPkt} ELSE {}

(* LiveInOnePlace, with the hands of the contexts as two more places.      *)
OnePlace ==
  /\ IsInjective(ppool) /\ IsInjective(rxQueue)
  /\ Range(ppool) \cap Range(rxQueue) = {}
  /\ TxHolds \cap (Range(ppool) \cup Range(rxQueue) \cup PollHolds) = {}
  /\ PollHolds \cap (Range(ppool) \cup Range(rxQueue)) = {}
  /\ live = Range(ppool) \cup Range(rxQueue) \cup TxHolds \cup PollHolds

NapiInv == NapiTypes /\ PollRuns /\ MaskedWhilePolling /\ OnePlace

-----------------------------------------------------------------------------
(* What pushing and popping do to the members of a list.                   *)
LEMMA PushMembers ==
  ASSUME NEW S, NEW s \in Seq(S), NEW e \in S
  PROVE  /\ Range(Push(s, e)) = {e} \cup Range(s)
         /\ IsInjective(s) /\ e \notin Range(s) => IsInjective(Push(s, e))
<1> DEFINE t == Push(s, e)
<1>1. /\ t \in Seq(S)
      /\ DOMAIN t = 1..(Len(s) + 1)
      /\ t[1] = e
      /\ \A i \in 1..Len(s) : t[i + 1] = s[i]
      /\ \A i \in 2..(Len(s) + 1) : t[i] = s[i - 1] /\ i - 1 \in 1..Len(s)
      /\ DOMAIN s = 1..Len(s) /\ Len(s) \in Nat
  BY DEF Push
<1> HIDE DEF t
<1>2. Range(t) = {e} \cup Range(s)
  <2>1. ASSUME NEW x \in Range(t) PROVE x \in {e} \cup Range(s)
    BY <1>1 DEF Range
  <2>2. e \in Range(t)
    BY <1>1 DEF Range
  <2>3. ASSUME NEW x \in Range(s) PROVE x \in Range(t)
    <3>1. PICK i \in 1..Len(s) : x = s[i]
      BY <1>1 DEF Range
    <3>2. x = t[i + 1] /\ i + 1 \in DOMAIN t
      BY <1>1, <3>1
    <3> QED
      BY <3>2 DEF Range
  <2> QED
    BY <2>1, <2>2, <2>3
<1>3. ASSUME IsInjective(s), e \notin Range(s) PROVE IsInjective(t)
  <2>1. SUFFICES ASSUME NEW a \in DOMAIN t, NEW b \in DOMAIN t, t[a] = t[b]
                 PROVE  a = b
    BY DEF IsInjective
  <2>2. \A i \in 2..(Len(s) + 1) : t[i] \in Range(s)
    BY <1>1 DEF Range
  <2>3. CASE a = 1 \/ b = 1
    BY <1>1, <1>3, <2>1, <2>2, <2>3
  <2>4. CASE a # 1 /\ b # 1
    <3>1. a \in 2..(Len(s) + 1) /\ b \in 2..(Len(s) + 1)
      BY <1>1, <2>4
    <3>2. s[a - 1] = s[b - 1] /\ a - 1 \in DOMAIN s /\ b - 1 \in DOMAIN s
      BY <1>1, <3>1, <2>1
    <3>3. a - 1 = b - 1
      BY <1>3, <3>2 DEF IsInjective
    <3> QED
      BY <3>1, <3>3
  <2> QED
    BY <2>3, <2>4
<1> QED
  BY <1>2, <1>3 DEF t

LEMMA PopMembers ==
  ASSUME NEW S, NEW s \in Seq(S), s # <<>>, IsInjective(s)
  PROVE  /\ Head(s) \in Range(s)
         /\ Range(Tail(s)) = Range(s) \ {Head(s)}
         /\ IsInjective(Tail(s))
<1> DEFINE t == Tail(s)
<1>1. /\ t \in Seq(S)
      /\ DOMAIN s = 1..Len(s) /\ Len(s) \in Nat /\ Len(s) # 0
      /\ DOMAIN t = 1..(Len(s) - 1)
      /\ \A i \in 1..(Len(s) - 1) : t[i] = s[i + 1] /\ i + 1 \in 1..Len(s)
      /\ Head(s) = s[1]
  OBVIOUS
<1> HIDE DEF t
<1>2. Head(s) \in Range(s)
  BY <1>1 DEF Range
<1>3. Range(t) = Range(s) \ {Head(s)}
  <2>1. ASSUME NEW x \in Range(t) PROVE x \in Range(s) \ {Head(s)}
    <3>1. PICK i \in 1..(Len(s) - 1) : x = t[i]
      BY <1>1 DEF Range
    <3>2. x = s[i + 1] /\ i + 1 \in DOMAIN s /\ i + 1 # 1 /\ 1 \in DOMAIN s
      BY <1>1, <3>1
    <3>3. x # s[1]
      BY <3>2 DEF IsInjective
    <3> QED
      BY <1>1, <3>2, <3>3 DEF Range
  <2>2. ASSUME NEW x \in Range(s), x # Head(s) PROVE x \in Range(t)
    <3>1. PICK i \in 1..Len(s) : x = s[i]
      BY <1>1 DEF Range
    <3>2. i # 1 /\ i - 1 \in 1..(Len(s) - 1)
      BY <1>1, <2>2, <3>1
    <3>3. x = t[i - 1] /\ i - 1 \in DOMAIN t
      BY <1>1, <3>1, <3>2
    <3> QED
      BY <3>3 DEF Range
  <2> QED
    BY <2>1, <2>2
<1>4. IsInjective(t)
  <2>1. SUFFICES ASSUME NEW a \in DOMAIN t, NEW b \in DOMAIN t, t[a] = t[b]
                 PROVE  a = b
    BY DEF IsInjective
  <2>2. s[a + 1] = s[b + 1] /\ a + 1 \in DOMAIN s /\ b + 1 \in DOMAIN s
    BY <1>1, <2>1
  <2>3. a + 1 = b + 1
    BY <2>2 DEF IsInjective
  <2> QED
    BY <1>1, <2>3
<1> QED
  BY <1>2, <1>3, <1>4 DEF t


-----------------------------------------------------------------------------
LEMMA RangeInSet == ASSUME NEW S, NEW s \in Seq(S) PROVE Range(s) \subseteq S
  BY DEF Range

LEMMA SeqOfMore == ASSUME NEW S, NEW T, S \subseteq T, NEW s \in Seq(S) PROVE s \in Seq(T)
  OBVIOUS

LEMMA LastFacts ==
  ASSUME NEW k \in Nat
  PROVE  /\ PoolSize * (k + 1) \in Nat
         /\ PoolSize * (k + 1 + 1) = PoolSize * (k + 1) + PoolSize
         /\ k <= MaxTimeout => PoolSize * (k + 1) <= PoolSize * (MaxTimeout + 1)
<1> USE NapiAssumption
<1>1. PoolSize * (k + 1) \in Nat
  OBVIOUS
<1>2. PoolSize * (k + 1 + 1) = PoolSize * (k + 1) + PoolSize
  OBVIOUS
<1>3. ASSUME k <= MaxTimeout PROVE PoolSize * (k + 1) <= PoolSize * (MaxTimeout + 1)
  <2>1. PICK e \in Nat : MaxTimeout = k + e
    <3>1. MaxTimeout - k \in Nat /\ MaxTimeout = k + (MaxTimeout - k)
      BY <1>3
    <3> QED
      BY <3>1
  <2>2. PoolSize * (MaxTimeout + 1) = PoolSize * (k + 1) + PoolSize * e
    BY <2>1
  <2>3. PoolSize * e \in Nat
    OBVIOUS
  <2> QED
    BY <1>1, <2>2, <2>3
<1> QED
  BY <1>1, <1>2, <1>3

(* A new pool has the buffers that were numbered last, each of them once.  *)
LEMMA NewPoolIs ==
  ASSUME NEW k \in Nat, NEW n \in Nat
  PROVE  /\ NewPool(k, n) \in Seq((k + 1)..(k + n))
         /\ Range(NewPool(k, n)) = (k + 1)..(k + n)
         /\ IsInjective(NewPool(k, n))
<1> DEFINE p == NewPool(k, n)
<1>1. /\ DOMAIN p = 1..n
      /\ \A i \in 1..n : p[i] = k + n + 1 - i /\ p[i] \in (k + 1)..(k + n)
      /\ p \in Seq((k + 1)..(k + n))
  BY DEF NewPool
<1> HIDE DEF p
<1>2. Range(p) \subseteq (k + 1)..(k + n)
  BY <1>1 DEF Range
<1>3. ASSUME NEW b \in (k + 1)..(k + n) PROVE b \in Range(p)
  <2>1. k + n + 1 - b \in 1..n /\ p[k + n + 1 - b] = b
    BY <1>1
  <2> QED
    BY <1>1, <2>1 DEF Range
<1>4. IsInjective(p)
  BY <1>1 DEF IsInjective
<1> QED
  BY <1>1, <1>2, <1>3, <1>4 DEF p

LEMMA NapiInit == Init => NapiInv
<1> SUFFICES ASSUME Init PROVE NapiInv
  OBVIOUS
<1> USE NapiAssumption DEF Init
<1>1. PoolSize * (0 + 1) = PoolSize /\ txErrors = 0 /\ PoolSize <= PoolSize * (MaxTimeout + 1)
  BY LastFacts
<1>2. /\ ppool \in Seq(1..PoolSize) /\ Range(ppool) = 1..PoolSize /\ IsInjective(ppool)
  <2>1. /\ NewPool(0, PoolSize) \in Seq((0 + 1)..(0 + PoolSize))
        /\ Range(NewPool(0, PoolSize)) = (0 + 1)..(0 + PoolSize)
        /\ IsInjective(NewPool(0, PoolSize))
    BY NewPoolIs
  <2>2. (0 + 1)..(0 + PoolSize) = 1..PoolSize
    OBVIOUS
  <2> QED
    BY <2>1, <2>2
<1>3. 1..PoolSize \subseteq Buf
  BY <1>1 DEF Buf
<1>4. ppool \in Seq(Buf)
  BY <1>2, <1>3
<1>5. NapiTypes
  BY <1>1, <1>4 DEF NapiTypes, LastBuf
<1>6. IsInjective(<<>>) /\ Range(<<>>) = {}
  BY DEF IsInjective, Range
<1>7. OnePlace
  BY <1>2, <1>6 DEF OnePlace, TxHolds, PollHolds
<1> QED
  BY <1>5, <1>7 DEF NapiInv, PollRuns, MaskedWhilePolling

-----------------------------------------------------------------------------
(* The steps that neither move a buffer nor touch the list heads.          *)
LEMMA QuietKeeps ==
  ASSUME NapiInv,
         \/ Xmit \/ OutOfPool \/ TestRxInt \/ NapiInterrupt \/ TxInterrupt
         \/ LoseTxInterrupt \/ TxTimeout \/ EndTimeout
         \/ StartPoll \/ LeavePollLoop \/ TestStopped \/ TestNext \/ WakeQueue
         \/ EndPoll \/ UNCHANGED vars
  PROVE  NapiInv' /\ UNCHANGED <<ppool, rxQueue, data, live, rcvd, TxHolds, PollHolds>>
<1> USE DEF NapiInv
<1>1. /\ UNCHANGED <<ppool, rxQueue, data, live, rcvd, txErrors>>
      /\ (txPc # "enqueue" /\ txPc' # "enqueue") \/ UNCHANGED <<txPc, txPkt>>
      /\ (pollPc # "release" /\ pollPc' # "release") \/ UNCHANGED <<pollPc, pollPkt>>
  <2> USE DEF memVars, txVars, rxVars, histVars
  <2>1. CASE Xmit \/ OutOfPool
    BY <2>1 DEF Xmit, OutOfPool
  <2>2. CASE TestRxInt \/ NapiInterrupt
    BY <2>2 DEF TestRxInt, NapiInterrupt
  <2>3. CASE TxInterrupt \/ LoseTxInterrupt
    BY <2>3 DEF TxInterrupt, LoseTxInterrupt, FreeSkb
  <2>4. CASE TxTimeout \/ EndTimeout
    BY <2>4 DEF TxTimeout, EndTimeout, FreeSkb
  <2>5. CASE StartPoll \/ LeavePollLoop \/ EndPoll
    BY <2>5 DEF StartPoll, LeavePollLoop, EndPoll, NapiTypes, PollRuns
  <2>6. CASE TestStopped \/ TestNext \/ WakeQueue
    BY <2>6 DEF TestStopped, TestNext, WakeQueue
  <2>7. CASE UNCHANGED vars
    BY <2>7 DEF vars
  <2> QED
    BY <2>1, <2>2, <2>3, <2>4, <2>5, <2>6, <2>7
<1>2. TxHolds' = TxHolds /\ PollHolds' = PollHolds
  BY <1>1 DEF TxHolds, PollHolds
<1>3. OnePlace'
  BY <1>1, <1>2 DEF OnePlace
<1>4. NapiTypes' /\ PollRuns' /\ MaskedWhilePolling'
  <2>1. CASE Xmit \/ OutOfPool
    BY <1>1, <2>1 DEF Xmit, OutOfPool, NapiTypes, LastBuf, PollRuns, MaskedWhilePolling,
       rxVars, histVars
  <2>6. CASE TestRxInt
    BY <1>1, <2>6 DEF TestRxInt, NapiTypes, LastBuf, PollRuns, MaskedWhilePolling, rxVars,
       histVars
  <2>7. CASE NapiInterrupt
    <3>1. /\ txPc = "rxIntr" /\ txPc' = "txIntr" /\ rxIntEnabled' = FALSE
          /\ napi' = (IF napi = "off" THEN "scheduled" ELSE napi)
          /\ UNCHANGED <<sent, txPkt, pollPc, pollPkt>>
      BY <2>7 DEF NapiInterrupt, histVars
    <3>2. NapiTypes'
      BY <1>1, <3>1 DEF NapiTypes, LastBuf
    <3>3. napi' # "off" /\ (napi' = "polling" <=> napi = "polling")
      BY <3>1
    <3> QED
      BY <3>1, <3>2, <3>3 DEF PollRuns, MaskedWhilePolling
  <2>2. CASE TxInterrupt \/ LoseTxInterrupt \/ TxTimeout \/ EndTimeout
    BY <1>1, <2>2, NapiAssumption DEF TxInterrupt, LoseTxInterrupt, TxTimeout, EndTimeout,
       FreeSkb, NapiTypes, LastBuf, PollRuns, MaskedWhilePolling, rxVars, histVars
  <2>3. CASE StartPoll \/ LeavePollLoop \/ TestStopped \/ TestNext \/ WakeQueue
    BY <1>1, <2>3 DEF StartPoll, LeavePollLoop, TestStopped, TestNext, WakeQueue, NapiTypes,
       LastBuf, PollRuns, MaskedWhilePolling, txVars, histVars
  <2>4. CASE EndPoll
    BY <1>1, <2>4 DEF EndPoll, NapiTypes, LastBuf, PollRuns, MaskedWhilePolling, Completes,
       txVars, histVars
  <2>5. CASE UNCHANGED vars
    BY <1>1, <2>5 DEF vars, NapiTypes, LastBuf, PollRuns, MaskedWhilePolling, txVars,
       rxVars, histVars
  <2> QED
    BY <2>1, <2>2, <2>3, <2>4, <2>5, <2>6, <2>7
<1> QED
  BY <1>1, <1>2, <1>3, <1>4

LEMMA GetKeeps == ASSUME NapiInv, GetTxBuffer PROVE NapiInv'
<1> USE DEF NapiInv
<1> DEFINE b == Head(ppool)
<1>1. /\ txPc = "get" /\ ppool # <<>> /\ txPkt' = b /\ ppool' = Tail(ppool)
      /\ data' = [data EXCEPT ![b] = sent] /\ txPc' = "enqueue"
      /\ UNCHANGED <<rxQueue, live, txErrors, rxIntEnabled, napi, pollPc, pollPkt, sent>>
  BY DEF GetTxBuffer, rxVars, histVars
<1>2. ppool \in Seq(Buf) /\ IsInjective(ppool)
  BY DEF NapiTypes, OnePlace
<1>3. /\ b \in Range(ppool) /\ Range(ppool') = Range(ppool) \ {b} /\ IsInjective(ppool')
      /\ b \in Buf /\ ppool' \in Seq(Buf)
  BY <1>1, <1>2, PopMembers, RangeInSet
<1> HIDE DEF b
<1>4. NapiTypes'
  BY <1>1, <1>3 DEF NapiTypes, LastBuf
<1>5. TxHolds = {} /\ TxHolds' = {b} /\ PollHolds' = PollHolds
  BY <1>1 DEF TxHolds, PollHolds
<1>6. OnePlace'
  BY <1>1, <1>3, <1>5 DEF OnePlace
<1> QED
  BY <1>1, <1>4, <1>6 DEF PollRuns, MaskedWhilePolling

LEMMA EnqueueKeeps == ASSUME NapiInv, EnqueueBuf PROVE NapiInv'
<1> USE DEF NapiInv
<1>1. /\ txPc = "enqueue" /\ rxQueue' = Push(rxQueue, txPkt) /\ txPc' = "ifRxInt"
      /\ UNCHANGED <<ppool, data, live, txPkt, txErrors, rxIntEnabled, napi>>
      /\ UNCHANGED <<pollPc, pollPkt, sent>>
  BY DEF EnqueueBuf, rxVars, histVars
<1>2. /\ txPkt \in Buf /\ rxQueue \in Seq(Buf) /\ IsInjective(rxQueue)
      /\ TxHolds = {txPkt} /\ TxHolds' = {} /\ PollHolds' = PollHolds
  BY <1>1 DEF NapiTypes, OnePlace, TxHolds, PollHolds
<1>3. txPkt \notin Range(rxQueue)
  BY <1>2 DEF OnePlace
<1>4. /\ Range(rxQueue') = {txPkt} \cup Range(rxQueue) /\ IsInjective(rxQueue')
      /\ rxQueue' \in Seq(Buf)
  BY <1>1, <1>2, <1>3, PushMembers DEF Push
<1>5. NapiTypes'
  BY <1>1, <1>4 DEF NapiTypes, LastBuf
<1>6. OnePlace'
  BY <1>1, <1>2, <1>4 DEF OnePlace
<1> QED
  BY <1>1, <1>5, <1>6 DEF PollRuns, MaskedWhilePolling

LEMMA PollPacketKeeps == ASSUME NapiInv, NEW ok \in BOOLEAN, PollPacket(ok) PROVE NapiInv'
<1> USE DEF NapiInv
<1> DEFINE b == Head(rxQueue)
<1>1. /\ pollPc = "loop" /\ rxQueue # <<>> /\ pollPkt' = b /\ rxQueue' = Tail(rxQueue)
      /\ pollPc' = "release"
      /\ UNCHANGED <<ppool, data, live, txPc, txPkt, txErrors, rxIntEnabled, napi, sent>>
  BY DEF PollPacket, PollsOn, Unlinked, txVars
<1>2. rxQueue \in Seq(Buf) /\ IsInjective(rxQueue)
  BY DEF NapiTypes, OnePlace
<1>3. /\ b \in Range(rxQueue) /\ Range(rxQueue') = Range(rxQueue) \ {b} /\ IsInjective(rxQueue')
      /\ b \in Buf /\ rxQueue' \in Seq(Buf)
  BY <1>1, <1>2, PopMembers, RangeInSet
<1> HIDE DEF b
<1>4. NapiTypes'
  BY <1>1, <1>3 DEF NapiTypes, LastBuf
<1>5. PollHolds = {} /\ PollHolds' = {b} /\ TxHolds' = TxHolds
  BY <1>1 DEF TxHolds, PollHolds
<1>6. OnePlace'
  BY <1>1, <1>3, <1>5 DEF OnePlace
<1> QED
  BY <1>1, <1>4, <1>6 DEF PollRuns, MaskedWhilePolling

LEMMA ReleaseKeeps == ASSUME NapiInv, ReleaseBuffer PROVE NapiInv'
<1> USE DEF NapiInv
<1>1. /\ pollPc = "release" /\ ppool' = Push(ppool, pollPkt) /\ pollPc' = "ifStopped"
      /\ UNCHANGED <<rxQueue, data, live, txPc, txPkt, txErrors, rxIntEnabled, napi>>
      /\ UNCHANGED <<pollPkt, sent>>
  BY DEF ReleaseBuffer, txVars, histVars
<1>2. /\ pollPkt \in Buf /\ ppool \in Seq(Buf) /\ IsInjective(ppool)
      /\ PollHolds = {pollPkt} /\ PollHolds' = {} /\ TxHolds' = TxHolds
  BY <1>1 DEF NapiTypes, OnePlace, TxHolds, PollHolds
<1>3. pollPkt \notin Range(ppool)
  BY <1>2 DEF OnePlace
<1>4. /\ Range(ppool') = {pollPkt} \cup Range(ppool) /\ IsInjective(ppool')
      /\ ppool' \in Seq(Buf)
  BY <1>1, <1>2, <1>3, PushMembers DEF Push
<1>5. NapiTypes'
  BY <1>1, <1>4 DEF NapiTypes, LastBuf
<1>6. OnePlace'
  BY <1>1, <1>2, <1>4 DEF OnePlace
<1> QED
  BY <1>1, <1>5, <1>6 DEF PollRuns, MaskedWhilePolling

(* The watchdog frees what is in the pool and nothing else; the new        *)
(* buffers have numbers that no live one has.                              *)
LEMMA ResetKeeps == ASSUME NapiInv, NEW n \in 0..PoolSize, ResetPool(n) PROVE NapiInv'
<1> USE DEF NapiInv
<1>1. /\ txPc = "reset" /\ txPc' = "recover" /\ txErrors' = txErrors + 1
      /\ ppool' = NewPool(LastBuf, n)
      /\ live' = (live \ Range(ppool)) \cup ((LastBuf + 1)..(LastBuf + n))
      /\ UNCHANGED <<rxQueue, data, txPkt, rxIntEnabled, napi, pollPc, pollPkt, sent>>
  BY DEF ResetPool, TornDown, LastBuf, rxVars, histVars
<1>2. txErrors \in Nat /\ txErrors + 1 \in 0..MaxTimeout /\ n \in Nat /\ n <= PoolSize
  BY <1>1, NapiAssumption DEF NapiTypes
<1>3. LastBuf \in Nat /\ LastBuf' = LastBuf + PoolSize
  BY <1>1, <1>2, LastFacts DEF LastBuf
<1>4. LastBuf' <= PoolSize * (MaxTimeout + 1) /\ PoolSize * (MaxTimeout + 1) \in Nat
  BY <1>1, <1>2, LastFacts, NapiAssumption DEF LastBuf
<1> DEFINE New == (LastBuf + 1)..(LastBuf + n)
<1>5. /\ ppool' \in Seq(New) /\ Range(ppool') = New /\ IsInjective(ppool')
  BY <1>1, <1>2, <1>3, NewPoolIs
<1>6. New \subseteq Buf /\ New \subseteq 1..(LastBuf') /\ New \cap 1..LastBuf = {}
      /\ 1..LastBuf \subseteq 1..(LastBuf')
  BY <1>2, <1>3, <1>4, NapiAssumption DEF Buf
<1> HIDE DEF New
<1>7. ppool' \in Seq(Buf)
  BY <1>5, <1>6, SeqOfMore
<1>8. live' \subseteq 1..(LastBuf')
  BY <1>1, <1>6 DEF NapiTypes, New
<1>9. NapiTypes'
  BY <1>1, <1>2, <1>7, <1>8 DEF NapiTypes
<1>10. TxHolds = {} /\ TxHolds' = {} /\ PollHolds' = PollHolds
  BY <1>1 DEF TxHolds, PollHolds
<1>11. Range(rxQueue) \cap New = {} /\ PollHolds \cap New = {}
  BY <1>6 DEF NapiTypes, OnePlace
<1>12. live' = New \cup Range(rxQueue) \cup PollHolds
  BY <1>1, <1>10 DEF OnePlace, New
<1>13. OnePlace'
  BY <1>1, <1>5, <1>10, <1>11, <1>12 DEF OnePlace
<1> QED
  BY <1>1, <1>9, <1>13 DEF PollRuns, MaskedWhilePolling

LEMMA NapiNext == NapiInv /\ [Next]_vars => NapiInv'
<1> SUFFICES ASSUME NapiInv, [Next]_vars PROVE NapiInv'
  OBVIOUS
<1>1. CASE Transmit
  BY <1>1, QuietKeeps, GetKeeps, EnqueueKeeps, ResetKeeps DEF Transmit
<1>2. CASE Poll
  BY <1>2, QuietKeeps, PollPacketKeeps, ReleaseKeeps DEF Poll
<1> QED
  BY <1>1, <1>2, QuietKeeps DEF Next, Halt

LEMMA NapiInvariant == Spec => []NapiInv
  BY NapiInit, NapiNext, PTL DEF Spec

(* LiveInOnePlace: no buffer is lost, shared or used after it was freed,   *)
(* although the watchdog replaces the pool while frames are in flight.     *)
THEOREM BuffersStayInPlace == Spec => []LiveInOnePlace
<1>1. NapiInv => LiveInOnePlace
  <2> SUFFICES ASSUME NapiInv PROVE LiveInOnePlace
    OBVIOUS
  <2>1. {b \in Buf : InHand(b)} = TxHolds \cup PollHolds
    BY DEF NapiInv, NapiTypes, InHand, TxHolds, PollHolds
  <2>2. ~(txPc = "enqueue" /\ pollPc = "release" /\ txPkt = pollPkt)
    BY DEF NapiInv, OnePlace, TxHolds, PollHolds
  <2> QED
    BY <2>1, <2>2 DEF NapiInv, OnePlace, LiveInOnePlace
<1> QED
  BY <1>1, NapiInvariant, PTL

(* MaskedWhilePolling: snull_napi_interrupt and the end of snull_poll keep *)
(* the interrupt mask and the NAPI state in step.                          *)
THEOREM MaskFollowsPoll == Spec => []MaskedWhilePolling
<1>1. NapiInv => MaskedWhilePolling
  BY DEF NapiInv
<1> QED
  BY <1>1, NapiInvariant, PTL

-----------------------------------------------------------------------------
(* The refinement.  A frame leaves the link when its buffer leaves the     *)
(* queue, so no other queued buffer may carry it; and the buffer that      *)
(* snull_hw_tx queues carries the frame that was handed over last.         *)
Sending == txPc \in {"get", "enqueue"}

FramesApart ==
  /\ \A b \in Range(rxQueue) : data[b] <= sent /\ (Sending => data[b] # sent)
  /\ \A a, b \in Range(rxQueue) : data[a] = data[b] => a = b
  /\ txPc = "enqueue" => data[txPkt] = sent

LinkInv == NapiInv /\ FramesApart

LEMMA QueuedFrames ==
  NapiInv => \A b \in Range(rxQueue) : b \in Buf /\ data[b] \in Nat
  BY RangeInSet DEF NapiInv, NapiTypes

(* What the steps do to the queue's members and their frames.              *)
LEMMA GetFrames ==
  ASSUME LinkInv, GetTxBuffer
  PROVE  /\ UNCHANGED <<rxQueue, sent, rcvd>> /\ txPc = "get" /\ txPc' = "enqueue"
         /\ \A b \in Range(rxQueue) : data'[b] = data[b]
         /\ data'[txPkt'] = sent
<1> DEFINE b0 == Head(ppool)
<1>1. ppool \in Seq(Buf) /\ ppool # <<>> /\ IsInjective(ppool)
  BY DEF LinkInv, NapiInv, NapiTypes, OnePlace, GetTxBuffer
<1>2. b0 \in Range(ppool) /\ b0 \in Buf
  BY <1>1, PopMembers, RangeInSet
<1>3. b0 \notin Range(rxQueue)
  BY <1>2 DEF LinkInv, NapiInv, OnePlace
<1>4. /\ UNCHANGED <<rxQueue, sent, rcvd>> /\ txPc = "get" /\ txPc' = "enqueue"
      /\ txPkt' = b0 /\ data' = [data EXCEPT ![b0] = sent] /\ data \in [Buf -> Nat]
  BY DEF GetTxBuffer, histVars, LinkInv, NapiInv, NapiTypes
<1> HIDE DEF b0
<1> QED
  BY <1>2, <1>3, <1>4, QueuedFrames DEF LinkInv

LEMMA EnqueueFrames ==
  ASSUME LinkInv, EnqueueBuf
  PROVE  /\ UNCHANGED <<data, sent, rcvd, txPkt>> /\ txPc = "enqueue" /\ txPc' = "ifRxInt"
         /\ Range(rxQueue') = {txPkt} \cup Range(rxQueue)
         /\ data[txPkt] = sent
<1>1. /\ txPc = "enqueue" /\ txPc' = "ifRxInt" /\ UNCHANGED <<data, sent, rcvd, txPkt>>
      /\ rxQueue' = Push(rxQueue, txPkt)
  BY DEF EnqueueBuf, histVars
<1>2. Range(rxQueue') = {txPkt} \cup Range(rxQueue)
  BY <1>1, PushMembers DEF LinkInv, NapiInv, NapiTypes
<1> QED
  BY <1>1, <1>2 DEF LinkInv, FramesApart

LEMMA PollFrames ==
  ASSUME LinkInv, NEW ok \in BOOLEAN, PollPacket(ok)
  PROVE  /\ UNCHANGED <<data, sent, txPc, txPkt>>
         /\ Head(rxQueue) \in Range(rxQueue)
         /\ Range(rxQueue') = Range(rxQueue) \ {Head(rxQueue)}
         /\ rcvd' = IF ok THEN Append(rcvd, data[Head(rxQueue)]) ELSE rcvd
<1>1. /\ UNCHANGED <<data, sent, txPc, txPkt>> /\ rxQueue # <<>> /\ rxQueue' = Tail(rxQueue)
      /\ rcvd' = IF ok THEN Append(rcvd, data[Head(rxQueue)]) ELSE rcvd
  BY DEF PollPacket, PollsOn, Unlinked, txVars
<1> QED
  BY <1>1, PopMembers DEF LinkInv, NapiInv, NapiTypes, OnePlace

(* All the others leave the queue and its frames alone.                    *)
LEMMA OtherFrames ==
  ASSUME LinkInv,
         \/ TestRxInt \/ NapiInterrupt \/ TxInterrupt \/ LoseTxInterrupt \/ TxTimeout
         \/ EndTimeout \/ StartPoll \/ LeavePollLoop \/ TestStopped \/ TestNext
         \/ WakeQueue \/ EndPoll \/ ReleaseBuffer \/ (\E n \in 0..PoolSize : ResetPool(n))
         \/ UNCHANGED vars
  PROVE  /\ UNCHANGED <<rxQueue, data, sent, rcvd>>
         /\ UNCHANGED <<txPc, txPkt>> \/ (~Sending /\ ~Sending')
<1> USE DEF memVars, txVars, histVars, Sending
<1>1. CASE TestRxInt \/ NapiInterrupt
  BY <1>1 DEF TestRxInt, NapiInterrupt
<1>2. CASE TxInterrupt \/ LoseTxInterrupt
  BY <1>2 DEF TxInterrupt, LoseTxInterrupt, FreeSkb
<1>3. CASE TxTimeout \/ EndTimeout
  BY <1>3 DEF TxTimeout, EndTimeout, FreeSkb
<1>4. CASE StartPoll \/ LeavePollLoop \/ EndPoll
  BY <1>4 DEF StartPoll, LeavePollLoop, EndPoll
<1>5. CASE TestStopped \/ TestNext \/ WakeQueue \/ ReleaseBuffer
  BY <1>5 DEF TestStopped, TestNext, WakeQueue, ReleaseBuffer
<1>6. CASE \E n \in 0..PoolSize : ResetPool(n)
  BY <1>6 DEF ResetPool
<1>7. CASE UNCHANGED vars
  BY <1>7 DEF vars
<1> QED
  BY <1>1, <1>2, <1>3, <1>4, <1>5, <1>6, <1>7

LEMMA FramesApartNext == LinkInv /\ [Next]_vars => FramesApart'
<1> SUFFICES ASSUME LinkInv, [Next]_vars PROVE FramesApart'
  OBVIOUS
<1> USE QueuedFrames DEF LinkInv
<1>1. sent \in Nat
  BY DEF NapiInv, NapiTypes
<1>2. CASE Xmit
  <2>1. /\ txPc' = "get" /\ sent' = sent + 1 /\ UNCHANGED <<rxQueue, data>>
    BY <1>2 DEF Xmit, memVars
  <2> QED
    BY <1>1, <2>1 DEF FramesApart
<1>3. CASE GetTxBuffer
  BY <1>3, GetFrames DEF FramesApart, Sending
<1>4. CASE OutOfPool
  BY <1>4 DEF OutOfPool, FramesApart, Sending, memVars, histVars
<1>5. CASE EnqueueBuf
  <2>1. /\ UNCHANGED <<data, sent, txPkt>> /\ ~Sending' /\ Sending /\ txPc' # "enqueue"
        /\ Range(rxQueue') = {txPkt} \cup Range(rxQueue) /\ data[txPkt] = sent
    BY <1>5, EnqueueFrames DEF Sending
  <2> QED
    BY <1>1, <2>1 DEF FramesApart
<1>6. ASSUME NEW ok \in BOOLEAN, PollPacket(ok) PROVE FramesApart'
  BY <1>6, PollFrames DEF FramesApart, Sending
<1>7. CASE \/ TestRxInt \/ NapiInterrupt \/ TxInterrupt \/ LoseTxInterrupt \/ TxTimeout
           \/ EndTimeout \/ StartPoll \/ LeavePollLoop \/ TestStopped \/ TestNext
           \/ WakeQueue \/ EndPoll \/ ReleaseBuffer \/ (\E n \in 0..PoolSize : ResetPool(n))
           \/ UNCHANGED vars
  <2>1. /\ UNCHANGED <<rxQueue, data, sent>>
        /\ UNCHANGED <<txPc, txPkt>> \/ (~Sending /\ ~Sending')
    BY <1>7, OtherFrames
  <2> QED
    BY <2>1 DEF FramesApart, Sending
<1> QED
  BY <1>2, <1>3, <1>4, <1>5, <1>6, <1>7 DEF Next, Transmit, Poll, Halt

LEMMA LinkInvariant == Spec => []LinkInv
<1>1. Init => FramesApart
  <2>1. Range(<<>>) = {}
    BY DEF Range
  <2> QED
    BY <2>1 DEF Init, FramesApart
<1>2. LinkInv /\ [Next]_vars => LinkInv'
  BY NapiNext, FramesApartNext DEF LinkInv
<1> QED
  BY <1>1, <1>2, NapiInit, PTL DEF Spec, LinkInv

(* The frames on their way to Dst.                                         *)
Carried == {data[b] : b \in Range(rxQueue)}
             \cup (IF txPc \in {"get", "enqueue"} THEN {sent} ELSE {})

LEMMA LinkStutter ==
  ASSUME UNCHANGED <<sent, rcvd, Carried>>
  PROVE  UNCHANGED Link!vars
  BY DEF Link!vars, Carried

LEMMA MappedTo ==
  ASSUME NEW C, NEW D
  PROVE  [[d \in {Src, Dst} |-> IF d = Src THEN {} ELSE C] EXCEPT ![Dst] = D]
           = [d \in {Src, Dst} |-> IF d = Src THEN {} ELSE D]
<1> DEFINE G == [d \in {Src, Dst} |-> IF d = Src THEN {} ELSE C]
           H == [d \in {Src, Dst} |-> IF d = Src THEN {} ELSE D]
<1>1. G[Src] = {} /\ H[Src] = {} /\ H[Dst] = D /\ DOMAIN G = {Src, Dst}
  BY NapiAssumption
<1>2. [G EXCEPT ![Dst] = D] = [d \in {Src, Dst} |-> IF d = Dst THEN D ELSE G[d]]
  BY <1>1, Zenon
<1>3. \A d \in {Src, Dst} : (IF d = Dst THEN D ELSE G[d]) = (IF d = Src THEN {} ELSE D)
  BY <1>1, NapiAssumption
<1> QED
  BY <1>2, <1>3, Zenon

(* A step that takes frame f off the link, and passes it up or not.        *)
LEMMA LinkTakes ==
  ASSUME NEW f \in Carried, NEW up \in BOOLEAN, sent' = sent,
         Carried' = Carried \ {f}, rcvd' = IF up THEN Append(rcvd, f) ELSE rcvd
  PROVE  Link!Next
<1> USE NapiAssumption
<1> DEFINE F == [d \in {Src, Dst} |-> IF d = Src THEN {} ELSE Carried]
           R == [d \in {Src, Dst} |-> IF d = Dst THEN rcvd ELSE <<>>]
<1>1. [d \in {Src, Dst} |-> IF d = Src THEN {} ELSE Carried'] = [F EXCEPT ![Dst] = @ \ {f}]
  <2>1. PICK C, D : C = Carried /\ D = Carried' /\ D = C \ {f}
    OBVIOUS
  <2>2. [d \in {Src, Dst} |-> IF d = Src THEN {} ELSE D]
          = [[d \in {Src, Dst} |-> IF d = Src THEN {} ELSE C] EXCEPT ![Dst] = @ \ {f}]
    <3> DEFINE G == [d \in {Src, Dst} |-> IF d = Src THEN {} ELSE C]
    <3>1. G[Dst] = C /\ G[Src] = {}
      OBVIOUS
    <3>2. [G EXCEPT ![Dst] = @ \ {f}] = [G EXCEPT ![Dst] = D]
      BY <2>1, <3>1, Zenon
    <3>3. [G EXCEPT ![Dst] = D] = [d \in {Src, Dst} |-> IF d = Src THEN {} ELSE D]
      BY MappedTo, Zenon
    <3> QED
      BY <3>2, <3>3, Zenon
  <2> QED
    BY <2>1, <2>2, Zenon
<1>2. f \in F[Dst]
  OBVIOUS
<1>3. CASE up
  <2>1. [d \in {Src, Dst} |-> IF d = Dst THEN rcvd' ELSE <<>>]
          = [R EXCEPT ![Dst] = Append(@, f)]
    BY <1>3
  <2>2. Link!Deliver(Dst, f)
    BY <1>1, <1>2, <2>1 DEF Link!Deliver, Carried
  <2> QED
    BY <1>2, <2>2 DEF Link!Next, Carried
<1>4. CASE ~up
  <2>1. Link!Lose(Dst, f)
    BY <1>1, <1>2, <1>4 DEF Link!Lose, Carried
  <2> QED
    BY <1>2, <2>1 DEF Link!Next, Carried
<1> QED
  BY <1>3, <1>4

LEMMA LinkStep == LinkInv /\ [Next]_vars => [Link!Next]_Link!vars
<1> SUFFICES ASSUME LinkInv, [Next]_vars PROVE Link!Next \/ UNCHANGED Link!vars
  OBVIOUS
<1>1. CASE Xmit
  <2> DEFINE F == [d \in {Src, Dst} |-> IF d = Src THEN {} ELSE Carried]
             A == [d \in {Src, Dst} |-> IF d = Src THEN sent ELSE 0]
             P == [d \in {Src, Dst} |-> IF d = Src THEN Dst ELSE Src]
  <2>1. /\ txPc = "idle" /\ txPc' = "get" /\ sent' = sent + 1
        /\ UNCHANGED <<rxQueue, data, rcvd>>
    BY <1>1 DEF Xmit, memVars
  <2>2. Carried' = Carried \cup {sent + 1}
    BY <2>1 DEF Carried
  <2>3. P[Src] = Dst /\ A[Src] = sent
    OBVIOUS
  <2>4. [d \in {Src, Dst} |-> IF d = Src THEN {} ELSE Carried']
          = [F EXCEPT ![P[Src]] = @ \cup {A[Src] + 1}]
    BY <2>2, <2>3, NapiAssumption
  <2>5. [d \in {Src, Dst} |-> IF d = Src THEN sent' ELSE 0] = [A EXCEPT ![Src] = @ + 1]
    BY <2>1, NapiAssumption
  <2>6. Link!Accept(Src)
    BY <2>1, <2>4, <2>5 DEF Link!Accept, Carried
  <2> QED
    BY <2>6 DEF Link!Next
<1>2. CASE GetTxBuffer
  <2>1. /\ UNCHANGED <<rxQueue, sent, rcvd>> /\ txPc = "get" /\ txPc' = "enqueue"
        /\ \A b \in Range(rxQueue) : data'[b] = data[b]
    BY <1>2, GetFrames
  <2>2. Carried' = Carried
    BY <2>1 DEF Carried
  <2> QED
    BY <2>1, <2>2, LinkStutter
<1>3. CASE OutOfPool
  <2>1. txPc = "get" /\ txPc' = "idle" /\ UNCHANGED <<rxQueue, data, sent, rcvd>>
    BY <1>3 DEF OutOfPool, memVars, histVars
  <2>2. \A b \in Range(rxQueue) : data[b] # sent
    BY <2>1 DEF LinkInv, FramesApart, Sending
  <2>3. sent \in Carried /\ Carried' = Carried \ {sent}
    BY <2>1, <2>2 DEF Carried
  <2> QED
    BY <2>1, <2>3, LinkTakes
<1>4. CASE EnqueueBuf
  <2>1. /\ UNCHANGED <<data, sent, rcvd>> /\ txPc = "enqueue" /\ txPc' = "ifRxInt"
        /\ Range(rxQueue') = {txPkt} \cup Range(rxQueue) /\ data[txPkt] = sent
    BY <1>4, EnqueueFrames
  <2>2. Carried' = Carried
    BY <2>1 DEF Carried
  <2> QED
    BY <2>1, <2>2, LinkStutter
<1>5. ASSUME NEW ok \in BOOLEAN, PollPacket(ok) PROVE Link!Next
  <2>1. PICK b0 \in Range(rxQueue) :
          /\ UNCHANGED <<data, sent, txPc>> /\ Range(rxQueue') = Range(rxQueue) \ {b0}
          /\ rcvd' = IF ok THEN Append(rcvd, data[b0]) ELSE rcvd
    BY <1>5, PollFrames
  <2>2. /\ \A b \in Range(rxQueue) : data[b] = data[b0] => b = b0
        /\ txPc \in {"get", "enqueue"} => data[b0] # sent
    BY DEF LinkInv, FramesApart, Sending
  <2>3. {data[b] : b \in Range(rxQueue) \ {b0}} = {data[b] : b \in Range(rxQueue)} \ {data[b0]}
    BY <2>2
  <2>4. data[b0] \in Carried /\ Carried' = Carried \ {data[b0]}
    BY <2>1, <2>2, <2>3 DEF Carried
  <2> QED
    BY <2>1, <2>4, LinkTakes
<1>6. CASE \/ TestRxInt \/ NapiInterrupt \/ TxInterrupt \/ LoseTxInterrupt \/ TxTimeout
           \/ EndTimeout \/ StartPoll \/ LeavePollLoop \/ TestStopped \/ TestNext
           \/ WakeQueue \/ EndPoll \/ ReleaseBuffer \/ (\E n \in 0..PoolSize : ResetPool(n))
           \/ UNCHANGED vars
  <2>1. /\ UNCHANGED <<rxQueue, data, sent, rcvd>>
        /\ UNCHANGED <<txPc, txPkt>> \/ (~Sending /\ ~Sending')
    BY <1>6, OtherFrames
  <2>2. Carried' = Carried
    BY <2>1 DEF Carried, Sending
  <2> QED
    BY <2>1, <2>2, LinkStutter
<1> QED
  BY <1>1, <1>2, <1>3, <1>4, <1>5, <1>6 DEF Next, Transmit, Poll, Halt

LEMMA LinkInit == Init => Link!Init
<1>1. Range(<<>>) = {}
  BY DEF Range
<1> QED
  BY <1>1 DEF Init, Link!Init

(* ImplementsLink: the interrupt-masking, polling variant of the driver    *)
(* implements the same lossy link as the interrupt-driven one, also while  *)
(* the watchdog replaces the pool under it.                                *)
THEOREM NapiImplementsLink == Spec => ImplementsLink
  BY LinkInvariant, LinkInit, LinkStep, PTL DEF Spec, ImplementsLink, Link!Spec
=============================================================================
