---------------------------- MODULE SnullProofs ----------------------------
(***************************************************************************)
(* Proofs about Snull, for any set of interfaces, any pool sizes, any      *)
(* lockup parameter and any number of frames.                              *)
(***************************************************************************)
EXTENDS Snull, SequenceTheorems, TLAPS

(* The list operations keep lists of buffers.                              *)
LEMMA ListTypes ==
  ASSUME NEW S, NEW s \in Seq(S), NEW e \in S
  PROVE  /\ Push(s, e) \in Seq(S)
         /\ s # <<>> => Head(s) \in S /\ Tail(s) \in Seq(S)
  BY DEF Push

LEMMA BufFacts ==
  /\ \A b \in Buf : Owner(b) \in Dev
  /\ None \notin Buf
  BY DevAssumption, ParamAssumption, NoneAssumption DEF Buf, Owner

Stats == [txPackets : Nat, txErrors : Nat, rxPackets : Nat, rxDropped : Nat]

LEMMA StatsTypes ==
  ASSUME NEW s \in Stats, NEW ok \in BOOLEAN
  PROVE  /\ RxStats(s, ok) \in Stats
         /\ [s EXCEPT !.txPackets = @ + 1] \in Stats
         /\ [s EXCEPT !.txErrors = @ + 1] \in Stats
<1>1. [s EXCEPT !.rxPackets = @ + 1] \in Stats
  BY DEF Stats
<1>2. [s EXCEPT !.rxDropped = @ + 1] \in Stats
  BY DEF Stats
<1>3. [s EXCEPT !.txPackets = @ + 1] \in Stats
  BY DEF Stats
<1>4. [s EXCEPT !.txErrors = @ + 1] \in Stats
  BY DEF Stats
<1> QED
  BY <1>1, <1>2, <1>3, <1>4 DEF RxStats

(* A context that moves to l keeps the typing of the program counters.     *)
LEMMA MoveTypes ==
  ASSUME TypeOK, NEW c \in Dev, NEW l \in PC, GoTo(c, l),
         \A e \in Dev \ {c} : pkt'[e] = pkt[e],
         l \in HasBuf => pkt'[c] \in Buf
  PROVE  /\ pc' \in [Dev -> PC]
         /\ \A e \in Dev : pc'[e] \in HasBuf => pkt'[e] \in Buf
  BY DEF TypeOK, GoTo

LEMMA RetFacts == TypeOK => \A c \in Dev : ret[c] \in PC /\ ret[c] \notin HasBuf
  BY DEF TypeOK, PC, HasBuf

LEMMA TypeInit == Init => TypeOK
<1> SUFFICES ASSUME Init PROVE TypeOK
  OBVIOUS
<1> USE DevAssumption, ParamAssumption
<1>1. ppool \in [Dev -> Seq(Buf)]
  <2> SUFFICES ASSUME NEW d \in Dev
               PROVE  [i \in 1..PoolSize[d] |-> <<d, PoolSize[d] + 1 - i>>]
                        \in Seq(Buf)
    BY DEF Init, SetupPool, LinkSetUp
  <2>1. \A i \in 1..PoolSize[d] : <<d, PoolSize[d] + 1 - i>> \in Buf
    BY DEF Buf
  <2> QED
    BY <2>1
<1>2. next \in [Buf -> Buf \cup {None}]
  BY DEF Init, SetupPool, LinkSetUp, Buf
<1>3. /\ rxQueue \in [Dev -> Seq(Buf)]
      /\ data \in [Buf -> Nat]
      /\ status \in [Dev -> SUBSET {RX, TX}]
      /\ skb \in [Dev -> Nat]
      /\ stats \in [Dev -> [txPackets : Nat, txErrors : Nat,
                            rxPackets : Nat, rxDropped : Nat]]
      /\ stopped \subseteq Dev
      /\ up \subseteq Dev
      /\ lock \in [Dev -> Dev \cup {None}]
      /\ pc \in [Dev -> PC]
  BY DEF Init, SetupPool, LinkSetUp, PC
<1>4. /\ reg \in [Dev -> SUBSET {RX, TX}]
      /\ irq \in [Dev -> Dev]
      /\ ret \in [Dev -> {"idle", "loadTx", "recover"}]
      /\ pkt \in [Dev -> Buf \cup {None}]
      /\ \A c \in Dev : pc[c] \in HasBuf => pkt[c] \in Buf
      /\ sent \in [Dev -> Nat]
      /\ rcvd \in [Dev -> Seq(Nat)]
      /\ freed \in [Dev -> [1..MaxPkt -> Nat]]
  BY DEF Init, SetupPool, LinkSetUp, HasBuf
<1> QED
  BY <1>1, <1>2, <1>3, <1>4 DEF TypeOK

LEMMA TypeNext == TypeOK /\ [Next]_vars => TypeOK'
<1> SUFFICES ASSUME TypeOK, [Next]_vars PROVE TypeOK'
  OBVIOUS
<1> USE DevAssumption, ParamAssumption, BufFacts
<1>1. ASSUME NEW c \in Dev, Open(c) \/ Release(c) PROVE TypeOK'
  <2>1. up' \subseteq Dev /\ stopped' \subseteq Dev
    BY <1>1 DEF TypeOK, Open, Release
  <2>2. UNCHANGED <<ppool, rxQueue, next, data, status, skb, stats, lock, pc,
                    reg, irq, ret, pkt, sent, rcvd, freed>>
    BY <1>1 DEF Open, Release, ctxVars, histVars
  <2> QED
    BY <2>1, <2>2 DEF TypeOK
<1>2. ASSUME NEW c \in Dev, Xmit(c) PROVE TypeOK'
  <2>1. sent' \in [Dev -> Nat] /\ skb' \in [Dev -> Nat]
    <3>1. sent \in [Dev -> Nat] /\ skb \in [Dev -> Nat]
      BY DEF TypeOK
    <3>2. /\ sent' = [sent EXCEPT ![c] = sent[c] + 1]
          /\ skb' = [skb EXCEPT ![c] = sent[c] + 1]
      BY <1>2 DEF Xmit
    <3> QED
      BY <3>1, <3>2
  <2>2. pc' \in [Dev -> PC] /\ \A e \in Dev : pc'[e] \in HasBuf => pkt'[e] \in Buf
    <3>1. "get" \in PC /\ "get" \notin HasBuf
      BY DEF PC, HasBuf
    <3>2. GoTo(c, "get") /\ pkt' = pkt
      BY <1>2 DEF Xmit
    <3> QED
      BY <3>1, <3>2, MoveTypes
  <2> QED
    BY <1>2, <2>1, <2>2 DEF TypeOK, Xmit
<1>3. ASSUME NEW c \in Dev, GetTxBuffer(c) PROVE TypeOK'
  <2>1. ppool[c] \in Seq(Buf) /\ Head(ppool[c]) \in Buf /\ Tail(ppool[c]) \in Seq(Buf)
    BY <1>3 DEF TypeOK, GetTxBuffer
  <2> QED
    BY <1>3, <2>1 DEF TypeOK, GetTxBuffer, FrameCopied, At, GoTo, PC,
         HasBuf, StopsQueue, histVars
<1>4. ASSUME NEW c \in Dev, GetFromEmptyPool(c) PROVE TypeOK'
  BY <1>4 DEF TypeOK, GetFromEmptyPool, At, GoTo, PC, HasBuf, devVars, histVars
<1>5. ASSUME NEW c \in Dev, EnqueueBuf(c) PROVE TypeOK'
  <2>1. /\ pkt[c] \in Buf
        /\ Push(rxQueue[Peer[c]], pkt[c]) \in Seq(Buf)
        /\ First(rxQueue[Peer[c]]) \in Buf \cup {None}
    BY <1>5, ListTypes DEF TypeOK, EnqueueBuf, At, HasBuf, First
  <2> QED
    BY <1>5, <2>1 DEF TypeOK, EnqueueBuf, At, GoTo, PC, HasBuf, histVars
<1>6. ASSUME NEW c \in Dev,
             \/ LoadRxStatus(c) \/ StoreRxStatus(c)
             \/ LoadTxStatus(c) \/ StoreTxStatus(c) \/ TakeInterrupt(c)
      PROVE  TypeOK'
  <2>1. CASE LoadRxStatus(c)
    BY <2>1 DEF TypeOK, LoadRxStatus, At, GoTo, PC, HasBuf, devVars, histVars
  <2>2. CASE StoreRxStatus(c)
    BY <2>2 DEF TypeOK, StoreRxStatus, At, GoTo, PC, HasBuf, histVars
  <2>3. CASE LoadTxStatus(c)
    BY <2>3 DEF TypeOK, LoadTxStatus, At, GoTo, PC, HasBuf, devVars, histVars
  <2>4. CASE StoreTxStatus(c)
    BY <2>4 DEF TypeOK, StoreTxStatus, At, GoTo, PC, HasBuf, histVars
  <2>5. CASE TakeInterrupt(c)
    BY <2>5 DEF TypeOK, TakeInterrupt, At, GoTo, PC, HasBuf, devVars, histVars
  <2> QED
    BY <1>6, <2>1, <2>2, <2>3, <2>4, <2>5
<1>7. ASSUME NEW c \in Dev, LockupOrInterrupt(c) PROVE TypeOK'
  <2>1. AfterLockupTest(c) \in {"idle", "intr"}
    BY DEF AfterLockupTest
  <2> QED
    BY <1>7, <2>1 DEF TypeOK, LockupOrInterrupt, At, GoTo, PC, HasBuf, histVars
<1>8. ASSUME NEW c \in Dev, NEW ok \in BOOLEAN, ServeInterrupt(c, ok)
      PROVE  TypeOK'
  <2> DEFINE d == irq[c]
             rx == RX \in reg[c] /\ rxQueue[d] # <<>>
             rxS == IF rx THEN RxStats(stats[d], ok) ELSE stats[d]
  <2>1. d \in Dev /\ rxQueue[d] \in Seq(Buf) /\ stats[d] \in Stats
    BY DEF TypeOK, Stats
  <2>2. rx => Head(rxQueue[d]) \in Buf /\ Tail(rxQueue[d]) \in Seq(Buf)
    BY <2>1
  <2>3. rxS \in Stats /\ [rxS EXCEPT !.txPackets = @ + 1] \in Stats
    BY <2>1, StatsTypes
  <2>4. rx => data[Head(rxQueue[d])] \in Nat
    BY <2>2 DEF TypeOK
  <2>5. rcvd[d] \in Seq(Nat) /\ (rx => Append(rcvd[d], data[Head(rxQueue[d])]) \in Seq(Nat))
    BY <2>1, <2>4 DEF TypeOK
  <2>6. rxQueue' \in [Dev -> Seq(Buf)] /\ pkt' \in [Dev -> Buf \cup {None}]
    BY <1>8, <2>1, <2>2 DEF TypeOK, ServeInterrupt, Unlinked
  <2>7. stats' \in [Dev -> Stats]
    BY <1>8, <2>1, <2>3 DEF TypeOK, Stats, ServeInterrupt
  <2>8. rcvd' \in [Dev -> Seq(Nat)]
    BY <1>8, <2>1, <2>5 DEF TypeOK, ServeInterrupt
  <2>9. freed' \in [Dev -> [1..MaxPkt -> Nat]]
    <3> DEFINE g == [k \in 1..MaxPkt |-> IF TX \in reg[c] /\ k = skb[d]
                                          THEN freed[d][k] + 1
                                          ELSE freed[d][k]]
    <3>1. freed' = [freed EXCEPT ![d] = g]
      BY <1>8 DEF ServeInterrupt
    <3>2. freed \in [Dev -> [1..MaxPkt -> Nat]]
      BY DEF TypeOK
    <3>3. \A k \in 1..MaxPkt : freed[d][k] \in Nat
      BY <2>1, <3>2
    <3>4. g \in [1..MaxPkt -> Nat]
      <4> SUFFICES ASSUME NEW k \in 1..MaxPkt PROVE g[k] \in Nat
        OBVIOUS
      <4>1. g[k] = freed[d][k] + 1 \/ g[k] = freed[d][k]
        OBVIOUS
      <4> QED
        BY <3>3, <4>1
    <3> HIDE DEF g
    <3> QED
      BY <3>1, <3>2, <3>4
  <2>10. /\ pc' \in [Dev -> PC]
         /\ \A e \in Dev : pc'[e] \in HasBuf => pkt'[e] \in Buf
    <3>1. AfterServe(c, rx) \in PC /\ (AfterServe(c, rx) \in HasBuf => rx)
      BY RetFacts DEF AfterServe, PC
    <3>2. pkt' = [pkt EXCEPT ![c] = IF rx THEN Head(rxQueue[d]) ELSE None]
      BY <1>8 DEF ServeInterrupt
    <3>3. GoTo(c, AfterServe(c, rx))
      BY <1>8 DEF ServeInterrupt
    <3>4. rx => pkt'[c] \in Buf
      BY <3>2, <2>2 DEF TypeOK
    <3>5. \A e \in Dev \ {c} : pkt'[e] = pkt[e]
      BY <3>2 DEF TypeOK
    <3> HIDE DEF rx
    <3> QED
      BY <3>1, <3>3, <3>4, <3>5, MoveTypes
  <2>11. status' \in [Dev -> SUBSET {RX, TX}] /\ lock' \in [Dev -> Dev \cup {None}]
    BY <1>8, <2>1 DEF TypeOK, ServeInterrupt
  <2> QED
    BY <1>8, <2>6, <2>7, <2>8, <2>9, <2>10, <2>11 DEF TypeOK, Stats, ServeInterrupt
<1>9. ASSUME NEW c \in Dev, ReleaseBuffer(c) PROVE TypeOK'
  <2>1. pkt[c] \in Buf /\ Owner(pkt[c]) \in Dev
    BY <1>9 DEF TypeOK, ReleaseBuffer, At, HasBuf
  <2>2. /\ Push(ppool[Owner(pkt[c])], pkt[c]) \in Seq(Buf)
        /\ First(ppool[Owner(pkt[c])]) \in Buf \cup {None}
    BY <2>1, ListTypes DEF TypeOK, First
  <2> QED
    BY <1>9, <2>1, <2>2 DEF TypeOK, ReleaseBuffer, At, GoTo, PC, HasBuf, histVars
<1>10. ASSUME NEW c \in Dev, TestStopped(c) \/ TestNext(c) \/ WakeOwner(c)
       PROVE  TypeOK'
  <2>1. pkt[c] \in Buf /\ Owner(pkt[c]) \in Dev
    BY <1>10 DEF TypeOK, TestStopped, TestNext, WakeOwner, At, HasBuf
  <2>2. PICK l \in PC : GoTo(c, l)
    <3>1. "ifNext" \in PC /\ "wake" \in PC /\ ret[c] \in PC
      BY RetFacts DEF PC
    <3> QED
      BY <1>10, <3>1 DEF TestStopped, TestNext, WakeOwner
  <2>3. UNCHANGED <<ppool, rxQueue, next, data, status, skb, stats, up, lock,
                    reg, irq, ret, pkt, sent, rcvd, freed>>
    BY <1>10 DEF TestStopped, TestNext, WakeOwner, devVars, histVars
  <2>4. stopped' \subseteq Dev
    BY <1>10 DEF TypeOK, TestStopped, TestNext, WakeOwner, devVars
  <2>5. /\ pc' \in [Dev -> PC]
        /\ \A e \in Dev : pc'[e] \in HasBuf => pkt'[e] \in Buf
    BY <2>1, <2>2, <2>3, MoveTypes
  <2> QED
    BY <2>3, <2>4, <2>5 DEF TypeOK
<1>11. ASSUME NEW c \in Dev, TxTimeout(c) PROVE TypeOK'
  BY <1>11 DEF TypeOK, TxTimeout, TimeoutStatus, At, GoTo, PC, HasBuf, histVars
<1>12. ASSUME NEW c \in Dev, EndTimeout(c) PROVE TypeOK'
  <2>1. stats' \in [Dev -> Stats]
    <3>1. stats \in [Dev -> Stats]
      BY DEF TypeOK, Stats
    <3>2. [stats[c] EXCEPT !.txErrors = @ + 1] \in Stats
      BY <3>1, StatsTypes
    <3>3. stats' = [stats EXCEPT ![c] = [stats[c] EXCEPT !.txErrors = @ + 1]]
      BY <1>12 DEF EndTimeout
    <3> QED
      BY <3>1, <3>2, <3>3
  <2> QED
    BY <1>12, <2>1 DEF TypeOK, Stats, EndTimeout, At, GoTo, PC, HasBuf, histVars
<1>13. CASE UNCHANGED vars
  BY <1>13 DEF TypeOK, vars, devVars, ctxVars, histVars
<1> QED
  BY <1>1, <1>2, <1>3, <1>4, <1>5, <1>6, <1>7, <1>8, <1>9, <1>10, <1>11,
     <1>12, <1>13 DEF Next, Run, Halt

(* TypeOK is an invariant of the driver.                                   *)
THEOREM TypeCorrect == Spec => []TypeOK
  BY TypeInit, TypeNext, PTL DEF Spec

-----------------------------------------------------------------------------
(* What pushing and popping do to the members of a list.                   *)
LEMMA PushMembers ==
  ASSUME NEW S, NEW s \in Seq(S), NEW e \in S
  PROVE  /\ Range(Push(s, e)) = {e} \cup Range(s)
         /\ IsInjective(s) /\ e \notin Range(s) => IsInjective(Push(s, e))
<1> DEFINE t == Push(s, e)
<1>1. /\ t \in Seq(S)
      /\ DOMAIN t = 1..(Len(s) + 1)
      /\ t[1] = e
      /\ \A i \in 1..Len(s) : t[i + 1] = s[i]
      /\ \A i \in 2..(Len(s) + 1) : t[i] = s[i - 1] /\ i - 1 \in 1..Len(s)
      /\ DOMAIN s = 1..Len(s) /\ Len(s) \in Nat
  BY DEF Push
<1> HIDE DEF t
<1>2. Range(t) = {e} \cup Range(s)
  <2>1. ASSUME NEW x \in Range(t) PROVE x \in {e} \cup Range(s)
    BY <1>1 DEF Range
  <2>2. e \in Range(t)
    BY <1>1 DEF Range
  <2>3. ASSUME NEW x \in Range(s) PROVE x \in Range(t)
    <3>1. PICK i \in 1..Len(s) : x = s[i]
      BY <1>1 DEF Range
    <3>2. x = t[i + 1] /\ i + 1 \in DOMAIN t
      BY <1>1, <3>1
    <3> QED
      BY <3>2 DEF Range
  <2> QED
    BY <2>1, <2>2, <2>3
<1>3. ASSUME IsInjective(s), e \notin Range(s) PROVE IsInjective(t)
  <2>1. SUFFICES ASSUME NEW a \in DOMAIN t, NEW b \in DOMAIN t, t[a] = t[b]
                 PROVE  a = b
    BY DEF IsInjective
  <2>2. \A i \in 2..(Len(s) + 1) : t[i] \in Range(s)
    BY <1>1 DEF Range
  <2>3. CASE a = 1 \/ b = 1
    BY <1>1, <1>3, <2>1, <2>2, <2>3
  <2>4. CASE a # 1 /\ b # 1
    <3>1. a \in 2..(Len(s) + 1) /\ b \in 2..(Len(s) + 1)
      BY <1>1, <2>4
    <3>2. s[a - 1] = s[b - 1] /\ a - 1 \in DOMAIN s /\ b - 1 \in DOMAIN s
      BY <1>1, <3>1, <2>1
    <3>3. a - 1 = b - 1
      BY <1>3, <3>2 DEF IsInjective
    <3> QED
      BY <3>1, <3>3
  <2> QED
    BY <2>3, <2>4
<1> QED
  BY <1>2, <1>3 DEF t

LEMMA PopMembers ==
  ASSUME NEW S, NEW s \in Seq(S), s # <<>>, IsInjective(s)
  PROVE  /\ Head(s) \in Range(s)
         /\ Range(Tail(s)) = Range(s) \ {Head(s)}
         /\ IsInjective(Tail(s))
<1> DEFINE t == Tail(s)
<1>1. /\ t \in Seq(S)
      /\ DOMAIN s = 1..Len(s) /\ Len(s) \in Nat /\ Len(s) # 0
      /\ DOMAIN t = 1..(Len(s) - 1)
      /\ \A i \in 1..(Len(s) - 1) : t[i] = s[i + 1] /\ i + 1 \in 1..Len(s)
      /\ Head(s) = s[1]
  OBVIOUS
<1> HIDE DEF t
<1>2. Head(s) \in Range(s)
  BY <1>1 DEF Range
<1>3. Range(t) = Range(s) \ {Head(s)}
  <2>1. ASSUME NEW x \in Range(t) PROVE x \in Range(s) \ {Head(s)}
    <3>1. PICK i \in 1..(Len(s) - 1) : x = t[i]
      BY <1>1 DEF Range
    <3>2. x = s[i + 1] /\ i + 1 \in DOMAIN s /\ i + 1 # 1 /\ 1 \in DOMAIN s
      BY <1>1, <3>1
    <3>3. x # s[1]
      BY <3>2 DEF IsInjective
    <3> QED
      BY <1>1, <3>2, <3>3 DEF Range
  <2>2. ASSUME NEW x \in Range(s), x # Head(s) PROVE x \in Range(t)
    <3>1. PICK i \in 1..Len(s) : x = s[i]
      BY <1>1 DEF Range
    <3>2. i # 1 /\ i - 1 \in 1..(Len(s) - 1)
      BY <1>1, <2>2, <3>1
    <3>3. x = t[i - 1] /\ i - 1 \in DOMAIN t
      BY <1>1, <3>1, <3>2
    <3> QED
      BY <3>3 DEF Range
  <2> QED
    BY <2>1, <2>2
<1>4. IsInjective(t)
  <2>1. SUFFICES ASSUME NEW a \in DOMAIN t, NEW b \in DOMAIN t, t[a] = t[b]
                 PROVE  a = b
    BY DEF IsInjective
  <2>2. s[a + 1] = s[b + 1] /\ a + 1 \in DOMAIN s /\ b + 1 \in DOMAIN s
    BY <1>1, <2>1
  <2>3. a + 1 = b + 1
    BY <2>2 DEF IsInjective
  <2> QED
    BY <1>1, <2>3
<1> QED
  BY <1>2, <1>3, <1>4 DEF t

-----------------------------------------------------------------------------
(* BufferConservation is not inductive alone: when snull_enqueue_buf links *)
(* a buffer into the peer's queue, the buffer must be the transmitter's.   *)
EnqueuesOwn == \A c \in Dev : pc[c] = "enqueue" => Owner(pkt[c]) = c

IInv == TypeOK /\ BufferConservation /\ EnqueuesOwn

Holding == {"enqueue", "release"}

LEMMA ConservationInit == Init => BufferConservation /\ EnqueuesOwn
<1> SUFFICES ASSUME Init PROVE BufferConservation /\ EnqueuesOwn
  OBVIOUS
<1> USE DevAssumption, ParamAssumption
<1>1. ASSUME NEW d \in Dev
      PROVE  /\ IsInjective(ppool[d])
             /\ Range(ppool[d]) = {b \in Buf : Owner(b) = d}
             /\ rxQueue[d] = <<>>
  <2>1. /\ DOMAIN ppool[d] = 1..PoolSize[d]
        /\ \A i \in 1..PoolSize[d] : ppool[d][i] = <<d, PoolSize[d] + 1 - i>>
        /\ PoolSize[d] \in Nat
    BY DEF Init, SetupPool, LinkSetUp
  <2>2. IsInjective(ppool[d])
    BY <2>1 DEF IsInjective
  <2>3. ASSUME NEW b \in Buf, Owner(b) = d PROVE b \in Range(ppool[d])
    <3>1. PICK k \in 1..PoolSize[d] : b = <<d, k>>
      BY <2>3 DEF Buf, Owner
    <3>2. PoolSize[d] + 1 - k \in 1..PoolSize[d]
      BY <2>1
    <3>3. PoolSize[d] + 1 - (PoolSize[d] + 1 - k) = k
      BY <2>1, <3>1
    <3>4. b = ppool[d][PoolSize[d] + 1 - k]
      BY <2>1, <3>1, <3>2, <3>3, Zenon
    <3> QED
      BY <2>1, <3>2, <3>4 DEF Range
  <2>4. ASSUME NEW b \in Range(ppool[d]) PROVE b \in Buf /\ Owner(b) = d
    <3>1. PICK i \in 1..PoolSize[d] : b = <<d, PoolSize[d] + 1 - i>>
      <4>1. PICK i \in DOMAIN ppool[d] : b = ppool[d][i]
        BY <2>4 DEF Range
      <4> QED
        BY <2>1, <4>1
    <3>2. PoolSize[d] + 1 - i \in 1..PoolSize[d]
      BY <2>1
    <3>3. b \in {d} \X (1..PoolSize[d])
      BY <3>1, <3>2
    <3>4. b \in Buf
      BY <3>3 DEF Buf
    <3> QED
      BY <3>1, <3>4 DEF Owner
  <2> QED
    BY <2>2, <2>3, <2>4 DEF Init, SetupPool, LinkSetUp
<1>2. IsInjective(<<>>) /\ Range(<<>>) = {}
  BY DEF IsInjective, Range
<1>3. \A c \in Dev : pc[c] = "idle"
  BY DEF Init, SetupPool, LinkSetUp
<1>4. \A b \in Buf : Owner(b) \in Dev
  BY BufFacts
<1> QED
  BY <1>1, <1>2, <1>3, <1>4
     DEF BufferConservation, EnqueuesOwn, Holds, InPool, InQueue

(* A step that leaves both lists alone and neither begins nor ends holding *)
(* a buffer.                                                               *)
LEMMA QuietMove ==
  ASSUME IInv, NEW c \in Dev, NEW l, GoTo(c, l),
         pc[c] \notin Holding, l \notin Holding,
         ppool' = ppool, rxQueue' = rxQueue,
         \A e \in Dev \ {c} : pkt'[e] = pkt[e]
  PROVE  BufferConservation' /\ EnqueuesOwn'
<1>1. \A e \in Dev : pc'[e] = IF e = c THEN l ELSE pc[e]
  BY DEF IInv, TypeOK, GoTo
<1>2. \A e \in Dev, b \in Buf : Holds(e, b)' <=> Holds(e, b)
  BY <1>1 DEF Holds, Holding
<1>3. \A b \in Buf : (InPool(b)' <=> InPool(b)) /\ (InQueue(b)' <=> InQueue(b))
  BY DEF InPool, InQueue
<1>4. EnqueuesOwn'
  BY <1>1 DEF IInv, EnqueuesOwn, Holding
<1> QED
  BY <1>2, <1>3, <1>4 DEF IInv, BufferConservation

(* snull_get_tx_buffer moves the head of the pool into the hands of c.     *)
LEMMA GetKeeps ==
  ASSUME IInv, NEW c \in Dev, GetTxBuffer(c)
  PROVE  BufferConservation' /\ EnqueuesOwn'
<1> DEFINE b0 == Head(ppool[c])
<1>1. /\ ppool[c] \in Seq(Buf) /\ ppool[c] # <<>> /\ IsInjective(ppool[c])
      /\ pc[c] = "get"
  BY DEF IInv, TypeOK, BufferConservation, GetTxBuffer, At
<1>2. /\ b0 \in Range(ppool[c])
      /\ Range(Tail(ppool[c])) = Range(ppool[c]) \ {b0}
      /\ IsInjective(Tail(ppool[c]))
  BY <1>1, PopMembers
<1>3. b0 \in Buf /\ Owner(b0) = c
  BY <1>1, <1>2 DEF IInv, BufferConservation
<1>4. /\ \A d \in Dev : ppool'[d] = IF d = c THEN Tail(ppool[c]) ELSE ppool[d]
      /\ \A e \in Dev : pkt'[e] = IF e = c THEN b0 ELSE pkt[e]
      /\ \A e \in Dev : pc'[e] = IF e = c THEN "enqueue" ELSE pc[e]
      /\ rxQueue' = rxQueue
  BY DEF IInv, TypeOK, GetTxBuffer, GoTo
<1> HIDE DEF b0
<1>5. \A b \in Buf : InPool(b)' <=> (InPool(b) /\ b # b0)
  BY <1>2, <1>3, <1>4, BufFacts DEF InPool
<1>6. \A b \in Buf : InQueue(b)' <=> InQueue(b)
  BY <1>4 DEF InQueue
<1>7. \A e \in Dev, b \in Buf :
        Holds(e, b)' <=> (IF e = c THEN b = b0 ELSE Holds(e, b))
  BY <1>4 DEF Holds
<1>8. \A b \in Buf : ~Holds(c, b)
  BY <1>1 DEF Holds
<1>9. InPool(b0)
  BY <1>2, <1>3 DEF InPool
<1>10. \A d \in Dev :
         /\ IsInjective(ppool'[d]) /\ IsInjective(rxQueue'[d])
         /\ \A b \in Range(ppool'[d]) : Owner(b) = d
         /\ \A b \in Range(rxQueue'[d]) : Owner(b) = Peer[d]
  BY <1>2, <1>4 DEF IInv, BufferConservation
<1>11. EnqueuesOwn'
  BY <1>3, <1>4 DEF IInv, EnqueuesOwn
<1> QED
  BY <1>3, <1>5, <1>6, <1>7, <1>8, <1>9, <1>10, <1>11
     DEF IInv, BufferConservation

(* snull_enqueue_buf moves it into the peer's receive queue.               *)
LEMMA EnqueueKeeps ==
  ASSUME IInv, NEW c \in Dev, EnqueueBuf(c)
  PROVE  BufferConservation' /\ EnqueuesOwn'
<1> DEFINE b0 == pkt[c]
           p  == Peer[c]
<1> USE DevAssumption
<1>1. /\ b0 \in Buf /\ Owner(b0) = c /\ pc[c] = "enqueue" /\ p \in Dev
      /\ rxQueue[p] \in Seq(Buf) /\ IsInjective(rxQueue[p]) /\ Peer[p] = c
  BY DEF IInv, TypeOK, BufferConservation, EnqueuesOwn, EnqueueBuf, At, HasBuf
<1>2. Holds(c, b0) /\ ~InPool(b0) /\ ~InQueue(b0)
  BY <1>1 DEF IInv, BufferConservation, Holds
<1>3. /\ Range(Push(rxQueue[p], b0)) = {b0} \cup Range(rxQueue[p])
      /\ IsInjective(Push(rxQueue[p], b0))
  BY <1>1, <1>2, PushMembers DEF InQueue
<1>4. /\ \A d \in Dev : rxQueue'[d] = IF d = p THEN Push(rxQueue[p], b0)
                                               ELSE rxQueue[d]
      /\ \A e \in Dev : pc'[e] = IF e = c THEN "loadRx" ELSE pc[e]
      /\ ppool' = ppool /\ pkt' = pkt
  BY <1>1 DEF IInv, TypeOK, EnqueueBuf, GoTo
<1> HIDE DEF b0, p
<1>5. \A b \in Buf : InPool(b)' <=> InPool(b)
  BY <1>4 DEF InPool
<1>6. \A b \in Buf : InQueue(b)' <=> (InQueue(b) \/ b = b0)
  <2> SUFFICES ASSUME NEW b \in Buf PROVE InQueue(b)' <=> (InQueue(b) \/ b = b0)
    OBVIOUS
  <2>1. Owner(b) \in Dev /\ Peer[Owner(b)] \in Dev /\ Peer[Peer[Owner(b)]] = Owner(b)
    BY BufFacts
  <2>2. CASE Peer[Owner(b)] = p
    BY <1>3, <1>4, <2>1, <2>2 DEF InQueue
  <2>3. CASE Peer[Owner(b)] # p
    BY <1>1, <1>4, <2>1, <2>3 DEF InQueue, p
  <2> QED
    BY <2>2, <2>3
<1>7. \A e \in Dev, b \in Buf : Holds(e, b)' <=> (e # c /\ Holds(e, b))
  BY <1>4 DEF Holds
<1>8. \A d \in Dev :
         /\ IsInjective(ppool'[d]) /\ IsInjective(rxQueue'[d])
         /\ \A b \in Range(ppool'[d]) : Owner(b) = d
         /\ \A b \in Range(rxQueue'[d]) : Owner(b) = Peer[d]
  BY <1>1, <1>3, <1>4 DEF IInv, BufferConservation
<1>9. \A b \in Buf : Holds(c, b) <=> b = b0
  BY <1>1 DEF Holds, b0
<1>10. EnqueuesOwn'
  BY <1>4 DEF IInv, EnqueuesOwn
<1> QED
  BY <1>1, <1>2, <1>5, <1>6, <1>7, <1>8, <1>9, <1>10
     DEF IInv, BufferConservation

(* A served RX interrupt moves the head of the queue into c's hands.       *)
LEMMA ServeKeeps ==
  ASSUME IInv, NEW c \in Dev, NEW ok \in BOOLEAN, ServeInterrupt(c, ok)
  PROVE  BufferConservation' /\ EnqueuesOwn'
<1> DEFINE d0 == irq[c]
           rx == RX \in reg[c] /\ rxQueue[d0] # <<>>
           b0 == Head(rxQueue[d0])
<1> USE DevAssumption
<1>1. d0 \in Dev /\ pc[c] = "serve" /\ ret[c] \notin Holding
  BY DEF IInv, TypeOK, ServeInterrupt, At, Holding
<1>2. CASE ~rx
  <2>1. /\ GoTo(c, ret[c]) /\ ppool' = ppool
        /\ pkt' = [pkt EXCEPT ![c] = None]
        /\ rxQueue' = [rxQueue EXCEPT ![d0] = rxQueue[d0]]
    BY <1>2 DEF ServeInterrupt, AfterServe
  <2>2. rxQueue' = rxQueue
    BY <1>1, <2>1 DEF IInv, TypeOK
  <2>3. \A e \in Dev \ {c} : pkt'[e] = pkt[e]
    BY <2>1 DEF IInv, TypeOK
  <2>4. pc[c] \notin Holding
    BY <1>1 DEF Holding
  <2> QED
    BY <1>1, <2>1, <2>2, <2>3, <2>4, QuietMove
<1>3. CASE rx
  <2>1. /\ rxQueue[d0] \in Seq(Buf) /\ rxQueue[d0] # <<>>
        /\ IsInjective(rxQueue[d0])
    BY <1>1, <1>3 DEF IInv, TypeOK, BufferConservation
  <2>2. /\ b0 \in Range(rxQueue[d0])
        /\ Range(Tail(rxQueue[d0])) = Range(rxQueue[d0]) \ {b0}
        /\ IsInjective(Tail(rxQueue[d0]))
    BY <2>1, PopMembers
  <2>3. b0 \in Buf /\ Owner(b0) = Peer[d0] /\ Peer[Owner(b0)] = d0
    BY <1>1, <2>1, <2>2 DEF IInv, BufferConservation
  <2>4. /\ \A d \in Dev : rxQueue'[d] = IF d = d0 THEN Tail(rxQueue[d0])
                                                  ELSE rxQueue[d]
        /\ \A e \in Dev : pkt'[e] = IF e = c THEN b0 ELSE pkt[e]
        /\ \A e \in Dev : pc'[e] = IF e = c THEN "release" ELSE pc[e]
        /\ ppool' = ppool
    BY <1>1, <1>3 DEF IInv, TypeOK, ServeInterrupt, AfterServe, Unlinked, GoTo
  <2> HIDE DEF b0, rx, d0
  <2>5. \A b \in Buf : InPool(b)' <=> InPool(b)
    BY <2>4 DEF InPool
  <2>6. \A b \in Buf : InQueue(b)' <=> (InQueue(b) /\ b # b0)
    BY <1>1, <2>2, <2>3, <2>4, BufFacts DEF InQueue
  <2>7. \A e \in Dev, b \in Buf :
          Holds(e, b)' <=> (IF e = c THEN b = b0 ELSE Holds(e, b))
    BY <2>4 DEF Holds
  <2>8. \A b \in Buf : ~Holds(c, b)
    BY <1>1 DEF Holds
  <2>9. InQueue(b0)
    BY <2>2, <2>3 DEF InQueue
  <2>10. \A d \in Dev :
           /\ IsInjective(ppool'[d]) /\ IsInjective(rxQueue'[d])
           /\ \A b \in Range(ppool'[d]) : Owner(b) = d
           /\ \A b \in Range(rxQueue'[d]) : Owner(b) = Peer[d]
    BY <2>2, <2>4 DEF IInv, BufferConservation
  <2>11. EnqueuesOwn'
    BY <2>4 DEF IInv, EnqueuesOwn
  <2> QED
    BY <2>3, <2>5, <2>6, <2>7, <2>8, <2>9, <2>10, <2>11
       DEF IInv, BufferConservation
<1> QED
  BY <1>2, <1>3

(* snull_release_buffer moves it back into its owner's pool.               *)
LEMMA ReleaseKeeps ==
  ASSUME IInv, NEW c \in Dev, ReleaseBuffer(c)
  PROVE  BufferConservation' /\ EnqueuesOwn'
<1> DEFINE b0 == pkt[c]
           d0 == Owner(pkt[c])
<1>1. b0 \in Buf /\ pc[c] = "release"
  BY DEF IInv, TypeOK, ReleaseBuffer, At, HasBuf
<1>2. /\ d0 \in Dev /\ ppool[d0] \in Seq(Buf) /\ IsInjective(ppool[d0])
      /\ Owner(b0) = d0
  BY <1>1, BufFacts DEF IInv, TypeOK, BufferConservation
<1>3. Holds(c, b0) /\ ~InPool(b0) /\ ~InQueue(b0)
  BY <1>1 DEF IInv, BufferConservation, Holds
<1>4. /\ Range(Push(ppool[d0], b0)) = {b0} \cup Range(ppool[d0])
      /\ IsInjective(Push(ppool[d0], b0))
  BY <1>1, <1>2, <1>3, PushMembers DEF InPool
<1>5. /\ \A d \in Dev : ppool'[d] = IF d = d0 THEN Push(ppool[d0], b0)
                                              ELSE ppool[d]
      /\ \A e \in Dev : pc'[e] = IF e = c THEN "ifStopped" ELSE pc[e]
      /\ rxQueue' = rxQueue /\ pkt' = pkt
  BY <1>2 DEF IInv, TypeOK, ReleaseBuffer, GoTo
<1>6. \A b \in Buf : Holds(c, b) <=> b = b0
  BY <1>1 DEF Holds
<1> HIDE DEF b0, d0
<1>7. \A b \in Buf : InPool(b)' <=> (InPool(b) \/ b = b0)
  BY <1>1, <1>2, <1>4, <1>5, BufFacts DEF InPool
<1>8. \A b \in Buf : InQueue(b)' <=> InQueue(b)
  BY <1>5 DEF InQueue
<1>9. \A e \in Dev, b \in Buf : Holds(e, b)' <=> (e # c /\ Holds(e, b))
  BY <1>5 DEF Holds
<1>10. \A d \in Dev :
         /\ IsInjective(ppool'[d]) /\ IsInjective(rxQueue'[d])
         /\ \A b \in Range(ppool'[d]) : Owner(b) = d
         /\ \A b \in Range(rxQueue'[d]) : Owner(b) = Peer[d]
  BY <1>2, <1>4, <1>5 DEF IInv, BufferConservation
<1>11. EnqueuesOwn'
  BY <1>5 DEF IInv, EnqueuesOwn
<1> QED
  BY <1>1, <1>3, <1>6, <1>7, <1>8, <1>9, <1>10, <1>11
     DEF IInv, BufferConservation

LEMMA ConservationNext == IInv /\ [Next]_vars => IInv'
<1> SUFFICES ASSUME IInv, [Next]_vars PROVE BufferConservation' /\ EnqueuesOwn'
  BY TypeNext DEF IInv
<1>1. ASSUME NEW c \in Dev, GetTxBuffer(c)
      PROVE  BufferConservation' /\ EnqueuesOwn'
  BY <1>1, GetKeeps
<1>2. ASSUME NEW c \in Dev, EnqueueBuf(c)
      PROVE  BufferConservation' /\ EnqueuesOwn'
  BY <1>2, EnqueueKeeps
<1>3. ASSUME NEW c \in Dev, NEW ok \in BOOLEAN, ServeInterrupt(c, ok)
      PROVE  BufferConservation' /\ EnqueuesOwn'
  BY <1>3, ServeKeeps
<1>4. ASSUME NEW c \in Dev, ReleaseBuffer(c)
      PROVE  BufferConservation' /\ EnqueuesOwn'
  BY <1>4, ReleaseKeeps
<1>5. ASSUME NEW c \in Dev,
             \/ Xmit(c) \/ GetFromEmptyPool(c) \/ LoadRxStatus(c)
             \/ StoreRxStatus(c) \/ LoadTxStatus(c) \/ StoreTxStatus(c)
             \/ LockupOrInterrupt(c) \/ TakeInterrupt(c) \/ TestStopped(c)
             \/ TestNext(c) \/ WakeOwner(c) \/ TxTimeout(c) \/ EndTimeout(c)
      PROVE  BufferConservation' /\ EnqueuesOwn'
  <2>1. ret[c] \notin Holding
    BY DEF IInv, TypeOK, Holding
  <2>2. ppool' = ppool /\ rxQueue' = rxQueue /\ pkt' = pkt /\ pc[c] \notin Holding
    BY <1>5 DEF Xmit, GetFromEmptyPool, LoadRxStatus, StoreRxStatus,
                LoadTxStatus, StoreTxStatus, LockupOrInterrupt, TakeInterrupt,
                TestStopped, TestNext, WakeOwner, TxTimeout, EndTimeout,
                At, Holding, devVars
  <2>3. \E l : GoTo(c, l) /\ l \notin Holding
    BY <1>5, <2>1
       DEF Xmit, GetFromEmptyPool, LoadRxStatus, StoreRxStatus, LoadTxStatus,
           StoreTxStatus, LockupOrInterrupt, AfterLockupTest, TakeInterrupt,
           TestStopped, TestNext, WakeOwner, TxTimeout, EndTimeout, Holding
  <2> QED
    BY <2>2, <2>3, QuietMove
<1>6. CASE \/ \E c \in Dev : Open(c) \/ Release(c)
           \/ UNCHANGED vars
  <2>1. ppool' = ppool /\ rxQueue' = rxQueue /\ pkt' = pkt /\ pc' = pc
    BY <1>6 DEF Open, Release, vars, devVars, ctxVars
  <2> QED
    BY <2>1 DEF IInv, BufferConservation, EnqueuesOwn, Holds, InPool, InQueue
<1> QED
  BY <1>1, <1>2, <1>3, <1>4, <1>5, <1>6 DEF Next, Run, Halt

(* BufferConservation holds in every reachable state: the pools and the    *)
(* queues of the driver never lose, duplicate or misplace a packet buffer. *)
THEOREM BuffersConserved == Spec => []BufferConservation
<1>1. Init => IInv
  BY TypeInit, ConservationInit DEF IInv
<1>2. IInv => BufferConservation
  BY DEF IInv
<1> QED
  BY <1>1, <1>2, ConservationNext, PTL DEF Spec

-----------------------------------------------------------------------------
(* The link fields.  LinkedBy says of any assignment n of next fields what *)
(* Linked says of the current one.                                         *)
LinkedBy(n, list) ==
  \A i \in 1..Len(list) :
    n[list[i]] = IF i = Len(list) THEN None ELSE list[i + 1]

LEMMA PushLinks ==
  ASSUME NEW S, NEW n \in [S -> S \cup {None}], NEW s \in Seq(S), NEW e \in S,
         e \notin Range(s), LinkedBy(n, s)
  PROVE  LinkedBy([n EXCEPT ![e] = First(s)], Push(s, e))
<1> DEFINE t == Push(s, e)
           m == [n EXCEPT ![e] = First(s)]
<1>1. /\ Len(t) = Len(s) + 1 /\ Len(s) \in Nat
      /\ t[1] = e
      /\ \A i \in 2..(Len(s) + 1) : t[i] = s[i - 1] /\ i - 1 \in 1..Len(s)
      /\ DOMAIN s = 1..Len(s)
      /\ \A i \in 1..Len(s) : s[i] \in S
  BY DEF Push
<1>2. First(s) = IF Len(s) = 0 THEN None ELSE s[1]
  BY DEF First
<1>3. m[e] = First(s) /\ \A i \in 1..Len(s) : m[s[i]] = n[s[i]]
  BY <1>1 DEF Range
<1> HIDE DEF t, m
<1>4. SUFFICES ASSUME NEW i \in 1..Len(t)
               PROVE  m[t[i]] = IF i = Len(t) THEN None ELSE t[i + 1]
  BY DEF LinkedBy, t, m
<1>5. CASE i = 1
  <2>1. Len(s) # 0 => t[2] = s[1]
    BY <1>1
  <2> QED
    BY <1>1, <1>2, <1>3, <1>5, <2>1
<1>6. CASE i # 1
  <2>1. i \in 2..(Len(s) + 1) /\ t[i] = s[i - 1] /\ i - 1 \in 1..Len(s)
    BY <1>1, <1>4, <1>6
  <2>2. n[s[i - 1]] = IF i - 1 = Len(s) THEN None ELSE s[(i - 1) + 1]
    BY <2>1 DEF LinkedBy
  <2>3. i # Len(t) => t[i + 1] = s[i]
    BY <1>1, <1>4, <2>1
  <2> QED
    BY <1>1, <1>3, <2>1, <2>2, <2>3
<1> QED
  BY <1>5, <1>6

LEMMA OtherLinks ==
  ASSUME NEW S, NEW n \in [S -> S \cup {None}], NEW s \in Seq(S), NEW e \in S,
         NEW x, e \notin Range(s), LinkedBy(n, s)
  PROVE  LinkedBy([n EXCEPT ![e] = x], s)
<1>1. \A i \in 1..Len(s) : s[i] \in S /\ s[i] # e
  BY DEF Range
<1> QED
  BY <1>1 DEF LinkedBy

LEMMA PopLinks ==
  ASSUME NEW S, NEW n, NEW s \in Seq(S), s # <<>>, LinkedBy(n, s)
  PROVE  LinkedBy(n, Tail(s))
<1> DEFINE t == Tail(s)
<1>1. /\ Len(s) \in Nat \ {0} /\ Len(t) = Len(s) - 1
      /\ \A i \in 1..(Len(s) - 1) : t[i] = s[i + 1] /\ i + 1 \in 1..Len(s)
  OBVIOUS
<1> HIDE DEF t
<1>2. SUFFICES ASSUME NEW i \in 1..Len(t)
               PROVE  n[t[i]] = IF i = Len(t) THEN None ELSE t[i + 1]
  BY DEF LinkedBy, t
<1>3. n[s[i + 1]] = IF i + 1 = Len(s) THEN None ELSE s[(i + 1) + 1]
  BY <1>1, <1>2 DEF LinkedBy
<1>4. i # Len(t) => t[i + 1] = s[(i + 1) + 1]
  BY <1>1, <1>2
<1> QED
  BY <1>1, <1>2, <1>3, <1>4

LEMMA LinksInit == Init => LinksMatchLists
<1> SUFFICES ASSUME Init, NEW d \in Dev PROVE Linked(ppool[d]) /\ Linked(rxQueue[d])
  BY DEF LinksMatchLists
<1> USE DevAssumption, ParamAssumption
<1> DEFINE s == ppool[d]
<1>1. /\ PoolSize[d] \in Nat /\ rxQueue[d] = <<>>
      /\ s = [i \in 1..PoolSize[d] |-> <<d, PoolSize[d] + 1 - i>>]
      /\ \A b \in Buf : next[b] = IF b[2] = 1 THEN None ELSE <<b[1], b[2] - 1>>
  BY DEF Init, SetupPool, LinkSetUp
<1>2. Len(s) = PoolSize[d]
  BY <1>1
<1>3. \A i \in 1..PoolSize[d] : s[i] = <<d, PoolSize[d] + 1 - i>> /\ s[i] \in Buf
  BY <1>1 DEF Buf
<1>4. ASSUME NEW i \in 1..PoolSize[d]
      PROVE  next[s[i]] = IF i = PoolSize[d] THEN None ELSE s[i + 1]
  <2>1. next[s[i]] = IF PoolSize[d] + 1 - i = 1 THEN None
                     ELSE <<d, (PoolSize[d] + 1 - i) - 1>>
    BY <1>1, <1>3
  <2>2. i # PoolSize[d] => s[i + 1] = <<d, PoolSize[d] + 1 - (i + 1)>>
    BY <1>1, <1>3
  <2>3. /\ (PoolSize[d] + 1 - i = 1) <=> (i = PoolSize[d])
        /\ (PoolSize[d] + 1 - i) - 1 = PoolSize[d] + 1 - (i + 1)
    BY <1>1
  <2> QED
    BY <2>1, <2>2, <2>3
<1> QED
  BY <1>1, <1>2, <1>4 DEF Linked

(* A buffer that a context holds is linked in no list, so rewriting its    *)
(* next field, which only its holder does, cannot break one.               *)
LEMMA HeldIsUnlinked ==
  ASSUME IInv, NEW c \in Dev, pc[c] \in Holding
  PROVE  /\ pkt[c] \in Buf
         /\ \A d \in Dev : pkt[c] \notin Range(ppool[d])
                           /\ pkt[c] \notin Range(rxQueue[d])
<1>1. pkt[c] \in Buf /\ Holds(c, pkt[c])
  BY DEF IInv, TypeOK, Holding, HasBuf, Holds
<1>2. ~InPool(pkt[c]) /\ ~InQueue(pkt[c])
  BY <1>1 DEF IInv, BufferConservation
<1> QED
  BY <1>1, <1>2, DevAssumption DEF IInv, BufferConservation, InPool, InQueue

LEMMA LinksNext == IInv /\ LinksMatchLists /\ [Next]_vars => LinksMatchLists'
<1> SUFFICES ASSUME IInv, LinksMatchLists, [Next]_vars PROVE LinksMatchLists'
  OBVIOUS
<1> USE DevAssumption
<1>1. SUFFICES \A d \in Dev : /\ LinkedBy(next', ppool'[d])
                              /\ LinkedBy(next', rxQueue'[d])
  BY DEF LinksMatchLists, Linked, LinkedBy
<1>2. \A d \in Dev : LinkedBy(next, ppool[d]) /\ LinkedBy(next, rxQueue[d])
  BY DEF LinksMatchLists, Linked, LinkedBy
<1>3. /\ next \in [Buf -> Buf \cup {None}]
      /\ \A d \in Dev : ppool[d] \in Seq(Buf) /\ rxQueue[d] \in Seq(Buf)
  BY DEF IInv, TypeOK
<1>4. ASSUME NEW c \in Dev, GetTxBuffer(c)
      PROVE  \A d \in Dev : LinkedBy(next', ppool'[d]) /\ LinkedBy(next', rxQueue'[d])
  <2>1. /\ \A d \in Dev : ppool'[d] = IF d = c THEN Tail(ppool[c]) ELSE ppool[d]
        /\ rxQueue' = rxQueue /\ next' = next /\ ppool[c] # <<>>
    BY <1>4 DEF IInv, TypeOK, GetTxBuffer
  <2>2. LinkedBy(next, Tail(ppool[c]))
    BY <1>2, <1>3, <2>1, PopLinks
  <2> QED
    BY <1>2, <2>1, <2>2
<1>5. ASSUME NEW c \in Dev, EnqueueBuf(c)
      PROVE  \A d \in Dev : LinkedBy(next', ppool'[d]) /\ LinkedBy(next', rxQueue'[d])
  <2> DEFINE b0 == pkt[c]
             p  == Peer[c]
  <2>1. /\ b0 \in Buf
        /\ \A d \in Dev : b0 \notin Range(ppool[d]) /\ b0 \notin Range(rxQueue[d])
    BY <1>5, HeldIsUnlinked DEF EnqueueBuf, At, Holding
  <2>2. /\ p \in Dev /\ ppool' = ppool
        /\ next' = [next EXCEPT ![b0] = First(rxQueue[p])]
        /\ \A d \in Dev : rxQueue'[d] = IF d = p THEN Push(rxQueue[p], b0)
                                                 ELSE rxQueue[d]
    BY <1>5 DEF IInv, TypeOK, EnqueueBuf
  <2> HIDE DEF b0, p
  <2>3. LinkedBy(next', Push(rxQueue[p], b0))
    BY <1>2, <1>3, <2>1, <2>2, PushLinks
  <2>4. \A d \in Dev : LinkedBy(next', ppool[d]) /\ LinkedBy(next', rxQueue[d])
    BY <1>2, <1>3, <2>1, <2>2, OtherLinks
  <2> QED
    BY <2>2, <2>3, <2>4
<1>6. ASSUME NEW c \in Dev, ReleaseBuffer(c)
      PROVE  \A d \in Dev : LinkedBy(next', ppool'[d]) /\ LinkedBy(next', rxQueue'[d])
  <2> DEFINE b0 == pkt[c]
             d0 == Owner(pkt[c])
  <2>1. /\ b0 \in Buf
        /\ \A d \in Dev : b0 \notin Range(ppool[d]) /\ b0 \notin Range(rxQueue[d])
    BY <1>6, HeldIsUnlinked DEF ReleaseBuffer, At, Holding
  <2>2. /\ d0 \in Dev /\ rxQueue' = rxQueue
        /\ next' = [next EXCEPT ![b0] = First(ppool[d0])]
        /\ \A d \in Dev : ppool'[d] = IF d = d0 THEN Push(ppool[d0], b0)
                                                ELSE ppool[d]
    BY <1>6, <2>1, BufFacts DEF IInv, TypeOK, ReleaseBuffer
  <2> HIDE DEF b0, d0
  <2>3. LinkedBy(next', Push(ppool[d0], b0))
    BY <1>2, <1>3, <2>1, <2>2, PushLinks
  <2>4. \A d \in Dev : LinkedBy(next', ppool[d]) /\ LinkedBy(next', rxQueue[d])
    BY <1>2, <1>3, <2>1, <2>2, OtherLinks
  <2> QED
    BY <2>2, <2>3, <2>4
<1>7. ASSUME NEW c \in Dev, NEW ok \in BOOLEAN, ServeInterrupt(c, ok)
      PROVE  \A d \in Dev : LinkedBy(next', ppool'[d]) /\ LinkedBy(next', rxQueue'[d])
  <2> DEFINE d0 == irq[c]
             rx == RX \in reg[c] /\ rxQueue[d0] # <<>>
  <2>1. /\ d0 \in Dev /\ ppool' = ppool /\ next' = next
        /\ \A d \in Dev : rxQueue'[d] = IF d = d0 /\ rx THEN Tail(rxQueue[d0])
                                                        ELSE rxQueue[d]
    BY <1>7 DEF IInv, TypeOK, ServeInterrupt, Unlinked
  <2>2. rx => LinkedBy(next, Tail(rxQueue[d0]))
    BY <1>2, <1>3, <2>1, PopLinks
  <2> HIDE DEF rx
  <2> QED
    BY <1>2, <2>1, <2>2
<1>8. ASSUME NEW c \in Dev,
             \/ Open(c) \/ Release(c) \/ Xmit(c) \/ GetFromEmptyPool(c)
             \/ LoadRxStatus(c) \/ StoreRxStatus(c) \/ LoadTxStatus(c)
             \/ StoreTxStatus(c) \/ LockupOrInterrupt(c) \/ TakeInterrupt(c)
             \/ TestStopped(c) \/ TestNext(c) \/ WakeOwner(c) \/ TxTimeout(c)
             \/ EndTimeout(c)
      PROVE  UNCHANGED <<next, ppool, rxQueue>>
  BY <1>8 DEF Open, Release, Xmit, GetFromEmptyPool, LoadRxStatus,
              StoreRxStatus, LoadTxStatus, StoreTxStatus, LockupOrInterrupt,
              TakeInterrupt, TestStopped, TestNext, WakeOwner, TxTimeout,
              EndTimeout, devVars
<1>9. CASE UNCHANGED <<next, ppool, rxQueue>>
  BY <1>2, <1>9
<1>10. CASE UNCHANGED vars
  BY <1>9, <1>10 DEF vars, devVars
<1> QED
  BY <1>4, <1>5, <1>6, <1>7, <1>8, <1>9, <1>10 DEF Next, Run, Halt

(* LinksMatchLists holds in every reachable state: following next from     *)
(* ppool or rx_queue visits exactly the buffers of the list, in order, and *)
(* ends in NULL.                                                           *)
THEOREM ListsStayLinked == Spec => []LinksMatchLists
<1>1. Init => IInv /\ LinksMatchLists
  BY TypeInit, ConservationInit, LinksInit DEF IInv
<1>2. (IInv /\ LinksMatchLists) /\ [Next]_vars => (IInv /\ LinksMatchLists)'
  BY ConservationNext, LinksNext
<1> QED
  BY <1>1, <1>2, PTL DEF Spec

-----------------------------------------------------------------------------
(* A step that moves no frame: nothing that FramesAccounted or the         *)
(* refinement mapping looks at changes.                                    *)
FrameVars == <<sent, rcvd, rxQueue, data>>

LEMMA FrameQuiet ==
  ASSUME TypeOK, NEW c \in Dev,
         \/ Open(c) \/ Release(c) \/ GetFromEmptyPool(c) \/ LoadRxStatus(c)
         \/ StoreRxStatus(c) \/ LoadTxStatus(c) \/ StoreTxStatus(c)
         \/ LockupOrInterrupt(c) \/ TakeInterrupt(c) \/ ReleaseBuffer(c)
         \/ TestStopped(c) \/ TestNext(c) \/ WakeOwner(c) \/ TxTimeout(c)
         \/ EndTimeout(c)
  PROVE  /\ UNCHANGED FrameVars
         /\ \A e \in Dev : BeingSent(e)' <=> BeingSent(e)
         /\ \A e \in Dev : pc'[e] = "enqueue" => pc[e] = "enqueue" /\ pkt'[e] = pkt[e]
         /\ \A d \in Dev : /\ stats'[d].rxPackets = stats[d].rxPackets
                           /\ stats'[d].rxDropped = stats[d].rxDropped
<1> DEFINE Quiet == {"get", "enqueue", "oops"}
<1>1. UNCHANGED FrameVars
  BY DEF Open, Release, GetFromEmptyPool, LoadRxStatus, StoreRxStatus,
         LoadTxStatus, StoreTxStatus, LockupOrInterrupt, TakeInterrupt,
         ReleaseBuffer, TestStopped, TestNext, WakeOwner, TxTimeout, EndTimeout,
         devVars, histVars, FrameVars
<1>2. pkt' = pkt
  BY DEF Open, Release, GetFromEmptyPool, LoadRxStatus, StoreRxStatus,
         LoadTxStatus, StoreTxStatus, LockupOrInterrupt, TakeInterrupt,
         ReleaseBuffer, TestStopped, TestNext, WakeOwner, TxTimeout, EndTimeout,
         ctxVars
<1>3. /\ \A e \in Dev : BeingSent(e)' <=> BeingSent(e)
      /\ \A e \in Dev : pc'[e] = "enqueue" => pc[e] = "enqueue"
  <2>1. CASE Open(c) \/ Release(c)
    BY <2>1 DEF Open, Release, ctxVars, BeingSent
  <2>2. CASE GetFromEmptyPool(c)
    BY <2>2 DEF TypeOK, GetFromEmptyPool, At, GoTo, BeingSent
  <2>3. CASE \/ LoadRxStatus(c) \/ StoreRxStatus(c) \/ LoadTxStatus(c)
             \/ StoreTxStatus(c) \/ LockupOrInterrupt(c) \/ TakeInterrupt(c)
             \/ ReleaseBuffer(c) \/ TestStopped(c) \/ TestNext(c)
             \/ WakeOwner(c) \/ TxTimeout(c) \/ EndTimeout(c)
    <3>1. pc[c] \notin Quiet /\ ret[c] \notin Quiet
      BY <2>3 DEF TypeOK, LoadRxStatus, StoreRxStatus, LoadTxStatus,
           StoreTxStatus, LockupOrInterrupt, TakeInterrupt, ReleaseBuffer,
           TestStopped, TestNext, WakeOwner, TxTimeout, EndTimeout, At
    <3>2. PICK l : GoTo(c, l) /\ l \notin Quiet
      BY <2>3, <3>1
         DEF LoadRxStatus, StoreRxStatus, LoadTxStatus, StoreTxStatus,
             LockupOrInterrupt, AfterLockupTest, TakeInterrupt, ReleaseBuffer,
             TestStopped, TestNext, WakeOwner, TxTimeout, EndTimeout
    <3>3. \A e \in Dev : pc'[e] = IF e = c THEN l ELSE pc[e]
      BY <3>2 DEF TypeOK, GoTo
    <3> QED
      BY <3>1, <3>2, <3>3 DEF BeingSent
  <2> QED
    BY <2>1, <2>2, <2>3
<1>4. \A d \in Dev : /\ stats'[d].rxPackets = stats[d].rxPackets
                     /\ stats'[d].rxDropped = stats[d].rxDropped
  <2>1. CASE EndTimeout(c)
    <3>1. stats \in [Dev -> Stats]
      BY DEF TypeOK, Stats
    <3>2. stats' = [stats EXCEPT ![c] = [stats[c] EXCEPT !.txErrors = @ + 1]]
      BY <2>1 DEF EndTimeout
    <3> QED
      BY <3>1, <3>2 DEF Stats
  <2>2. CASE ~EndTimeout(c)
    <3>1. stats' = stats
      BY <2>2 DEF Open, Release, GetFromEmptyPool, LoadRxStatus, StoreRxStatus,
           LoadTxStatus, StoreTxStatus, LockupOrInterrupt, TakeInterrupt,
           ReleaseBuffer, TestStopped, TestNext, WakeOwner, TxTimeout, devVars
    <3> QED
      BY <3>1
  <2> QED
    BY <2>1, <2>2
<1> QED
  BY <1>1, <1>2, <1>3, <1>4

LEMMA ListLengths ==
  ASSUME NEW S, NEW s \in Seq(S), NEW e \in S
  PROVE  /\ Len(s) \in Nat
         /\ Len(Push(s, e)) = Len(s) + 1
         /\ Len(Append(s, e)) = Len(s) + 1
         /\ s # <<>> => Len(Tail(s)) = Len(s) - 1
  BY DEF Push

LEMMA AccountInit == Init => FramesAccounted
  BY DevAssumption, ParamAssumption DEF Init, FramesAccounted, BeingSent

(* The frame that c is handing over, as a number.                          *)
Sending(c) == IF BeingSent(c) THEN 1 ELSE 0

Accounted(d) ==
  /\ sent[Peer[d]] = stats[d].rxPackets + stats[d].rxDropped
                     + Len(rxQueue[d]) + Sending(Peer[d])
  /\ stats[d].rxPackets = Len(rcvd[d])

(* One step changes the counters and lengths of d's account by these       *)
(* amounts; then both sides of the account change alike.                   *)
Moves(d, packets, dropped, queued, sending) ==
  /\ sent'[Peer[d]] = sent[Peer[d]] + (packets + dropped + queued + sending)
  /\ stats'[d].rxPackets = stats[d].rxPackets + packets
  /\ stats'[d].rxDropped = stats[d].rxDropped + dropped
  /\ Len(rxQueue'[d]) = Len(rxQueue[d]) + queued
  /\ Sending(Peer[d])' = Sending(Peer[d]) + sending
  /\ Len(rcvd'[d]) = Len(rcvd[d]) + packets

LEMMA AccountTypes ==
  TypeOK => \A d \in Dev :
    /\ Peer[d] \in Dev /\ Peer[Peer[d]] = d /\ sent[Peer[d]] \in Int
    /\ Len(rxQueue[d]) \in Int /\ Len(rcvd[d]) \in Int /\ Sending(Peer[d]) \in Int
    /\ stats[d] \in Stats /\ stats[d].rxPackets \in Int /\ stats[d].rxDropped \in Int
  BY DevAssumption DEF TypeOK, Stats, Sending

LEMMA Balance ==
  ASSUME TypeOK, NEW d \in Dev, Accounted(d), NEW packets \in Int,
         NEW dropped \in Int, NEW queued \in Int, NEW sending \in Int,
         Moves(d, packets, dropped, queued, sending)
  PROVE  Accounted(d)'
<1>1. PICK a \in Int, b \in Int, e \in Int, f \in Int, g \in Int :
        /\ a = sent[Peer[d]] /\ b = stats[d].rxPackets /\ e = stats[d].rxDropped
        /\ f = Len(rxQueue[d]) /\ g = Sending(Peer[d])
  BY AccountTypes
<1>2. a = b + e + f + g
  BY <1>1 DEF Accounted
<1>3. a + (packets + dropped + queued + sending)
        = (b + packets) + (e + dropped) + (f + queued) + (g + sending)
  BY <1>2
<1>4. sent'[Peer[d]] = stats'[d].rxPackets + stats'[d].rxDropped
                       + Len(rxQueue'[d]) + Sending(Peer[d])'
  BY <1>1, <1>3 DEF Moves
<1>5. stats'[d].rxPackets = Len(rcvd'[d])
  BY DEF Accounted, Moves
<1> QED
  BY <1>4, <1>5 DEF Accounted

LEMMA AccountNext == TypeOK /\ FramesAccounted /\ [Next]_vars => FramesAccounted'
<1> SUFFICES ASSUME TypeOK, FramesAccounted, [Next]_vars, NEW d \in Dev
             PROVE  Accounted(d)'
  BY DEF FramesAccounted, Accounted, Sending
<1> USE AccountTypes
<1>0. Accounted(d)
  BY DEF FramesAccounted, Accounted, Sending
<1>a. 0 \in Int /\ 1 \in Int /\ -1 \in Int
  OBVIOUS
<1>1. ASSUME Moves(d, 0, 0, 0, 0) PROVE Accounted(d)'
  BY <1>0, <1>a, <1>1, Balance, Zenon
<1>2. ASSUME NEW c \in Dev, Xmit(c) PROVE Accounted(d)'
  <2>1. /\ UNCHANGED <<stats, rxQueue, rcvd>>
        /\ \A e \in Dev : sent'[e] = IF e = c THEN sent[c] + 1 ELSE sent[e]
        /\ Sending(c) = 0 /\ Sending(c)' = 1
        /\ \A e \in Dev \ {c} : Sending(e)' = Sending(e)
    BY <1>2 DEF TypeOK, Xmit, At, GoTo, BeingSent, Sending
  <2>2. CASE Peer[d] = c
    <3>1. Moves(d, 0, 0, 0, 1)
      BY <2>1, <2>2 DEF Moves
    <3> QED
      BY <1>0, <1>a, <3>1, Balance, Zenon
  <2>3. CASE Peer[d] # c
    BY <1>1, <2>1, <2>3 DEF Moves
  <2> QED
    BY <2>2, <2>3
<1>3. ASSUME NEW c \in Dev, GetTxBuffer(c) PROVE Accounted(d)'
  <2>1. /\ UNCHANGED <<stats, rxQueue, rcvd, sent>>
        /\ \A e \in Dev : Sending(e)' = Sending(e)
    BY <1>3 DEF TypeOK, GetTxBuffer, At, GoTo, BeingSent, histVars, Sending
  <2> QED
    BY <1>1, <2>1 DEF Moves
<1>4. ASSUME NEW c \in Dev, EnqueueBuf(c) PROVE Accounted(d)'
  <2>1. pkt[c] \in Buf /\ rxQueue[Peer[c]] \in Seq(Buf)
    BY <1>4 DEF TypeOK, EnqueueBuf, At, HasBuf
  <2>2. Len(Push(rxQueue[Peer[c]], pkt[c])) = Len(rxQueue[Peer[c]]) + 1
    BY <2>1, ListLengths
  <2>3. /\ UNCHANGED <<stats, rcvd, sent>>
        /\ Len(rxQueue'[Peer[c]]) = Len(rxQueue[Peer[c]]) + 1
        /\ \A e \in Dev \ {Peer[c]} : rxQueue'[e] = rxQueue[e]
    BY <1>4, <2>2 DEF TypeOK, EnqueueBuf, histVars
  <2>4. /\ Sending(c) = 1 /\ Sending(c)' = 0
        /\ \A e \in Dev \ {c} : Sending(e)' = Sending(e)
    BY <1>4 DEF TypeOK, EnqueueBuf, At, GoTo, BeingSent, Sending
  <2>5. CASE Peer[d] = c
    <3>1. Moves(d, 0, 0, 1, -1)
      <4>1. Peer[c] = d
        BY <2>5, AccountTypes
      <4>2. Len(rxQueue'[d]) = Len(rxQueue[d]) + 1
        BY <2>3, <4>1
      <4>3. Sending(Peer[d]) = 1 /\ Sending(Peer[d])' = 0
        BY <2>4, <2>5, Zenon
      <4>4. Len(rcvd'[d]) = Len(rcvd[d]) /\ stats'[d] = stats[d]
        BY <2>3, Zenon
      <4> QED
        BY <2>3, <4>2, <4>3, <4>4 DEF Moves
    <3> QED
      BY <1>0, <1>a, <3>1, Balance, Zenon
  <2>6. CASE Peer[d] # c
    BY <1>1, <2>3, <2>4, <2>6 DEF Moves
  <2> QED
    BY <2>5, <2>6
<1>5. ASSUME NEW c \in Dev, NEW ok \in BOOLEAN, ServeInterrupt(c, ok)
      PROVE  Accounted(d)'
  <2> DEFINE rx == RX \in reg[c] /\ rxQueue[d] # <<>>
             rxS == IF rx THEN RxStats(stats[d], ok) ELSE stats[d]
  <2>1. irq[c] \in Dev /\ rxQueue[d] \in Seq(Buf) /\ rcvd[d] \in Seq(Nat)
    BY DEF TypeOK
  <2>2. sent' = sent
    BY <1>5 DEF ServeInterrupt
  <2>3. Sending(Peer[d])' = Sending(Peer[d])
    <3>1. ret[c] \in {"idle", "loadTx", "recover"} /\ pc[c] = "serve"
      BY <1>5 DEF TypeOK, ServeInterrupt, At
    <3>2. PICK l : (l = "release" \/ l = ret[c]) /\ GoTo(c, l)
      BY <1>5 DEF ServeInterrupt, AfterServe
    <3>3. \A e \in Dev : pc'[e] = IF e = c THEN l ELSE pc[e]
      BY <3>2 DEF TypeOK, GoTo
    <3> QED
      BY <3>1, <3>2, <3>3 DEF BeingSent, Sending
  <2>4. CASE irq[c] # d
    <3>1. rxQueue'[d] = rxQueue[d] /\ rcvd'[d] = rcvd[d] /\ stats'[d] = stats[d]
      BY <1>5, <2>1, <2>4 DEF TypeOK, ServeInterrupt
    <3> QED
      BY <1>1, <2>2, <2>3, <3>1 DEF Moves
  <2>5. CASE irq[c] = d
    <3>1. /\ rxQueue'[d] = IF rx THEN Tail(rxQueue[d]) ELSE rxQueue[d]
          /\ rcvd'[d] = IF rx /\ ok THEN Append(rcvd[d], data[Head(rxQueue[d])])
                                    ELSE rcvd[d]
          /\ stats'[d] = IF TX \in reg[c] THEN [rxS EXCEPT !.txPackets = @ + 1]
                                          ELSE rxS
      BY <1>5, <2>1, <2>5 DEF TypeOK, ServeInterrupt, Unlinked
    <3>2. rxS \in Stats
      BY StatsTypes
    <3>3. stats'[d].rxPackets = rxS.rxPackets /\ stats'[d].rxDropped = rxS.rxDropped
      <4> HIDE DEF rxS
      <4> QED
        BY <3>1, <3>2 DEF Stats
    <3>4. CASE ~rx
      <4>1. rxQueue'[d] = rxQueue[d] /\ rcvd'[d] = rcvd[d] /\ rxS = stats[d]
        BY <3>1, <3>4, Zenon
      <4> QED
        BY <1>1, <2>2, <2>3, <3>3, <4>1 DEF Moves
    <3>5. CASE rx
      <4>1. /\ rxQueue[d] # <<>> /\ data[Head(rxQueue[d])] \in Nat
            /\ rxQueue'[d] = Tail(rxQueue[d])
        <5>1. rxQueue[d] # <<>> /\ rxQueue'[d] = Tail(rxQueue[d])
          BY <3>1, <3>5, Zenon
        <5>2. Head(rxQueue[d]) \in Buf
          BY <2>1, <5>1
        <5> QED
          BY <5>1, <5>2 DEF TypeOK
      <4>2. Len(rxQueue'[d]) = Len(rxQueue[d]) - 1
        BY <2>1, <4>1
      <4>3. CASE ok
        <5>1. rcvd'[d] = Append(rcvd[d], data[Head(rxQueue[d])])
          BY <3>1, <3>5, <4>3, Zenon
        <5>2. Len(rcvd'[d]) = Len(rcvd[d]) + 1
          BY <2>1, <4>1, <5>1
        <5>3. /\ rxS.rxPackets = stats[d].rxPackets + 1
              /\ rxS.rxDropped = stats[d].rxDropped
          BY <3>5, <4>3 DEF RxStats, Stats
        <5> HIDE DEF rxS, rx
        <5>4. Moves(d, 1, 0, -1, 0)
          BY <2>2, <2>3, <3>3, <4>2, <5>2, <5>3 DEF Moves
        <5> QED
          BY <1>0, <1>a, <5>4, Balance, Zenon
      <4>4. CASE ~ok
        <5>1. rcvd'[d] = rcvd[d]
          BY <3>1, <4>4, Zenon
        <5>2. /\ rxS.rxPackets = stats[d].rxPackets
              /\ rxS.rxDropped = stats[d].rxDropped + 1
          BY <3>5, <4>4 DEF RxStats, Stats
        <5> HIDE DEF rxS, rx
        <5>3. Moves(d, 0, 1, -1, 0)
          BY <2>2, <2>3, <3>3, <4>2, <5>1, <5>2 DEF Moves
        <5> QED
          BY <1>0, <1>a, <5>3, Balance, Zenon
      <4> QED
        BY <4>3, <4>4
    <3> QED
      BY <3>4, <3>5
  <2> QED
    BY <2>4, <2>5
<1>6. ASSUME NEW c \in Dev,
             \/ Open(c) \/ Release(c) \/ GetFromEmptyPool(c) \/ LoadRxStatus(c)
             \/ StoreRxStatus(c) \/ LoadTxStatus(c) \/ StoreTxStatus(c)
             \/ LockupOrInterrupt(c) \/ TakeInterrupt(c) \/ ReleaseBuffer(c)
             \/ TestStopped(c) \/ TestNext(c) \/ WakeOwner(c) \/ TxTimeout(c)
             \/ EndTimeout(c)
      PROVE  Accounted(d)'
  <2>1. /\ UNCHANGED FrameVars
        /\ \A e \in Dev : BeingSent(e)' <=> BeingSent(e)
        /\ stats'[d].rxPackets = stats[d].rxPackets
        /\ stats'[d].rxDropped = stats[d].rxDropped
    BY <1>6, FrameQuiet
  <2>2. \A e \in Dev : Sending(e)' = Sending(e)
    BY <2>1 DEF Sending
  <2> QED
    BY <1>1, <2>1, <2>2 DEF FrameVars, Moves
<1>7. CASE UNCHANGED vars
  BY <1>0, <1>7 DEF vars, devVars, ctxVars, histVars, Accounted, BeingSent, Sending
<1> QED
  BY <1>2, <1>3, <1>4, <1>5, <1>6, <1>7 DEF Next, Run, Halt

(* FramesAccounted holds in every reachable state, however the status      *)
(* words are lost and whatever dev_alloc_skb does: no frame disappears     *)
(* between snull_tx and the receive statistics.                            *)
THEOREM FramesStayAccounted == Spec => []FramesAccounted
<1>1. Init => TypeOK /\ FramesAccounted
  BY TypeInit, AccountInit
<1>2. (TypeOK /\ FramesAccounted) /\ [Next]_vars => (TypeOK /\ FramesAccounted)'
  BY TypeNext, AccountNext
<1> QED
  BY <1>1, <1>2, PTL DEF Spec

-----------------------------------------------------------------------------
(* The refinement.  That a frame leaves the link when its buffer leaves    *)
(* the queue needs that no other queued buffer carries the same frame;     *)
(* that it does not leave when snull_hw_tx queues it needs that the buffer *)
(* carries the frame that was handed over last.                            *)
FramesDistinct ==
  \A d \in Dev :
    /\ \A b \in Range(rxQueue[d]) :
         /\ data[b] <= sent[Peer[d]]
         /\ BeingSent(Peer[d]) => data[b] # sent[Peer[d]]
    /\ \A a, b \in Range(rxQueue[d]) : data[a] = data[b] => a = b

CopiesFrame == \A c \in Dev : pc[c] = "enqueue" => data[pkt[c]] = sent[c]

RInv == IInv /\ FramesDistinct /\ CopiesFrame

LEMMA QueueMembers ==
  IInv => \A d \in Dev : \A b \in Range(rxQueue[d]) :
            b \in Buf /\ Owner(b) = Peer[d] /\ InQueue(b) /\ data[b] \in Nat
<1> SUFFICES ASSUME IInv, NEW d \in Dev, NEW b \in Range(rxQueue[d])
             PROVE  b \in Buf /\ Owner(b) = Peer[d] /\ InQueue(b) /\ data[b] \in Nat
  OBVIOUS
<1>1. b \in Buf
  BY DEF IInv, TypeOK, Range
<1>2. Owner(b) = Peer[d]
  BY DEF IInv, BufferConservation
<1> QED
  BY <1>1, <1>2, DevAssumption DEF InQueue, IInv, TypeOK

(* What the four steps that move a frame do, in terms of the queues'       *)
(* members and their frames.                                               *)
LEMMA XmitMoves ==
  ASSUME RInv, NEW c \in Dev, Xmit(c)
  PROVE  /\ UNCHANGED <<rxQueue, data, rcvd, pkt>>
         /\ sent' = [sent EXCEPT ![c] = @ + 1]
         /\ \A e \in Dev : sent'[e] = IF e = c THEN sent[c] + 1 ELSE sent[e]
         /\ \A e \in Dev : BeingSent(e)' <=> (e = c \/ BeingSent(e))
         /\ \A e \in Dev : pc'[e] = "enqueue" <=> pc[e] = "enqueue"
         /\ ~BeingSent(c) /\ pc[c] # "enqueue"
  BY DEF RInv, IInv, TypeOK, Xmit, At, GoTo, BeingSent

LEMMA GetMoves ==
  ASSUME RInv, NEW c \in Dev, GetTxBuffer(c)
  PROVE  /\ UNCHANGED <<rxQueue, rcvd, sent>>
         /\ \A d \in Dev : \A b \in Range(rxQueue[d]) : data'[b] = data[b]
         /\ \A e \in Dev : BeingSent(e)' <=> BeingSent(e)
         /\ \A e \in Dev : pc'[e] = "enqueue" => data'[pkt'[e]] = sent[e]
<1> DEFINE b0 == Head(ppool[c])
<1>1. ppool[c] \in Seq(Buf) /\ ppool[c] # <<>> /\ IsInjective(ppool[c]) /\ pc[c] = "get"
  BY DEF RInv, IInv, TypeOK, BufferConservation, GetTxBuffer, At
<1>2. b0 \in Buf /\ b0 \in Range(ppool[c])
  BY <1>1, PopMembers
<1>3. Owner(b0) = c /\ InPool(b0) /\ ~InQueue(b0)
  BY <1>2 DEF RInv, IInv, BufferConservation, InPool
<1>4. /\ UNCHANGED <<rxQueue, rcvd, sent>>
      /\ \A b \in Buf : data'[b] = IF b = b0 THEN sent[c] ELSE data[b]
      /\ \A e \in Dev : pkt'[e] = IF e = c THEN b0 ELSE pkt[e]
      /\ \A e \in Dev : pc'[e] = IF e = c THEN "enqueue" ELSE pc[e]
  BY DEF RInv, IInv, TypeOK, GetTxBuffer, FrameCopied, GoTo, histVars
<1> HIDE DEF b0
<1>5. \A d \in Dev : \A b \in Range(rxQueue[d]) : data'[b] = data[b]
  BY <1>3, <1>4, QueueMembers DEF RInv
<1>6. \A e \in Dev : BeingSent(e)' <=> BeingSent(e)
  BY <1>1, <1>4 DEF BeingSent
<1>7. ASSUME NEW e \in Dev, pc'[e] = "enqueue" PROVE data'[pkt'[e]] = sent[e]
  <2>1. CASE e = c
    BY <1>2, <1>4, <2>1
  <2>2. CASE e # c
    <3>1. pc[e] = "enqueue" /\ pkt'[e] = pkt[e] /\ pkt[e] \in Buf
      BY <1>4, <1>7, <2>2 DEF RInv, IInv, TypeOK, HasBuf
    <3>2. ~InPool(pkt[e])
      BY <3>1 DEF RInv, IInv, BufferConservation, Holds
    <3> QED
      BY <1>3, <1>4, <3>1, <3>2 DEF RInv, CopiesFrame
  <2> QED
    BY <2>1, <2>2
<1> QED
  BY <1>4, <1>5, <1>6, <1>7

LEMMA EnqueueMoves ==
  ASSUME RInv, NEW c \in Dev, EnqueueBuf(c)
  PROVE  /\ UNCHANGED <<data, rcvd, sent, pkt>>
         /\ pkt[c] \in Buf /\ data[pkt[c]] = sent[c]
         /\ Range(rxQueue'[Peer[c]]) = {pkt[c]} \cup Range(rxQueue[Peer[c]])
         /\ \A d \in Dev \ {Peer[c]} : rxQueue'[d] = rxQueue[d]
         /\ \A e \in Dev : BeingSent(e)' <=> (e # c /\ BeingSent(e))
         /\ \A e \in Dev : pc'[e] = "enqueue" <=> (e # c /\ pc[e] = "enqueue")
         /\ BeingSent(c)
<1> USE DevAssumption
<1>1. pc[c] = "enqueue" /\ pkt[c] \in Buf /\ rxQueue[Peer[c]] \in Seq(Buf)
  BY DEF RInv, IInv, TypeOK, EnqueueBuf, At, HasBuf
<1>2. Range(Push(rxQueue[Peer[c]], pkt[c])) = {pkt[c]} \cup Range(rxQueue[Peer[c]])
  BY <1>1, PushMembers
<1>3. /\ UNCHANGED <<data, rcvd, sent, pkt>>
      /\ rxQueue'[Peer[c]] = Push(rxQueue[Peer[c]], pkt[c])
      /\ \A d \in Dev \ {Peer[c]} : rxQueue'[d] = rxQueue[d]
      /\ \A e \in Dev : pc'[e] = IF e = c THEN "loadRx" ELSE pc[e]
  BY DEF RInv, IInv, TypeOK, EnqueueBuf, GoTo, histVars
<1> QED
  BY <1>1, <1>2, <1>3 DEF RInv, CopiesFrame, BeingSent

LEMMA ServeMoves ==
  ASSUME RInv, NEW c \in Dev, NEW ok \in BOOLEAN, ServeInterrupt(c, ok),
         NEW d0 \in Dev, d0 = irq[c]
  PROVE  /\ UNCHANGED <<data, sent>>
         /\ \A e \in Dev : BeingSent(e)' <=> BeingSent(e)
         /\ \A e \in Dev : pc'[e] = "enqueue" => pc[e] = "enqueue" /\ pkt'[e] = pkt[e]
         /\ \/ UNCHANGED <<rxQueue, rcvd>>
            \/ \E b \in Range(rxQueue[d0]) :
                 /\ Range(rxQueue'[d0]) = Range(rxQueue[d0]) \ {b}
                 /\ \A d \in Dev \ {d0} : rxQueue'[d] = rxQueue[d]
                 /\ rcvd' = IF ok THEN [rcvd EXCEPT ![d0] = Append(@, data[b])]
                                  ELSE rcvd
<1> DEFINE rx == RX \in reg[c] /\ rxQueue[d0] # <<>>
           b0 == Head(rxQueue[d0])
<1>1. UNCHANGED <<data, sent>>
  BY DEF ServeInterrupt
<1>2. /\ ret[c] \in {"idle", "loadTx", "recover"} /\ pc[c] = "serve"
      /\ \A e \in Dev \ {c} : pkt'[e] = pkt[e]
  BY DEF RInv, IInv, TypeOK, ServeInterrupt, At
<1>3. PICK l : (l = "release" \/ l = ret[c]) /\ GoTo(c, l)
  BY DEF ServeInterrupt, AfterServe
<1>4. \A e \in Dev : pc'[e] = IF e = c THEN l ELSE pc[e]
  BY <1>3 DEF RInv, IInv, TypeOK, GoTo
<1>5. /\ rxQueue' = [rxQueue EXCEPT ![d0] = IF rx THEN Tail(@) ELSE @]
      /\ rcvd' = [rcvd EXCEPT ![d0] = IF rx /\ ok THEN Append(@, data[b0]) ELSE @]
  BY DEF ServeInterrupt, Unlinked
<1>6. CASE ~rx
  <2>1. rxQueue' = [rxQueue EXCEPT ![d0] = @] /\ rcvd' = [rcvd EXCEPT ![d0] = @]
    BY <1>5, <1>6, Zenon
  <2>2. UNCHANGED <<rxQueue, rcvd>>
    BY <2>1 DEF RInv, IInv, TypeOK
  <2> QED
    BY <1>1, <1>2, <1>3, <1>4, <2>2 DEF BeingSent
<1>7. CASE rx
  <2>1. /\ rxQueue' = [rxQueue EXCEPT ![d0] = Tail(@)]
        /\ rcvd' = [rcvd EXCEPT ![d0] = IF ok THEN Append(@, data[b0]) ELSE @]
        /\ rxQueue[d0] # <<>>
    BY <1>5, <1>7, Zenon
  <2>2. rxQueue[d0] \in Seq(Buf) /\ IsInjective(rxQueue[d0])
    BY DEF RInv, IInv, TypeOK, BufferConservation
  <2>3. b0 \in Range(rxQueue[d0]) /\ Range(Tail(rxQueue[d0])) = Range(rxQueue[d0]) \ {b0}
    BY <2>1, <2>2, PopMembers
  <2>4. /\ rxQueue'[d0] = Tail(rxQueue[d0])
        /\ \A d \in Dev \ {d0} : rxQueue'[d] = rxQueue[d]
    BY <2>1 DEF RInv, IInv, TypeOK
  <2>5. rcvd' = IF ok THEN [rcvd EXCEPT ![d0] = Append(@, data[b0])] ELSE rcvd
    BY <2>1 DEF RInv, IInv, TypeOK
  <2> HIDE DEF b0, rx
  <2> QED
    BY <1>1, <1>2, <1>3, <1>4, <2>3, <2>4, <2>5 DEF BeingSent
<1> QED
  BY <1>6, <1>7

LEMMA DistinctInit == Init => FramesDistinct /\ CopiesFrame
<1>1. Range(<<>>) = {}
  BY DEF Range
<1> QED
  BY <1>1 DEF Init, FramesDistinct, CopiesFrame

LEMMA DistinctNext == RInv /\ [Next]_vars => FramesDistinct' /\ CopiesFrame'
<1> SUFFICES ASSUME RInv, [Next]_vars PROVE FramesDistinct' /\ CopiesFrame'
  OBVIOUS
<1> USE DevAssumption
<1>1. /\ \A d \in Dev : Peer[d] \in Dev /\ Peer[Peer[d]] = d /\ sent[d] \in Nat
      /\ \A d \in Dev : \A b \in Range(rxQueue[d]) : data[b] \in Nat
  BY QueueMembers DEF RInv, IInv, TypeOK
<1>2. ASSUME NEW c \in Dev, Xmit(c) PROVE FramesDistinct' /\ CopiesFrame'
  <2>1. ASSUME NEW d \in Dev, NEW b \in Range(rxQueue[d])
        PROVE  /\ data[b] <= sent'[Peer[d]]
               /\ BeingSent(Peer[d])' => data[b] # sent'[Peer[d]]
    <3>1. CASE Peer[d] = c
      <4>1. data[b] <= sent[c] /\ sent'[Peer[d]] = sent[c] + 1
        BY <1>1, <1>2, <3>1, XmitMoves DEF RInv, FramesDistinct
      <4> QED
        BY <1>1, <4>1
    <3>2. CASE Peer[d] # c
      <4>1. sent'[Peer[d]] = sent[Peer[d]] /\ (BeingSent(Peer[d])' <=> BeingSent(Peer[d]))
        BY <1>1, <1>2, <3>2, XmitMoves
      <4> QED
        BY <4>1 DEF RInv, FramesDistinct
    <3> QED
      BY <3>1, <3>2
  <2>2. rxQueue' = rxQueue /\ data' = data
    BY <1>2, XmitMoves
  <2>3. FramesDistinct'
    BY <2>1, <2>2 DEF RInv, FramesDistinct
  <2>4. CopiesFrame'
    BY <1>2, XmitMoves DEF RInv, CopiesFrame
  <2> QED
    BY <2>3, <2>4
<1>3. ASSUME NEW c \in Dev, GetTxBuffer(c) PROVE FramesDistinct' /\ CopiesFrame'
  BY <1>1, <1>3, GetMoves DEF RInv, FramesDistinct, CopiesFrame
<1>4. ASSUME NEW c \in Dev, EnqueueBuf(c) PROVE FramesDistinct' /\ CopiesFrame'
  <2>1. ASSUME NEW d \in Dev
        PROVE  /\ \A b \in Range(rxQueue'[d]) :
                    /\ data[b] <= sent[Peer[d]]
                    /\ BeingSent(Peer[d])' => data[b] # sent[Peer[d]]
               /\ \A a, b \in Range(rxQueue'[d]) : data[a] = data[b] => a = b
    <3>1. CASE d = Peer[c]
      <4>1. /\ Range(rxQueue'[d]) = {pkt[c]} \cup Range(rxQueue[d])
            /\ Peer[d] = c /\ data[pkt[c]] = sent[c] /\ BeingSent(c) /\ ~BeingSent(Peer[d])'
        BY <1>1, <1>4, <3>1, EnqueueMoves
      <4>2. /\ \A b \in Range(rxQueue[d]) : data[b] <= sent[c] /\ data[b] # sent[c]
            /\ \A a, b \in Range(rxQueue[d]) : data[a] = data[b] => a = b
        BY <4>1 DEF RInv, FramesDistinct
      <4>3. sent[c] <= sent[c]
        BY <1>1
      <4> QED
        BY <4>1, <4>2, <4>3
    <3>2. CASE d # Peer[c]
      <4>1. rxQueue'[d] = rxQueue[d] /\ (BeingSent(Peer[d])' <=> BeingSent(Peer[d]))
        BY <1>1, <1>4, <3>2, EnqueueMoves
      <4> QED
        BY <4>1 DEF RInv, FramesDistinct
    <3> QED
      BY <3>1, <3>2
  <2>2. UNCHANGED <<data, sent, pkt>>
    BY <1>4, EnqueueMoves
  <2>3. FramesDistinct'
    BY <2>1, <2>2 DEF FramesDistinct
  <2>4. CopiesFrame'
    BY <1>4, <2>2, EnqueueMoves DEF RInv, CopiesFrame
  <2> QED
    BY <2>3, <2>4
<1>5. ASSUME NEW c \in Dev, NEW ok \in BOOLEAN, ServeInterrupt(c, ok)
      PROVE  FramesDistinct' /\ CopiesFrame'
  <2>1. PICK d0 \in Dev : d0 = irq[c]
    BY DEF RInv, IInv, TypeOK
  <2>2. /\ UNCHANGED <<data, sent>>
        /\ \A e \in Dev : BeingSent(e)' <=> BeingSent(e)
        /\ \A e \in Dev : pc'[e] = "enqueue" => pc[e] = "enqueue" /\ pkt'[e] = pkt[e]
    BY <1>5, <2>1, ServeMoves
  <2>3. \A d \in Dev : Range(rxQueue'[d]) \subseteq Range(rxQueue[d])
    BY <1>5, <2>1, ServeMoves
  <2> QED
    BY <1>1, <2>2, <2>3 DEF RInv, FramesDistinct, CopiesFrame
<1>6. ASSUME NEW c \in Dev,
             \/ Open(c) \/ Release(c) \/ GetFromEmptyPool(c) \/ LoadRxStatus(c)
             \/ StoreRxStatus(c) \/ LoadTxStatus(c) \/ StoreTxStatus(c)
             \/ LockupOrInterrupt(c) \/ TakeInterrupt(c) \/ ReleaseBuffer(c)
             \/ TestStopped(c) \/ TestNext(c) \/ WakeOwner(c) \/ TxTimeout(c)
             \/ EndTimeout(c)
      PROVE  FramesDistinct' /\ CopiesFrame'
  <2>1. /\ UNCHANGED <<sent, rxQueue, data>>
        /\ \A e \in Dev : BeingSent(e)' <=> BeingSent(e)
        /\ \A e \in Dev : pc'[e] = "enqueue" => pc[e] = "enqueue" /\ pkt'[e] = pkt[e]
    BY <1>6, FrameQuiet DEF RInv, IInv, FrameVars
  <2> QED
    BY <1>1, <2>1 DEF RInv, FramesDistinct, CopiesFrame
<1>7. CASE UNCHANGED vars
  BY <1>7 DEF vars, devVars, ctxVars, histVars, RInv, FramesDistinct, CopiesFrame, BeingSent
<1> QED
  BY <1>2, <1>3, <1>4, <1>5, <1>6, <1>7 DEF Next, Run, Halt

LEMMA RInvInvariant == Spec => []RInv
<1>1. Init => RInv
  BY TypeInit, ConservationInit, DistinctInit DEF IInv, RInv
<1>2. RInv /\ [Next]_vars => RInv'
  BY ConservationNext, DistinctNext DEF RInv
<1> QED
  BY <1>1, <1>2, PTL DEF Spec

(* Each step of the driver is a step of the link, or leaves it alone.      *)
LEMMA LinkStutter ==
  ASSUME UNCHANGED <<sent, rcvd>>, \A d \in Dev : Carried(d)' = Carried(d)
  PROVE  UNCHANGED Link!vars
  BY DEF Link!vars

LEMMA LinkStep == RInv /\ [Next]_vars => [Link!Next]_Link!vars
<1> SUFFICES ASSUME RInv, [Next]_vars PROVE Link!Next \/ UNCHANGED Link!vars
  OBVIOUS
<1> USE DevAssumption
<1>1. \A d \in Dev : Peer[d] \in Dev /\ Peer[Peer[d]] = d
  OBVIOUS
<1>2. ASSUME NEW c \in Dev, Xmit(c) PROVE Link!Next
  <2> DEFINE F == [d \in Dev |-> Carried(d)]
  <2>1. Carried(Peer[c])' = Carried(Peer[c]) \cup {sent[c] + 1}
    BY <1>1, <1>2, XmitMoves DEF Carried
  <2>2. ASSUME NEW d \in Dev, d # Peer[c] PROVE Carried(d)' = Carried(d)
    <3>1. Peer[d] # c /\ Peer[d] \in Dev
      BY <1>1, <2>2
    <3> QED
      BY <1>2, <3>1, XmitMoves DEF Carried
  <2>3. [d \in Dev |-> Carried(d)'] = [F EXCEPT ![Peer[c]] = @ \cup {sent[c] + 1}]
    BY <1>1, <2>1, <2>2
  <2>4. Link!Accept(c)
    BY <1>2, <2>3, XmitMoves DEF Link!Accept
  <2> QED
    BY <2>4 DEF Link!Next
<1>3. ASSUME NEW c \in Dev, GetTxBuffer(c) PROVE UNCHANGED Link!vars
  <2>1. \A d \in Dev : Carried(d)' = Carried(d)
    BY <1>1, <1>3, GetMoves DEF Carried
  <2> QED
    BY <1>3, <2>1, GetMoves, LinkStutter
<1>4. ASSUME NEW c \in Dev, EnqueueBuf(c) PROVE UNCHANGED Link!vars
  <2>1. ASSUME NEW d \in Dev PROVE Carried(d)' = Carried(d)
    <3>1. CASE d = Peer[c]
      <4>1. /\ Range(rxQueue'[d]) = {pkt[c]} \cup Range(rxQueue[d])
            /\ data' = data /\ sent' = sent
            /\ Peer[d] = c /\ data[pkt[c]] = sent[c] /\ BeingSent(c) /\ ~BeingSent(c)'
        BY <1>1, <1>4, <3>1, EnqueueMoves
      <4>2. Carried(d)' = {data[b] : b \in {pkt[c]} \cup Range(rxQueue[d])}
        BY <4>1 DEF Carried
      <4>3. Carried(d) = {data[b] : b \in Range(rxQueue[d])} \cup {data[pkt[c]]}
        BY <4>1 DEF Carried
      <4> QED
        BY <4>2, <4>3
    <3>2. CASE d # Peer[c]
      <4>1. /\ rxQueue'[d] = rxQueue[d] /\ (BeingSent(Peer[d])' <=> BeingSent(Peer[d]))
            /\ data' = data /\ sent' = sent
        BY <1>1, <1>4, <3>2, EnqueueMoves
      <4> QED
        BY <4>1 DEF Carried
    <3> QED
      BY <3>1, <3>2
  <2> QED
    BY <1>4, <2>1, EnqueueMoves, LinkStutter
<1>5. ASSUME NEW c \in Dev, NEW ok \in BOOLEAN, ServeInterrupt(c, ok)
      PROVE  Link!Next \/ UNCHANGED Link!vars
  <2>1. PICK d0 \in Dev : d0 = irq[c]
    BY DEF RInv, IInv, TypeOK
  <2>2. /\ UNCHANGED <<data, sent>>
        /\ \A e \in Dev : BeingSent(e)' <=> BeingSent(e)
    BY <1>5, <2>1, ServeMoves
  <2>3. CASE UNCHANGED <<rxQueue, rcvd>>
    <3>1. \A d \in Dev : Carried(d)' = Carried(d)
      BY <1>1, <2>2, <2>3 DEF Carried
    <3> QED
      BY <2>2, <2>3, <3>1, LinkStutter
  <2>4. ASSUME NEW b \in Range(rxQueue[d0]),
               Range(rxQueue'[d0]) = Range(rxQueue[d0]) \ {b},
               \A d \in Dev \ {d0} : rxQueue'[d] = rxQueue[d],
               rcvd' = IF ok THEN [rcvd EXCEPT ![d0] = Append(@, data[b])] ELSE rcvd
        PROVE  Link!Next
    <3> DEFINE F == [d \in Dev |-> Carried(d)]
    <3>1. data[b] \in Carried(d0)
      BY DEF Carried
    <3>2. Carried(d0)' = Carried(d0) \ {data[b]}
      <4>1. \A a \in Range(rxQueue[d0]) : data[a] = data[b] => a = b
        BY DEF RInv, FramesDistinct
      <4>2. BeingSent(Peer[d0]) => sent[Peer[d0]] # data[b]
        BY DEF RInv, FramesDistinct
      <4>3. BeingSent(Peer[d0])' <=> BeingSent(Peer[d0])
        BY <1>1, <2>2
      <4>4. {data[a] : a \in Range(rxQueue[d0]) \ {b}}
              = {data[a] : a \in Range(rxQueue[d0])} \ {data[b]}
        BY <4>1
      <4> QED
        BY <2>2, <2>4, <4>2, <4>3, <4>4 DEF Carried
    <3>3. ASSUME NEW d \in Dev, d # d0 PROVE Carried(d)' = Carried(d)
      BY <1>1, <2>2, <2>4, <3>3 DEF Carried
    <3>4. [d \in Dev |-> Carried(d)'] = [F EXCEPT ![d0] = @ \ {data[b]}]
      BY <3>2, <3>3
    <3>5. F[d0] = Carried(d0)
      OBVIOUS
    <3>6. Link!Deliver(d0, data[b]) \/ Link!Lose(d0, data[b])
      <4>1. CASE ok
        BY <2>2, <2>4, <3>1, <3>4, <4>1 DEF Link!Deliver
      <4>2. CASE ~ok
        BY <2>2, <2>4, <3>1, <3>4, <4>2 DEF Link!Lose
      <4> QED
        BY <4>1, <4>2
    <3> QED
      BY <3>1, <3>6 DEF Link!Next
  <2>5. \/ UNCHANGED <<rxQueue, rcvd>>
        \/ \E b \in Range(rxQueue[d0]) :
             /\ Range(rxQueue'[d0]) = Range(rxQueue[d0]) \ {b}
             /\ \A d \in Dev \ {d0} : rxQueue'[d] = rxQueue[d]
             /\ rcvd' = IF ok THEN [rcvd EXCEPT ![d0] = Append(@, data[b])]
                              ELSE rcvd
    BY <1>5, <2>1, ServeMoves
  <2> QED
    BY <2>3, <2>4, <2>5
<1>6. ASSUME NEW c \in Dev,
             \/ Open(c) \/ Release(c) \/ GetFromEmptyPool(c) \/ LoadRxStatus(c)
             \/ StoreRxStatus(c) \/ LoadTxStatus(c) \/ StoreTxStatus(c)
             \/ LockupOrInterrupt(c) \/ TakeInterrupt(c) \/ ReleaseBuffer(c)
             \/ TestStopped(c) \/ TestNext(c) \/ WakeOwner(c) \/ TxTimeout(c)
             \/ EndTimeout(c)
      PROVE  UNCHANGED Link!vars
  <2>1. /\ UNCHANGED <<sent, rcvd, rxQueue, data>>
        /\ \A e \in Dev : BeingSent(e)' <=> BeingSent(e)
    BY <1>6, FrameQuiet DEF RInv, IInv, FrameVars
  <2>2. \A d \in Dev : Carried(d)' = Carried(d)
    BY <1>1, <2>1 DEF Carried
  <2> QED
    BY <2>1, <2>2, LinkStutter
<1>7. CASE UNCHANGED vars
  <2>1. UNCHANGED <<sent, rcvd, rxQueue, data, pc>>
    BY <1>7 DEF vars, devVars, ctxVars, histVars
  <2>2. \A d \in Dev : Carried(d)' = Carried(d)
    BY <2>1 DEF Carried, BeingSent
  <2> QED
    BY <2>1, <2>2, LinkStutter
<1> QED
  BY <1>2, <1>3, <1>4, <1>5, <1>6, <1>7 DEF Next, Run, Halt

LEMMA LinkInit == Init => Link!Init
<1>1. Range(<<>>) = {}
  BY DEF Range
<1>2. Init => \A d \in Dev : Carried(d) = {}
  BY <1>1, DevAssumption DEF Init, Carried, BeingSent
<1> QED
  BY <1>2 DEF Init, Link!Init

(* ImplementsLink: the pair of interfaces implements LossyLink, for any    *)
(* number of frames, any pools and any interleaving of the two contexts.   *)
THEOREM DriverImplementsLink == Spec => ImplementsLink
  BY RInvInvariant, LinkInit, LinkStep, PTL DEF Spec, ImplementsLink, Link!Spec
-----------------------------------------------------------------------------
(* Traffic in one direction: only s transmits and it is never taken down.  *)
(* Everything that can happen is then one run of snull_tx or of            *)
(* snull_tx_timeout after the other.  A run goes through snull_rx on the   *)
(* peer's side (Receiving) and ends in the TX interrupt (Finishing); when  *)
(* that one gets lost, s waits for the watchdog with a stopped queue.      *)
OneWay(s) == Senders = {s} /\ s \notin Closers

Receiving(s) == pc[s] \in {"intr", "serve"} /\ ret[s] = "loadTx"
Finishing(s) == pc[s] \in {"intr", "serve"} /\ ret[s] # "loadTx"
Waiting(s)   == pc[s] = "idle" /\ s \in stopped

(* The frame that was handed over last is not completed yet; its buffer is *)
(* not in the pool; its buffer is in the peer's queue.                     *)
Pending(s) == pc[s] # "recover" /\ (pc[s] = "idle" => s \in stopped)
Lent(s)    == pc[s] \in {"enqueue", "loadRx", "storeRx", "release"} \/ Receiving(s)
Queued(s)  == pc[s] \in {"loadRx", "storeRx"} \/ Receiving(s)

(* The other interfaces do nothing but to be opened and closed.            *)
Others(s) ==
  \A c \in Dev \ {s} :
    /\ pc[c] = "idle" /\ c \notin up \cap stopped /\ sent[c] = 0
    /\ stats[c].txPackets = 0 /\ stats[c].txErrors = 0
    /\ Len(ppool[c]) = PoolSize[c]
    /\ \A k \in 1..MaxPkt : freed[c][k] = 0

(* Where s is, with what.                                                  *)
Path(s) ==
  /\ pc[s] # "oops"
  /\ pc[s] # "idle" \/ s \in stopped => s \in up
  /\ Receiving(s) => irq[s] = Peer[s]
  /\ Finishing(s) => irq[s] = s
  /\ pc[s] \in {"release", "ifStopped", "ifNext", "wake"} =>
       ret[s] = "loadTx" /\ Owner(pkt[s]) = s

(* One buffer at most is out of the pool, so that the queue is stopped for *)
(* want of buffers only if it has just one, and started again; and it is   *)
(* stopped for a lost interrupt.                                           *)
Flow(s) ==
  /\ Len(ppool[s]) = PoolSize[s] - (IF Lent(s) THEN 1 ELSE 0)
  /\ Len(rxQueue[Peer[s]]) = IF Queued(s) THEN 1 ELSE 0
  /\ Lent(s) \/ pc[s] = "ifStopped" => (s \in stopped <=> PoolSize[s] = 1)
  /\ pc[s] \in {"ifNext", "wake"} => PoolSize[s] = 1
  /\ pc[s] \in {"ifStopped", "ifNext"} /\ PoolSize[s] = 1 => next[pkt[s]] = None
  /\ pc[s] \in {"get", "loadTx", "storeTx", "lockup"} => s \notin stopped
  /\ Finishing(s) => /\ s \in stopped <=> ret[s] = "recover"
                     /\ s \in stopped <=> LosesTx(s)
  /\ Waiting(s) => LosesTx(s)

(* A raised TX bit is always that of the pending frame.                    *)
Word(s) ==
  /\ status[s] = IF pc[s] = "lockup" \/ Waiting(s) \/ Finishing(s) THEN {TX} ELSE {}
  /\ TX \notin status[Peer[s]]
  /\ Receiving(s) => RX \in status[Peer[s]]
  /\ pc[s] = "storeRx" => TX \notin reg[s]
  /\ pc[s] = "storeTx" => reg[s] = {}
  /\ pc[s] = "serve" => reg[s] = status[irq[s]]

Lost(n) == IF Lockup = 0 THEN 0 ELSE n \div Lockup

Counts(s) ==
  /\ sent[s] <= MaxPkt /\ skb[s] = sent[s]
  /\ sent[s] = stats[s].txPackets + (IF Pending(s) THEN 1 ELSE 0)
  /\ stats[s].txErrors + (IF pc[s] = "recover" THEN 1 ELSE 0) = Lost(stats[s].txPackets)
  /\ \A k \in 1..MaxPkt : freed[s][k] = IF k <= stats[s].txPackets THEN 1 ELSE 0

OneWayInv(s) == Others(s) /\ Path(s) /\ Flow(s) /\ Word(s) /\ Counts(s)

-----------------------------------------------------------------------------
(* The steps with a single transmitter.                                    *)
LEMMA OnlySender ==
  ASSUME NEW s \in Dev, OneWay(s), Others(s), [Next]_vars
  PROVE  \/ \E c \in Dev : Open(c) \/ (c # s /\ Release(c))
         \/ Xmit(s) \/ TxTimeout(s) \/ Run(s) \/ UNCHANGED vars
<1>1. ASSUME NEW c \in Dev, c # s, Xmit(c) \/ TxTimeout(c) \/ Run(c) PROVE FALSE
  <2>1. pc[c] = "idle" /\ c \notin up \cap stopped /\ c \notin Senders
    BY <1>1 DEF Others, OneWay
  <2>2. ~Xmit(c) /\ ~TxTimeout(c)
    BY <2>1 DEF Xmit, TxTimeout, TimesOut
  <2>3. ~Run(c)
    BY <2>1 DEF Run, At, GetTxBuffer, GetFromEmptyPool, EnqueueBuf, LoadRxStatus, StoreRxStatus,
         LoadTxStatus, StoreTxStatus, LockupOrInterrupt, TakeInterrupt, ServeInterrupt,
         ReleaseBuffer, TestStopped, TestNext, WakeOwner, EndTimeout
  <2> QED
    BY <1>1, <2>2, <2>3
<1>2. ~Release(s)
  BY DEF OneWay, Release
<1> QED
  BY <1>1, <1>2 DEF Next, Halt

(* What the other interfaces have done stays nothing.                      *)
LEMMA OthersStay ==
  ASSUME NEW s \in Dev, Others(s),
         \A c \in Dev \ {s} :
           /\ pc'[c] = pc[c] /\ sent'[c] = sent[c] /\ ppool'[c] = ppool[c]
           /\ stats'[c].txPackets = stats[c].txPackets
           /\ stats'[c].txErrors = stats[c].txErrors
           /\ freed'[c] = freed[c]
           /\ c \in up' \cap stopped' => c \in up \cap stopped
  PROVE  Others(s)'
  BY DEF Others

LEMMA OneWayInit == ASSUME NEW s \in Dev, Init PROVE OneWayInv(s)
<1> USE DevAssumption, ParamAssumption
<1>1. \A d \in Dev : /\ pc[d] = "idle" /\ sent[d] = 0 /\ skb[d] = 0 /\ status[d] = {}
                     /\ stats[d].txPackets = 0 /\ stats[d].txErrors = 0
                     /\ rxQueue[d] = <<>> /\ \A k \in 1..MaxPkt : freed[d][k] = 0
  BY DEF Init
<1>2. \A d \in Dev : Len(ppool[d]) = PoolSize[d]
  <2> TAKE d \in Dev
  <2>1. ppool[d] = [i \in 1..PoolSize[d] |-> <<d, PoolSize[d] + 1 - i>>]
    BY DEF Init, SetupPool
  <2>2. PoolSize[d] \in Nat /\ DOMAIN ppool[d] = 1..PoolSize[d]
    BY <2>1
  <2>3. DOMAIN ppool[d] = 1..Len(ppool[d]) /\ Len(ppool[d]) \in Nat
    BY TypeInit, LenProperties DEF TypeOK
  <2> QED
    BY <2>2, <2>3
<1>3. stopped = {} /\ up = {}
  BY DEF Init
<1>4. Peer[s] \in Dev
  OBVIOUS
<1>5. Others(s)
  BY <1>1, <1>2, <1>3 DEF Others
<1>6. ~Receiving(s) /\ ~Finishing(s) /\ ~Waiting(s) /\ ~Pending(s) /\ ~Lent(s) /\ ~Queued(s)
  BY <1>1, <1>3 DEF Receiving, Finishing, Waiting, Pending, Lent, Queued
<1>7. Path(s) /\ Word(s)
  BY <1>1, <1>3, <1>4, <1>6 DEF Path, Word
<1>8. Flow(s)
  BY <1>1, <1>2, <1>3, <1>4, <1>6 DEF Flow
<1>9. Lost(0) = 0
  BY DEF Lost
<1>10. Counts(s)
  BY <1>1, <1>6, <1>9 DEF Counts
<1> QED
  BY <1>5, <1>7, <1>8, <1>10 DEF OneWayInv

(* An interface is opened, or another one than s is closed.                *)
LEMMA OneWayAdmin ==
  ASSUME NEW s \in Dev, OneWayInv(s), NEW c \in Dev, Open(c) \/ (c # s /\ Release(c))
  PROVE  OneWayInv(s)'
<1>1. UNCHANGED <<ppool, rxQueue, next, status, skb, stats, pc, reg, irq, ret, pkt, sent, freed>>
  BY DEF Open, Release, ctxVars, histVars
<1>2. /\ s \in stopped' <=> s \in stopped
      /\ s \in up => s \in up'
      /\ \A e \in Dev \ {s} : e \in up' \cap stopped' => e \in up \cap stopped
  BY DEF Open, Release, OneWayInv, Path
<1>3. Others(s)'
  BY <1>1, <1>2, OthersStay DEF OneWayInv
<1>4. /\ Receiving(s)' <=> Receiving(s)
      /\ Finishing(s)' <=> Finishing(s)
      /\ Waiting(s)' <=> Waiting(s)
      /\ Pending(s)' <=> Pending(s)
      /\ Lent(s)' <=> Lent(s)
      /\ Queued(s)' <=> Queued(s)
      /\ LosesTx(s)' <=> LosesTx(s)
  BY <1>1, <1>2 DEF Receiving, Finishing, Waiting, Pending, Lent, Queued, LosesTx
<1>5. Path(s)'
  BY <1>1, <1>2, <1>4 DEF OneWayInv, Path
<1>6. Flow(s)'
  BY <1>1, <1>2, <1>4 DEF OneWayInv, Flow
<1>7. Word(s)'
  BY <1>1, <1>4 DEF OneWayInv, Word
<1>8. Counts(s)'
  BY <1>1, <1>4 DEF OneWayInv, Counts, Lost
<1> QED
  BY <1>3, <1>5, <1>6, <1>7, <1>8 DEF OneWayInv

LEMMA Goes ==
  ASSUME TypeOK, NEW s \in Dev, NEW l, GoTo(s, l)
  PROVE  pc'[s] = l /\ \A c \in Dev \ {s} : pc'[c] = pc[c]
  BY DEF TypeOK, GoTo

LEMMA PeerFacts ==
  ASSUME NEW s \in Dev
  PROVE  Peer[s] \in Dev /\ Peer[s] # s /\ Peer[Peer[s]] = s /\ PoolSize[s] \in Nat \ {0}
  BY DevAssumption, ParamAssumption

LEMMA OneWayXmit ==
  ASSUME TypeOK, NEW s \in Dev, OneWayInv(s), Xmit(s) PROVE OneWayInv(s)'
<1>1. /\ pc[s] = "idle" /\ s \in up /\ s \notin stopped /\ sent[s] < MaxPkt
      /\ UNCHANGED <<ppool, rxQueue, next, status, stats, stopped, up, reg, irq, ret, pkt, freed>>
  BY DEF Xmit, At
<1>2. pc'[s] = "get" /\ \A c \in Dev \ {s} : pc'[c] = pc[c]
  BY Goes DEF Xmit
<1>3. /\ sent[s] \in Nat /\ sent'[s] = sent[s] + 1 /\ skb'[s] = sent[s] + 1
      /\ \A c \in Dev \ {s} : sent'[c] = sent[c]
  BY DEF TypeOK, Xmit
<1>4. ~Receiving(s) /\ ~Finishing(s) /\ ~Waiting(s) /\ ~Pending(s) /\ ~Lent(s) /\ ~Queued(s)
  BY <1>1 DEF Receiving, Finishing, Waiting, Pending, Lent, Queued
<1>5. /\ ~Receiving(s)' /\ ~Finishing(s)' /\ ~Waiting(s)' /\ ~Lent(s)' /\ ~Queued(s)'
      /\ Pending(s)'
  BY <1>2 DEF Receiving, Finishing, Waiting, Pending, Lent, Queued
<1>6. Others(s)'
  BY <1>1, <1>2, <1>3, OthersStay DEF OneWayInv
<1>7. Path(s)'
  BY <1>1, <1>2, <1>5 DEF Path
<1>8. Flow(s)'
  BY <1>1, <1>2, <1>4, <1>5 DEF OneWayInv, Flow
<1>9. Word(s)'
  BY <1>1, <1>2, <1>4, <1>5 DEF OneWayInv, Word
<1>10. Counts(s)'
  <2>1. sent[s] = stats[s].txPackets
    BY <1>3, <1>4 DEF OneWayInv, Counts, TypeOK
  <2>2. sent'[s] <= MaxPkt
    BY <1>1, <1>3, ParamAssumption
  <2> QED
    BY <1>1, <1>2, <1>3, <1>5, <2>1, <2>2 DEF OneWayInv, Counts
<1> QED
  BY <1>6, <1>7, <1>8, <1>9, <1>10 DEF OneWayInv

LEMMA OneWayGet ==
  ASSUME TypeOK, NEW s \in Dev, OneWayInv(s), GetTxBuffer(s) PROVE OneWayInv(s)'
<1>1. /\ pc[s] = "get" /\ ppool[s] # <<>>
      /\ ppool' = [ppool EXCEPT ![s] = Tail(ppool[s])]
      /\ stopped' = IF StopsQueue(ppool[s]) THEN stopped \cup {s} ELSE stopped
      /\ UNCHANGED <<rxQueue, status, stats, up, reg, irq, ret, sent, skb, freed>>
  BY DEF GetTxBuffer, At, histVars
<1>2. pc'[s] = "enqueue" /\ \A c \in Dev \ {s} : pc'[c] = pc[c]
  BY Goes DEF GetTxBuffer
<1>3. /\ ~Receiving(s) /\ ~Finishing(s) /\ ~Waiting(s) /\ ~Lent(s) /\ ~Queued(s)
      /\ Pending(s) /\ s \in up /\ s \notin stopped
  BY <1>1 DEF Receiving, Finishing, Waiting, Pending, Lent, Queued, OneWayInv, Path, Flow
<1>4. /\ ~Receiving(s)' /\ ~Finishing(s)' /\ ~Waiting(s)' /\ ~Queued(s)'
      /\ Pending(s)' /\ Lent(s)'
  BY <1>2 DEF Receiving, Finishing, Waiting, Pending, Lent, Queued
<1>5. /\ Len(ppool[s]) = PoolSize[s] /\ ppool'[s] = Tail(ppool[s])
      /\ Len(ppool'[s]) = PoolSize[s] - 1 /\ (StopsQueue(ppool[s]) <=> PoolSize[s] = 1)
      /\ \A c \in Dev \ {s} : ppool'[c] = ppool[c]
  <2>1. ppool[s] \in Seq(Buf) /\ ppool \in [Dev -> Seq(Buf)]
    BY DEF TypeOK
  <2>2. Tail(ppool[s]) \in Seq(Buf) /\ Len(Tail(ppool[s])) = Len(ppool[s]) - 1
    BY <1>1, <2>1
  <2>3. Len(ppool[s]) = PoolSize[s]
    BY <1>3, PeerFacts DEF OneWayInv, Flow
  <2>4. Tail(ppool[s]) = <<>> <=> Len(Tail(ppool[s])) = 0
    BY <2>2, EmptySeq
  <2> QED
    BY <1>1, <2>1, <2>2, <2>3, <2>4, PeerFacts DEF StopsQueue
<1>6. /\ s \in stopped' <=> PoolSize[s] = 1
      /\ \A c \in Dev \ {s} : c \in stopped' <=> c \in stopped
  BY <1>1, <1>3, <1>5
<1>7. Others(s)'
  BY <1>1, <1>2, <1>5, <1>6, OthersStay DEF OneWayInv
<1>8. Path(s)'
  BY <1>1, <1>2, <1>3, <1>4 DEF Path
<1>9. Flow(s)'
  BY <1>1, <1>2, <1>3, <1>4, <1>5, <1>6 DEF OneWayInv, Flow
<1>10. Word(s)'
  BY <1>1, <1>2, <1>3, <1>4 DEF OneWayInv, Word
<1>11. Counts(s)'
  BY <1>1, <1>2, <1>3, <1>4 DEF OneWayInv, Counts
<1> QED
  BY <1>7, <1>8, <1>9, <1>10, <1>11 DEF OneWayInv

LEMMA OneWayNoOops ==
  ASSUME TypeOK, NEW s \in Dev, OneWayInv(s), GetFromEmptyPool(s) PROVE FALSE
<1>1. pc[s] = "get" /\ Len(ppool[s]) = 0
  BY DEF GetFromEmptyPool, At
<1>2. ~Lent(s)
  BY <1>1 DEF Lent, Receiving
<1> QED
  BY <1>1, <1>2, PeerFacts DEF OneWayInv, Flow

LEMMA OneWayEnqueue ==
  ASSUME IInv, NEW s \in Dev, OneWayInv(s), EnqueueBuf(s) PROVE OneWayInv(s)'
<1>1. /\ pc[s] = "enqueue"
      /\ rxQueue' = [rxQueue EXCEPT ![Peer[s]] = Push(rxQueue[Peer[s]], pkt[s])]
      /\ UNCHANGED <<ppool, status, stats, stopped, up, reg, irq, ret, pkt, sent, skb, freed>>
  BY DEF EnqueueBuf, At, histVars
<1>2. pc'[s] = "loadRx" /\ \A c \in Dev \ {s} : pc'[c] = pc[c]
  BY Goes DEF EnqueueBuf, IInv
<1>3. /\ ~Receiving(s) /\ ~Finishing(s) /\ ~Waiting(s) /\ ~Queued(s)
      /\ Pending(s) /\ Lent(s)
  BY <1>1 DEF Receiving, Finishing, Waiting, Pending, Lent, Queued
<1>4. /\ ~Receiving(s)' /\ ~Finishing(s)' /\ ~Waiting(s)'
      /\ Pending(s)' /\ Lent(s)' /\ Queued(s)'
  BY <1>2 DEF Receiving, Finishing, Waiting, Pending, Lent, Queued
<1>5. Len(rxQueue'[Peer[s]]) = 1
  <2>1. rxQueue \in [Dev -> Seq(Buf)] /\ pkt[s] \in Buf
    BY <1>1 DEF IInv, TypeOK, HasBuf
  <2>2. Len(Push(rxQueue[Peer[s]], pkt[s])) = Len(rxQueue[Peer[s]]) + 1
    BY <2>1, PeerFacts, ListLengths
  <2>3. Len(rxQueue[Peer[s]]) = 0
    BY <1>3 DEF OneWayInv, Flow
  <2> QED
    BY <1>1, <2>1, <2>2, <2>3, PeerFacts
<1>6. Others(s)'
  BY <1>1, <1>2, OthersStay DEF OneWayInv
<1>7. Path(s)'
  BY <1>1, <1>2, <1>3, <1>4 DEF OneWayInv, Path
<1>8. Flow(s)'
  BY <1>1, <1>2, <1>3, <1>4, <1>5 DEF OneWayInv, Flow
<1>9. Word(s)'
  BY <1>1, <1>2, <1>3, <1>4 DEF OneWayInv, Word
<1>10. Counts(s)'
  BY <1>1, <1>2, <1>3, <1>4 DEF OneWayInv, Counts
<1> QED
  BY <1>6, <1>7, <1>8, <1>9, <1>10 DEF OneWayInv

(* The status words.  With one context that uses them, no load is stale    *)
(* when it is stored.                                                      *)
LEMMA OneWayLoads ==
  ASSUME TypeOK, NEW s \in Dev, OneWayInv(s), LoadRxStatus(s) \/ LoadTxStatus(s)
  PROVE  OneWayInv(s)'
<1>1. /\ UNCHANGED <<ppool, rxQueue, next, status, stats, stopped, up, irq, ret, pkt, sent, skb, freed>>
      /\ \/ pc[s] = "loadRx" /\ reg'[s] = status[Peer[s]]
         \/ pc[s] = "loadTx" /\ reg'[s] = status[s]
  BY DEF LoadRxStatus, LoadTxStatus, At, devVars, histVars, TypeOK
<1>2. /\ pc[s] = "loadRx" => pc'[s] = "storeRx"
      /\ pc[s] = "loadTx" => pc'[s] = "storeTx"
      /\ \A c \in Dev \ {s} : pc'[c] = pc[c]
  BY Goes DEF LoadRxStatus, LoadTxStatus, At
<1>3. ~Receiving(s) /\ ~Finishing(s) /\ ~Waiting(s) /\ Pending(s)
  BY <1>1 DEF Receiving, Finishing, Waiting, Pending
<1>4. ~Receiving(s)' /\ ~Finishing(s)' /\ ~Waiting(s)' /\ Pending(s)'
  BY <1>1, <1>2 DEF Receiving, Finishing, Waiting, Pending
<1>5. /\ Lent(s)' <=> Lent(s)
      /\ Queued(s)' <=> Queued(s)
  BY <1>1, <1>2, <1>3, <1>4 DEF Lent, Queued
<1>6. Others(s)'
  BY <1>1, <1>2, OthersStay DEF OneWayInv
<1>7. Path(s)'
  BY <1>1, <1>2, <1>3, <1>4 DEF OneWayInv, Path
<1>8. Flow(s)'
  BY <1>1, <1>2, <1>3, <1>4, <1>5 DEF OneWayInv, Flow
<1>9. Word(s)'
  BY <1>1, <1>2, <1>3, <1>4 DEF OneWayInv, Word
<1>10. Counts(s)'
  BY <1>1, <1>2, <1>3, <1>4 DEF OneWayInv, Counts
<1> QED
  BY <1>6, <1>7, <1>8, <1>9, <1>10 DEF OneWayInv

LEMMA OneWayStoreRx ==
  ASSUME TypeOK, NEW s \in Dev, OneWayInv(s), StoreRxStatus(s) PROVE OneWayInv(s)'
<1>1. /\ UNCHANGED <<ppool, rxQueue, next, stats, stopped, up, pkt, sent, skb, freed>>
      /\ pc[s] = "storeRx" /\ irq'[s] = Peer[s] /\ ret'[s] = "loadTx"
      /\ status'[Peer[s]] = reg[s] \cup {RX} /\ status'[s] = status[s]
  BY PeerFacts DEF StoreRxStatus, At, histVars, TypeOK
<1>2. pc'[s] = "intr" /\ \A c \in Dev \ {s} : pc'[c] = pc[c]
  BY Goes DEF StoreRxStatus
<1>3. ~Receiving(s) /\ ~Finishing(s) /\ ~Waiting(s) /\ Pending(s) /\ Lent(s) /\ Queued(s)
  BY <1>1 DEF Receiving, Finishing, Waiting, Pending, Lent, Queued
<1>4. /\ Receiving(s)' /\ ~Finishing(s)' /\ ~Waiting(s)' /\ Pending(s)'
      /\ Lent(s)' /\ Queued(s)'
  BY <1>1, <1>2 DEF Receiving, Finishing, Waiting, Pending, Lent, Queued
<1>5. Others(s)'
  BY <1>1, <1>2, OthersStay DEF OneWayInv
<1>6. Path(s)'
  BY <1>1, <1>2, <1>3, <1>4 DEF OneWayInv, Path
<1>7. Flow(s)'
  BY <1>1, <1>2, <1>3, <1>4 DEF OneWayInv, Flow
<1>8. Word(s)'
  BY <1>1, <1>2, <1>3, <1>4 DEF OneWayInv, Word, RX, TX
<1>9. Counts(s)'
  BY <1>1, <1>2, <1>3, <1>4 DEF OneWayInv, Counts
<1> QED
  BY <1>5, <1>6, <1>7, <1>8, <1>9 DEF OneWayInv

LEMMA OneWayStoreTx ==
  ASSUME TypeOK, NEW s \in Dev, OneWayInv(s), StoreTxStatus(s) PROVE OneWayInv(s)'
<1>1. /\ UNCHANGED <<ppool, rxQueue, next, stats, stopped, up, irq, ret, pkt, sent, skb, freed>>
      /\ pc[s] = "storeTx"
      /\ status'[s] = reg[s] \cup {TX} /\ status'[Peer[s]] = status[Peer[s]]
  BY PeerFacts DEF StoreTxStatus, At, histVars, TypeOK
<1>2. pc'[s] = "lockup" /\ \A c \in Dev \ {s} : pc'[c] = pc[c]
  BY Goes DEF StoreTxStatus
<1>3. ~Receiving(s) /\ ~Finishing(s) /\ ~Waiting(s) /\ Pending(s) /\ ~Lent(s) /\ ~Queued(s)
  BY <1>1 DEF Receiving, Finishing, Waiting, Pending, Lent, Queued
<1>4. /\ ~Receiving(s)' /\ ~Finishing(s)' /\ ~Waiting(s)' /\ Pending(s)'
      /\ ~Lent(s)' /\ ~Queued(s)'
  BY <1>1, <1>2 DEF Receiving, Finishing, Waiting, Pending, Lent, Queued
<1>5. Others(s)'
  BY <1>1, <1>2, OthersStay DEF OneWayInv
<1>6. Path(s)'
  BY <1>1, <1>2, <1>3, <1>4 DEF OneWayInv, Path
<1>7. Flow(s)'
  BY <1>1, <1>2, <1>3, <1>4 DEF OneWayInv, Flow
<1>8. Word(s)'
  <2>1. status'[s] = {TX}
    BY <1>1 DEF OneWayInv, Word
  <2> QED
    BY <1>1, <1>2, <1>4, <2>1 DEF OneWayInv, Word
<1>9. Counts(s)'
  BY <1>1, <1>2, <1>3, <1>4 DEF OneWayInv, Counts
<1> QED
  BY <1>5, <1>6, <1>7, <1>8, <1>9 DEF OneWayInv

LEMMA OneWayLockup ==
  ASSUME TypeOK, NEW s \in Dev, OneWayInv(s), LockupOrInterrupt(s) PROVE OneWayInv(s)'
<1>1. /\ UNCHANGED <<ppool, rxQueue, next, status, stats, up, reg, pkt, sent, skb, freed>>
      /\ pc[s] = "lockup" /\ irq'[s] = s /\ ret'[s] = "idle"
      /\ stopped' = IF LosesTx(s) THEN stopped \cup {s} ELSE stopped
  BY DEF LockupOrInterrupt, At, histVars, TypeOK
<1>2. /\ pc'[s] = (IF LosesTx(s) THEN "idle" ELSE "intr")
      /\ \A c \in Dev \ {s} : pc'[c] = pc[c]
  BY Goes DEF LockupOrInterrupt, AfterLockupTest
<1>3. ~Receiving(s) /\ ~Finishing(s) /\ ~Waiting(s) /\ Pending(s) /\ ~Lent(s) /\ ~Queued(s)
  BY <1>1 DEF Receiving, Finishing, Waiting, Pending, Lent, Queued
<1>4. s \in up /\ s \notin stopped
  BY <1>1 DEF OneWayInv, Path, Flow
<1>5. /\ s \in stopped' <=> LosesTx(s)
      /\ \A c \in Dev \ {s} : c \in stopped' <=> c \in stopped
  BY <1>1, <1>4
<1>6. /\ ~Receiving(s)' /\ Pending(s)' /\ ~Lent(s)' /\ ~Queued(s)'
      /\ Finishing(s)' <=> ~LosesTx(s)
      /\ Waiting(s)' <=> LosesTx(s)
  BY <1>1, <1>2, <1>5 DEF Receiving, Finishing, Waiting, Pending, Lent, Queued
<1>7. LosesTx(s)' <=> LosesTx(s)
  BY <1>1 DEF LosesTx
<1>8. Others(s)'
  BY <1>1, <1>2, <1>5, OthersStay DEF OneWayInv
<1>9. Path(s)'
  BY <1>1, <1>2, <1>4, <1>6 DEF Path
<1>10. Flow(s)'
  BY <1>1, <1>2, <1>3, <1>5, <1>6, <1>7 DEF OneWayInv, Flow
<1>11. Word(s)'
  BY <1>1, <1>2, <1>6 DEF OneWayInv, Word
<1>12. Counts(s)'
  BY <1>1, <1>2, <1>3, <1>6 DEF OneWayInv, Counts
<1> QED
  BY <1>8, <1>9, <1>10, <1>11, <1>12 DEF OneWayInv

LEMMA OneWayTake ==
  ASSUME TypeOK, NEW s \in Dev, OneWayInv(s), TakeInterrupt(s) PROVE OneWayInv(s)'
<1>1. /\ UNCHANGED <<ppool, rxQueue, next, status, stats, stopped, up, irq, ret, pkt, sent, skb, freed>>
      /\ pc[s] = "intr" /\ reg'[s] = status[irq[s]]
  BY DEF TakeInterrupt, At, devVars, histVars, TypeOK
<1>2. pc'[s] = "serve" /\ \A c \in Dev \ {s} : pc'[c] = pc[c]
  BY Goes DEF TakeInterrupt
<1>3. /\ Receiving(s)' <=> Receiving(s)
      /\ Finishing(s)' <=> Finishing(s)
      /\ ~Waiting(s)' /\ ~Waiting(s) /\ Pending(s)' /\ Pending(s)
  BY <1>1, <1>2 DEF Receiving, Finishing, Waiting, Pending
<1>4. /\ Lent(s)' <=> Lent(s)
      /\ Queued(s)' <=> Queued(s)
  BY <1>1, <1>2, <1>3 DEF Lent, Queued
<1>5. LosesTx(s)' <=> LosesTx(s)
  BY <1>1 DEF LosesTx
<1>6. Others(s)'
  BY <1>1, <1>2, OthersStay DEF OneWayInv
<1>7. Path(s)'
  BY <1>1, <1>2, <1>3 DEF OneWayInv, Path
<1>8. Flow(s)'
  BY <1>1, <1>2, <1>3, <1>4, <1>5 DEF OneWayInv, Flow
<1>9. Word(s)'
  BY <1>1, <1>2, <1>3 DEF OneWayInv, Word
<1>10. Counts(s)'
  BY <1>1, <1>2, <1>3 DEF OneWayInv, Counts
<1> QED
  BY <1>6, <1>7, <1>8, <1>9, <1>10 DEF OneWayInv

LEMMA OneWayRelease ==
  ASSUME TypeOK, NEW s \in Dev, OneWayInv(s), ReleaseBuffer(s) PROVE OneWayInv(s)'
<1>1. /\ pc[s] = "release" /\ Owner(pkt[s]) = s /\ ret[s] = "loadTx"
      /\ UNCHANGED <<rxQueue, status, stats, stopped, up, reg, irq, ret, pkt, sent, skb, freed>>
      /\ ppool' = [ppool EXCEPT ![s] = Push(ppool[s], pkt[s])]
      /\ next' = [next EXCEPT ![pkt[s]] = First(ppool[s])]
  BY DEF ReleaseBuffer, At, histVars, OneWayInv, Path
<1>2. pc'[s] = "ifStopped" /\ \A c \in Dev \ {s} : pc'[c] = pc[c]
  BY Goes DEF ReleaseBuffer
<1>3. ~Receiving(s) /\ ~Finishing(s) /\ ~Waiting(s) /\ Pending(s) /\ Lent(s) /\ ~Queued(s)
  BY <1>1 DEF Receiving, Finishing, Waiting, Pending, Lent, Queued
<1>4. /\ ~Receiving(s)' /\ ~Finishing(s)' /\ ~Waiting(s)' /\ Pending(s)'
      /\ ~Lent(s)' /\ ~Queued(s)'
  BY <1>2 DEF Receiving, Finishing, Waiting, Pending, Lent, Queued
<1>5. /\ ppool \in [Dev -> Seq(Buf)] /\ next \in [Buf -> Buf \cup {None}] /\ pkt[s] \in Buf
  BY <1>1 DEF TypeOK, HasBuf
<1>6. Len(ppool[s]) = PoolSize[s] - 1
  BY <1>3 DEF OneWayInv, Flow
<1>7. /\ Len(ppool'[s]) = PoolSize[s]
      /\ \A c \in Dev \ {s} : ppool'[c] = ppool[c]
  <2>1. Len(Push(ppool[s], pkt[s])) = Len(ppool[s]) + 1
    BY <1>5, ListLengths
  <2> QED
    BY <1>1, <1>5, <1>6, <2>1, PeerFacts
<1>8. PoolSize[s] = 1 => next'[pkt[s]] = None
  <2>1. PoolSize[s] = 1 => ppool[s] = <<>>
    BY <1>5, <1>6, EmptySeq
  <2> QED
    BY <1>1, <1>5, <2>1 DEF First
<1>9. Others(s)'
  BY <1>1, <1>2, <1>7, OthersStay DEF OneWayInv
<1>10. Path(s)'
  BY <1>1, <1>2, <1>3, <1>4 DEF OneWayInv, Path
<1>11. Flow(s)'
  BY <1>1, <1>2, <1>3, <1>4, <1>7, <1>8 DEF OneWayInv, Flow
<1>12. Word(s)'
  BY <1>1, <1>2, <1>3, <1>4 DEF OneWayInv, Word
<1>13. Counts(s)'
  BY <1>1, <1>2, <1>3, <1>4 DEF OneWayInv, Counts
<1> QED
  BY <1>9, <1>10, <1>11, <1>12, <1>13 DEF OneWayInv

LEMMA OneWayTests ==
  ASSUME TypeOK, NEW s \in Dev, OneWayInv(s), TestStopped(s) \/ TestNext(s) \/ WakeOwner(s)
  PROVE  OneWayInv(s)'
<1>1. /\ pc[s] \in {"ifStopped", "ifNext", "wake"}
      /\ UNCHANGED <<ppool, rxQueue, next, status, stats, up, reg, irq, ret, pkt, sent, skb, freed>>
  BY DEF TestStopped, TestNext, WakeOwner, At, devVars, histVars
<1>2. Owner(pkt[s]) = s /\ ret[s] = "loadTx"
  BY <1>1 DEF OneWayInv, Path
<1>3. /\ pc[s] = "ifStopped" => pc'[s] = (IF s \in stopped THEN "ifNext" ELSE "loadTx")
      /\ pc[s] = "ifNext" => pc'[s] = (IF next[pkt[s]] = None THEN "wake" ELSE "loadTx")
      /\ pc[s] = "wake" => pc'[s] = "loadTx"
      /\ \A c \in Dev \ {s} : pc'[c] = pc[c]
  BY <1>2, Goes DEF TestStopped, TestNext, WakeOwner, At
<1>4. stopped' = IF pc[s] = "wake" THEN stopped \ {s} ELSE stopped
  BY <1>2 DEF TestStopped, TestNext, WakeOwner, At, devVars
<1>5. /\ pc[s] = "ifStopped" => (s \in stopped <=> PoolSize[s] = 1)
      /\ pc[s] \in {"ifNext", "wake"} => PoolSize[s] = 1
      /\ pc[s] \in {"ifStopped", "ifNext"} /\ PoolSize[s] = 1 => next[pkt[s]] = None
  BY DEF OneWayInv, Flow
<1>6. /\ pc'[s] \in {"ifNext", "wake", "loadTx"}
      /\ pc'[s] \in {"ifNext", "wake"} => PoolSize[s] = 1
      /\ pc'[s] = "ifNext" => next[pkt[s]] = None
      /\ pc'[s] = "loadTx" => s \notin stopped'
  BY <1>1, <1>3, <1>4, <1>5
<1>7. /\ ~Receiving(s) /\ ~Finishing(s) /\ ~Waiting(s) /\ Pending(s) /\ ~Lent(s) /\ ~Queued(s)
      /\ pc[s] # "lockup" /\ pc[s] # "recover" /\ s \in up
  BY <1>1 DEF Receiving, Finishing, Waiting, Pending, Lent, Queued, OneWayInv, Path
<1>8. /\ ~Receiving(s)' /\ ~Finishing(s)' /\ ~Waiting(s)' /\ Pending(s)'
      /\ ~Lent(s)' /\ ~Queued(s)'
  BY <1>6 DEF Receiving, Finishing, Waiting, Pending, Lent, Queued
<1>9. Others(s)'
  BY <1>1, <1>3, <1>4, OthersStay DEF OneWayInv
<1>10. Path(s)'
  BY <1>1, <1>2, <1>6, <1>7, <1>8 DEF Path
<1>11. Flow(s)'
  BY <1>1, <1>6, <1>7, <1>8 DEF OneWayInv, Flow
<1>12. Word(s)'
  BY <1>1, <1>6, <1>7, <1>8 DEF OneWayInv, Word
<1>13. Counts(s)'
  BY <1>1, <1>6, <1>7, <1>8 DEF OneWayInv, Counts
<1> QED
  BY <1>9, <1>10, <1>11, <1>12, <1>13 DEF OneWayInv

LEMMA OneWayTimeout ==
  ASSUME TypeOK, NEW s \in Dev, OneWayInv(s), TxTimeout(s) PROVE OneWayInv(s)'
<1>1. /\ UNCHANGED <<ppool, rxQueue, next, stats, stopped, up, reg, pkt, sent, skb, freed>>
      /\ pc[s] = "idle" /\ s \in up /\ s \in stopped /\ irq'[s] = s /\ ret'[s] = "recover"
      /\ status'[s] = {TX} /\ status'[Peer[s]] = status[Peer[s]]
  BY PeerFacts DEF TxTimeout, TimesOut, TimeoutStatus, At, histVars, TypeOK
<1>2. pc'[s] = "intr" /\ \A c \in Dev \ {s} : pc'[c] = pc[c]
  BY Goes DEF TxTimeout
<1>3. ~Receiving(s) /\ ~Finishing(s) /\ Waiting(s) /\ Pending(s) /\ ~Lent(s) /\ ~Queued(s)
  BY <1>1 DEF Receiving, Finishing, Waiting, Pending, Lent, Queued
<1>4. /\ ~Receiving(s)' /\ Finishing(s)' /\ ~Waiting(s)' /\ Pending(s)'
      /\ ~Lent(s)' /\ ~Queued(s)'
  BY <1>1, <1>2 DEF Receiving, Finishing, Waiting, Pending, Lent, Queued
<1>5. LosesTx(s)' <=> LosesTx(s)
  BY <1>1 DEF LosesTx
<1>6. Others(s)'
  BY <1>1, <1>2, OthersStay DEF OneWayInv
<1>7. Path(s)'
  BY <1>1, <1>2, <1>4 DEF Path
<1>8. Flow(s)'
  BY <1>1, <1>2, <1>3, <1>4, <1>5 DEF OneWayInv, Flow
<1>9. Word(s)'
  BY <1>1, <1>2, <1>4 DEF OneWayInv, Word
<1>10. Counts(s)'
  BY <1>1, <1>2, <1>3, <1>4 DEF OneWayInv, Counts
<1> QED
  BY <1>6, <1>7, <1>8, <1>9, <1>10 DEF OneWayInv

LEMMA OneWayEndTimeout ==
  ASSUME TypeOK, NEW s \in Dev, OneWayInv(s), EndTimeout(s) PROVE OneWayInv(s)'
<1>1. /\ UNCHANGED <<ppool, rxQueue, next, status, up, reg, irq, ret, pkt, sent, skb, freed>>
      /\ pc[s] = "recover" /\ stopped' = stopped \ {s}
      /\ stats' = [stats EXCEPT ![s] = [stats[s] EXCEPT !.txErrors = @ + 1]]
  BY DEF EndTimeout, At, histVars
<1>2. pc'[s] = "idle" /\ \A c \in Dev \ {s} : pc'[c] = pc[c]
  BY Goes DEF EndTimeout
<1>3. ~Receiving(s) /\ ~Finishing(s) /\ ~Waiting(s) /\ ~Pending(s) /\ ~Lent(s) /\ ~Queued(s)
  BY <1>1 DEF Receiving, Finishing, Waiting, Pending, Lent, Queued
<1>4. /\ ~Receiving(s)' /\ ~Finishing(s)' /\ ~Waiting(s)' /\ ~Pending(s)'
      /\ ~Lent(s)' /\ ~Queued(s)'
  BY <1>1, <1>2 DEF Receiving, Finishing, Waiting, Pending, Lent, Queued
<1>5. /\ stats'[s].txPackets = stats[s].txPackets
      /\ stats'[s].txErrors = stats[s].txErrors + 1
      /\ \A c \in Dev \ {s} : stats'[c] = stats[c]
  <2>1. stats \in [Dev -> Stats]
    BY DEF TypeOK, Stats
  <2> QED
    BY <1>1, <2>1 DEF Stats
<1>6. Others(s)'
  BY <1>1, <1>2, <1>5, OthersStay DEF OneWayInv
<1>7. Path(s)'
  BY <1>1, <1>2, <1>3, <1>4 DEF OneWayInv, Path
<1>8. Flow(s)'
  BY <1>1, <1>2, <1>3, <1>4 DEF OneWayInv, Flow
<1>9. Word(s)'
  BY <1>1, <1>2, <1>3, <1>4 DEF OneWayInv, Word
<1>10. Counts(s)'
  <2>1. stats'[s].txErrors + 0 = Lost(stats'[s].txPackets)
    <3>1. stats[s].txErrors + 1 = Lost(stats[s].txPackets)
      BY <1>1 DEF OneWayInv, Counts
    <3>2. stats[s].txErrors \in Nat
      BY DEF TypeOK
    <3> QED
      BY <1>5, <3>1, <3>2
  <2>2. /\ sent[s] <= MaxPkt /\ skb[s] = sent[s] /\ sent[s] = stats[s].txPackets + 0
        /\ \A k \in 1..MaxPkt : freed[s][k] = IF k <= stats[s].txPackets THEN 1 ELSE 0
    BY <1>3 DEF OneWayInv, Counts
  <2> QED
    BY <1>1, <1>2, <1>4, <1>5, <2>1, <2>2 DEF Counts
<1> QED
  BY <1>6, <1>7, <1>8, <1>9, <1>10 DEF OneWayInv

(* One more event of which every Lockup'th gets lost.                      *)
LEMMA LostStep ==
  ASSUME NEW n \in Nat
  PROVE  Lost(n + 1) = Lost(n) + (IF Lockup # 0 /\ (n + 1) % Lockup = 0 THEN 1 ELSE 0)
<1>1. CASE Lockup = 0
  BY <1>1 DEF Lost
<1>2. CASE Lockup # 0
  <2>1. Lockup \in Nat /\ Lockup > 0
    BY <1>2, ParamAssumption
  <2> DEFINE q == n \div Lockup
             r == n % Lockup
             t == (n + 1) \div Lockup
             u == (n + 1) % Lockup
  <2>2. /\ q \in Nat /\ r \in 0..(Lockup - 1) /\ n = Lockup * q + r
        /\ t \in Nat /\ u \in 0..(Lockup - 1) /\ n + 1 = Lockup * t + u
    BY <2>1
  <2> HIDE DEF q, r, t, u
  <2>3. Lockup * (t - q) = r + 1 - u
    BY <2>1, <2>2
  <2>4. t - q \in {0, 1}
    <3>1. ASSUME t - q >= 2 PROVE FALSE
      BY <2>1, <2>2, <2>3, <3>1
    <3>2. ASSUME t - q <= -1 PROVE FALSE
      BY <2>1, <2>2, <2>3, <3>2
    <3> QED
      BY <2>2, <3>1, <3>2
  <2>5. u = 0 <=> t - q = 1
    BY <2>1, <2>2, <2>3, <2>4
  <2>6. t = q + (IF u = 0 THEN 1 ELSE 0)
    BY <2>2, <2>4, <2>5
  <2> QED
    BY <1>2, <2>6 DEF Lost, q, t, u
<1> QED
  BY <1>1, <1>2

(* The handler on the peer's side: snull_rx takes the frame out of the     *)
(* queue, no TX event is seen.                                             *)
LEMMA OneWayReceive ==
  ASSUME IInv, NEW s \in Dev, OneWayInv(s), NEW ok \in BOOLEAN, ServeInterrupt(s, ok),
         Receiving(s)
  PROVE  OneWayInv(s)'
<1> DEFINE p == Peer[s]
<1>1. /\ pc[s] = "serve" /\ irq[s] = p /\ RX \in reg[s] /\ TX \notin reg[s] /\ ret[s] = "loadTx"
      /\ Len(rxQueue[p]) = 1
  <2>1. pc[s] = "serve"
    BY DEF ServeInterrupt, At
  <2>2. irq[s] = p /\ reg[s] = status[irq[s]] /\ RX \in status[p] /\ TX \notin status[p]
    BY <2>1 DEF OneWayInv, Path, Word
  <2>3. Len(rxQueue[p]) = 1
    BY DEF OneWayInv, Flow, Queued
  <2> QED
    BY <2>1, <2>2, <2>3 DEF Receiving
<1>2. rxQueue \in [Dev -> Seq(Buf)] /\ rxQueue[p] \in Seq(Buf) /\ rxQueue[p] # <<>>
  <2>1. rxQueue \in [Dev -> Seq(Buf)] /\ rxQueue[p] \in Seq(Buf)
    BY PeerFacts DEF IInv, TypeOK
  <2>2. Len(<<>>) # 1
    OBVIOUS
  <2> QED
    BY <1>1, <2>1, <2>2, Zenon
<1>3. /\ UNCHANGED <<ppool, next, skb, stopped, up, reg, irq, ret, sent>>
      /\ status' = [status EXCEPT ![p] = {}]
      /\ rxQueue' = [rxQueue EXCEPT ![p] = Tail(rxQueue[p])]
      /\ pkt' = [pkt EXCEPT ![s] = Head(rxQueue[p])]
      /\ stats' = [stats EXCEPT ![p] = RxStats(stats[p], ok)]
      /\ GoTo(s, "release")
  BY <1>1, <1>2 DEF ServeInterrupt, Unlinked, AfterServe
<1>4. \A c \in Dev : freed'[c] = freed[c]
  <2>1. freed \in [Dev -> [1..MaxPkt -> Nat]]
    BY DEF IInv, TypeOK
  <2>2. freed' = [freed EXCEPT ![p] = [k \in 1..MaxPkt |->
                    IF TX \in reg[s] /\ k = skb[p] THEN freed[p][k] + 1 ELSE freed[p][k]]]
    BY <1>1 DEF ServeInterrupt
  <2>3. freed' = [freed EXCEPT ![p] = [k \in 1..MaxPkt |-> freed[p][k]]]
    BY <1>1, <2>2
  <2>4. [k \in 1..MaxPkt |-> freed[p][k]] = freed[p]
    BY <2>1, PeerFacts
  <2> QED
    BY <2>1, <2>3, <2>4
<1>5. pc'[s] = "release" /\ \A c \in Dev \ {s} : pc'[c] = pc[c]
  BY <1>3, Goes DEF IInv
<1>6. /\ stats'[s] = stats[s]
      /\ \A c \in Dev : /\ stats'[c].txPackets = stats[c].txPackets
                        /\ stats'[c].txErrors = stats[c].txErrors
  <2>1. stats \in [Dev -> Stats]
    BY DEF IInv, TypeOK, Stats
  <2>2. /\ RxStats(stats[p], ok).txPackets = stats[p].txPackets
        /\ RxStats(stats[p], ok).txErrors = stats[p].txErrors
    BY <2>1, PeerFacts DEF RxStats, Stats
  <2> QED
    BY <1>3, <2>1, <2>2, PeerFacts
<1>7. /\ status'[s] = status[s] /\ status'[p] = {}
      /\ Len(rxQueue'[p]) = 0 /\ Owner(pkt'[s]) = s
  <2>1. Len(Tail(rxQueue[p])) = 0
    BY <1>1, <1>2, PeerFacts
  <2>2. Head(rxQueue[p]) \in Range(rxQueue[p])
    <3>1. DOMAIN rxQueue[p] = 1..1 /\ Head(rxQueue[p]) = rxQueue[p][1]
      BY <1>1, <1>2
    <3> QED
      BY <3>1 DEF Range
  <2>3. Owner(Head(rxQueue[p])) = s
    BY <2>2, PeerFacts DEF IInv, BufferConservation
  <2>4. status \in [Dev -> SUBSET {RX, TX}] /\ pkt \in [Dev -> Buf \cup {None}]
    BY DEF IInv, TypeOK
  <2> QED
    BY <1>2, <1>3, <2>1, <2>3, <2>4, PeerFacts
<1>8. ~Finishing(s) /\ ~Waiting(s) /\ Pending(s) /\ Lent(s)
  BY <1>1 DEF Receiving, Finishing, Waiting, Pending, Lent
<1>9. /\ ~Receiving(s)' /\ ~Finishing(s)' /\ ~Waiting(s)' /\ Pending(s)'
      /\ Lent(s)' /\ ~Queued(s)'
  BY <1>5 DEF Receiving, Finishing, Waiting, Pending, Lent, Queued
<1> HIDE DEF p
<1>10. Others(s)'
  BY <1>3, <1>4, <1>5, <1>6, OthersStay DEF OneWayInv
<1>11. Path(s)'
  BY <1>1, <1>3, <1>5, <1>7, <1>8, <1>9 DEF OneWayInv, Path
<1>12. Flow(s)'
  BY <1>1, <1>3, <1>5, <1>7, <1>8, <1>9 DEF OneWayInv, Flow, p
<1>13. Word(s)'
  BY <1>1, <1>3, <1>5, <1>7, <1>8, <1>9 DEF OneWayInv, Word, p
<1>14. Counts(s)'
  BY <1>1, <1>3, <1>4, <1>5, <1>6, <1>8, <1>9 DEF OneWayInv, Counts
<1> QED
  BY <1>10, <1>11, <1>12, <1>13, <1>14 DEF OneWayInv

(* The handler of the transmitting interface, for the TX event alone: the  *)
(* pending frame is completed.                                             *)
LEMMA OneWayFinish ==
  ASSUME TypeOK, NEW s \in Dev, OneWayInv(s), NEW ok \in BOOLEAN, ServeInterrupt(s, ok),
         ~Receiving(s)
  PROVE  OneWayInv(s)'
<1>1. /\ pc[s] = "serve" /\ irq[s] = s /\ reg[s] = {TX} /\ ret[s] \in {"idle", "recover"}
      /\ Finishing(s) /\ ~Waiting(s) /\ Pending(s) /\ ~Lent(s) /\ ~Queued(s)
  <2>1. pc[s] = "serve"
    BY DEF ServeInterrupt, At
  <2>2. ret[s] \in {"idle", "recover"}
    BY <2>1 DEF TypeOK, Receiving
  <2>3. Finishing(s) /\ ~Waiting(s) /\ Pending(s) /\ ~Lent(s) /\ ~Queued(s)
    BY <2>1, <2>2 DEF Receiving, Finishing, Waiting, Pending, Lent, Queued
  <2>4. irq[s] = s /\ reg[s] = status[irq[s]] /\ status[s] = {TX}
    BY <2>1, <2>3 DEF OneWayInv, Path, Word
  <2> QED
    BY <2>1, <2>2, <2>3, <2>4
<1>2. RX \notin reg[s] /\ TX \in reg[s]
  BY <1>1 DEF RX, TX
<1>3. /\ UNCHANGED <<ppool, next, skb, stopped, up, reg, irq, ret, sent>>
      /\ status' = [status EXCEPT ![s] = {}]
      /\ rxQueue' = [rxQueue EXCEPT ![s] = rxQueue[s]]
      /\ stats' = [stats EXCEPT ![s] = [stats[s] EXCEPT !.txPackets = @ + 1]]
      /\ GoTo(s, ret[s])
  BY <1>1, <1>2 DEF ServeInterrupt, AfterServe
<1>4. /\ \A k \in 1..MaxPkt : freed'[s][k] = IF k = skb[s] THEN freed[s][k] + 1 ELSE freed[s][k]
      /\ \A c \in Dev \ {s} : freed'[c] = freed[c]
  <2>1. freed \in [Dev -> [1..MaxPkt -> Nat]]
    BY DEF TypeOK
  <2>2. freed' = [freed EXCEPT ![s] = [k \in 1..MaxPkt |->
                    IF TX \in reg[s] /\ k = skb[s] THEN freed[s][k] + 1 ELSE freed[s][k]]]
    BY <1>1 DEF ServeInterrupt
  <2> QED
    BY <1>2, <2>1, <2>2
<1>5. pc'[s] = ret[s] /\ \A c \in Dev \ {s} : pc'[c] = pc[c]
  BY <1>3, Goes
<1>6. /\ stats'[s].txPackets = stats[s].txPackets + 1
      /\ stats'[s].txErrors = stats[s].txErrors
      /\ \A c \in Dev \ {s} : stats'[c] = stats[c]
      /\ stats[s].txPackets \in Nat /\ stats[s].txErrors \in Nat
  <2>1. stats \in [Dev -> Stats]
    BY DEF TypeOK, Stats
  <2> QED
    BY <1>3, <2>1 DEF Stats
<1>7. /\ status'[s] = {} /\ status'[Peer[s]] = status[Peer[s]]
      /\ rxQueue'[Peer[s]] = rxQueue[Peer[s]]
  BY <1>3, PeerFacts DEF TypeOK
<1>8. /\ s \in stopped <=> ret[s] = "recover"
      /\ s \in stopped <=> LosesTx(s)
      /\ s \in up
  BY <1>1 DEF OneWayInv, Flow, Path
<1>9. /\ ~Receiving(s)' /\ ~Finishing(s)' /\ ~Waiting(s)' /\ ~Pending(s)'
      /\ ~Lent(s)' /\ ~Queued(s)'
  BY <1>1, <1>3, <1>5, <1>8 DEF Receiving, Finishing, Waiting, Pending, Lent, Queued
<1>10. Others(s)'
  BY <1>3, <1>4, <1>5, <1>6, OthersStay DEF OneWayInv
<1>11. Path(s)'
  BY <1>1, <1>3, <1>5, <1>8, <1>9 DEF Path
<1>12. Flow(s)'
  BY <1>1, <1>3, <1>5, <1>7, <1>9 DEF OneWayInv, Flow
<1>13. Word(s)'
  BY <1>1, <1>5, <1>7, <1>9 DEF OneWayInv, Word
<1>14. Counts(s)'
  <2>1. sent[s] = stats[s].txPackets + 1 /\ skb[s] = sent[s] /\ sent[s] <= MaxPkt
    BY <1>1 DEF OneWayInv, Counts
  <2>2. \A k \in 1..MaxPkt : freed'[s][k] = IF k <= stats'[s].txPackets THEN 1 ELSE 0
    <3> TAKE k \in 1..MaxPkt
    <3>1. freed[s][k] = IF k <= stats[s].txPackets THEN 1 ELSE 0
      BY DEF OneWayInv, Counts
    <3>2. k \in Int
      BY ParamAssumption
    <3> QED
      BY <1>4, <1>6, <2>1, <3>1, <3>2
  <2>3. stats'[s].txErrors + (IF pc'[s] = "recover" THEN 1 ELSE 0) = Lost(stats'[s].txPackets)
    <3>1. stats[s].txErrors + 0 = Lost(stats[s].txPackets)
      BY <1>1 DEF OneWayInv, Counts
    <3>2. Lost(stats[s].txPackets + 1) = Lost(stats[s].txPackets) + (IF LosesTx(s) THEN 1 ELSE 0)
      BY <1>6, LostStep DEF LosesTx
    <3>3. pc'[s] = "recover" <=> LosesTx(s)
      BY <1>5, <1>8
    <3> QED
      BY <1>6, <3>1, <3>2, <3>3
  <2> QED
    BY <1>3, <1>6, <1>9, <2>1, <2>2, <2>3 DEF Counts
<1> QED
  BY <1>10, <1>11, <1>12, <1>13, <1>14 DEF OneWayInv

LEMMA OneWayNext ==
  ASSUME NEW s \in Dev, OneWay(s)
  PROVE  (IInv /\ OneWayInv(s)) /\ [Next]_vars => (IInv /\ OneWayInv(s))'
<1> SUFFICES ASSUME IInv, OneWayInv(s), [Next]_vars PROVE OneWayInv(s)'
  BY ConservationNext
<1>1. TypeOK
  BY DEF IInv
<1>2. CASE UNCHANGED vars
  BY <1>2 DEF vars, devVars, ctxVars, histVars, OneWayInv, Others, Path, Flow, Word, Counts,
     Lost, Receiving, Finishing, Waiting, Pending, Lent, Queued, LosesTx
<1>3. ASSUME NEW c \in Dev, Open(c) \/ (c # s /\ Release(c)) PROVE OneWayInv(s)'
  BY <1>3, OneWayAdmin
<1>4. CASE Xmit(s) \/ TxTimeout(s)
  BY <1>1, <1>4, OneWayXmit, OneWayTimeout
<1>5. CASE Run(s)
  <2>1. CASE GetTxBuffer(s) \/ GetFromEmptyPool(s) \/ EnqueueBuf(s)
    BY <1>1, <2>1, OneWayGet, OneWayNoOops, OneWayEnqueue
  <2>2. CASE LoadRxStatus(s) \/ StoreRxStatus(s) \/ LoadTxStatus(s) \/ StoreTxStatus(s)
    BY <1>1, <2>2, OneWayLoads, OneWayStoreRx, OneWayStoreTx
  <2>3. CASE LockupOrInterrupt(s) \/ TakeInterrupt(s)
    BY <1>1, <2>3, OneWayLockup, OneWayTake
  <2>4. ASSUME NEW ok \in BOOLEAN, ServeInterrupt(s, ok) PROVE OneWayInv(s)'
    BY <1>1, <2>4, OneWayReceive, OneWayFinish
  <2>5. CASE ReleaseBuffer(s) \/ EndTimeout(s)
    BY <1>1, <2>5, OneWayRelease, OneWayEndTimeout
  <2>6. CASE TestStopped(s) \/ TestNext(s) \/ WakeOwner(s)
    BY <1>1, <2>6, OneWayTests
  <2> QED
    BY <1>5, <2>1, <2>2, <2>3, <2>4, <2>5, <2>6 DEF Run
<1> QED
  BY <1>2, <1>3, <1>4, <1>5, OnlySender DEF OneWayInv

LEMMA OneWayInvariant ==
  ASSUME NEW s \in Dev, OneWay(s) PROVE Spec => [](IInv /\ OneWayInv(s))
<1>1. Init => IInv /\ OneWayInv(s)
  BY TypeInit, ConservationInit, OneWayInit DEF IInv
<1>2. (IInv /\ OneWayInv(s)) /\ [Next]_vars => (IInv /\ OneWayInv(s))'
  BY OneWayNext
<1> QED
  BY <1>1, <1>2, PTL DEF Spec

(* With traffic in one direction, however many buffers each pool has and   *)
(* whichever TX interrupts get lost, snull_get_tx_buffer finds a buffer.   *)
THEOREM OneWayNoPanic ==
  ASSUME NEW s \in Dev, OneWay(s) PROVE Spec => []NoPanic
<1>1. OneWayInv(s) => NoPanic
  BY DEF OneWayInv, Others, Path, NoPanic
<1> QED
  BY <1>1, OneWayInvariant, PTL

(* Then dev_kfree_skb is called at most once for each frame, by the        *)
(* interrupt of its own transmission or by the watchdog's.                 *)
THEOREM OneWayFreesOnce ==
  ASSUME NEW s \in Dev, OneWay(s) PROVE Spec => []SkbFreedOnce
<1>1. OneWayInv(s) => SkbFreedOnce
  BY DEF OneWayInv, Others, Counts, SkbFreedOnce
<1> QED
  BY <1>1, OneWayInvariant, PTL

(* Then an interface with a running queue and no transmission in progress  *)
(* has completed all its frames, has all its buffers back and has counted  *)
(* each Lockup'th frame as an error.                                       *)
THEOREM OneWayRestIsClean ==
  ASSUME NEW s \in Dev, OneWay(s) PROVE Spec => []RestIsClean
<1>1. IInv /\ OneWayInv(s) => RestIsClean
  <2> SUFFICES ASSUME IInv, OneWayInv(s), NEW d \in Dev, pc[d] = "idle", d \in up \ stopped
               PROVE  /\ \A k \in 1..sent[d] : freed[d][k] = 1
                      /\ Len(ppool[d]) = PoolSize[d]
                      /\ stats[d].txPackets = sent[d]
                      /\ stats[d].txErrors = Lost(sent[d])
    BY DEF RestIsClean, Lost
  <2>1. CASE d = s
    <3>1. ~Pending(s) /\ ~Lent(s)
      BY <2>1 DEF Pending, Lent, Receiving
    <3>2. sent[s] \in Nat /\ stats[s].txPackets \in Nat /\ stats[s].txErrors \in Nat
      BY DEF IInv, TypeOK
    <3>3. stats[s].txPackets = sent[s] /\ stats[s].txErrors = Lost(sent[s])
      BY <2>1, <3>1, <3>2 DEF OneWayInv, Counts
    <3>4. Len(ppool[s]) = PoolSize[s]
      BY <3>1, PeerFacts DEF OneWayInv, Flow
    <3>5. ASSUME NEW k \in 1..sent[s] PROVE freed[s][k] = 1
      <4>1. k \in 1..MaxPkt
        BY <3>2, ParamAssumption DEF OneWayInv, Counts
      <4> QED
        BY <3>2, <3>3, <4>1 DEF OneWayInv, Counts
    <3> QED
      BY <2>1, <3>3, <3>4, <3>5
  <2>2. CASE d # s
    <3>1. sent[d] = 0 /\ stats[d].txPackets = 0 /\ stats[d].txErrors = 0 /\ Len(ppool[d]) = PoolSize[d]
      BY <2>2 DEF OneWayInv, Others
    <3>2. Lost(0) = 0
      BY ParamAssumption DEF Lost
    <3> QED
      BY <3>1, <3>2
  <2> QED
    BY <2>1, <2>2
<1> QED
  BY <1>1, OneWayInvariant, PTL
=============================================================================
