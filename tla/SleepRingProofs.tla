-------------------------- MODULE SleepRingProofs --------------------------
(***************************************************************************)
(* Proofs about the two drivers in which a process sleeps until a callback *)
(* wakes it: SleepRing, for any ring size and any number of edges, reads   *)
(* and probes; and, at the end, DmaSg, for one writer.                     *)
(***************************************************************************)
EXTENDS SleepRing, TLAPS

(* NoLostWakeup alone is not inductive.  wake_up finds the sleeper only if *)
(* it is on the wait queue, and Open must not turn the file of a sleeper   *)
(* into an open one.                                                       *)
WaitsOnQueue == reader = "asleep" => onQueue
ReadsOpenFile == file = "closed" => reader = "out"

WakeInv == WaitsOnQueue /\ ReadsOpenFile /\ NoLostWakeup

LEMMA WakeInit == Init => WakeInv
  BY DEF Init, WakeInv, WaitsOnQueue, ReadsOpenFile, NoLostWakeup, Sleeping

LEMMA WakeNext == WakeInv /\ [Next]_vars => WakeInv'
<1> SUFFICES ASSUME WakeInv, [Next]_vars PROVE WakeInv'
  OBVIOUS
<1> USE DEF WakeInv, WaitsOnQueue, ReadsOpenFile, NoLostWakeup, Sleeping,
            Available
<1>1. CASE Probe \/ FailToProbe \/ Remove \/ \E ok \in BOOLEAN : MiscRegister(ok)
  BY <1>1 DEF Probe, FailToProbe, Remove, MiscRegister, isrVars, readVars
<1>2. CASE DevresRelease
  BY <1>2 DEF DevresRelease, isrVars, readVars
<1>3. ASSUME NEW v \in Key, Edge(v) PROVE WakeInv'
  BY <1>3 DEF Edge, readVars, bindVars
<1>4. CASE StoreChar
  BY <1>4 DEF StoreChar, readVars, bindVars
<1>5. CASE StoreIndex
  BY <1>5 DEF StoreIndex, readVars, bindVars
<1>6. CASE Wrap
  BY <1>6 DEF Wrap, readVars, bindVars
<1>7. CASE Wake
  BY <1>7 DEF Wake, Woken, bindVars
<1>8. CASE Open \/ Close
  BY <1>8 DEF Open, Close, isrVars, readVars
<1>9. CASE Read
  BY <1>9 DEF Read, OrAstray, isrVars, bindVars
<1>10. CASE FirstTest
  BY <1>10 DEF FirstTest, isrVars, bindVars
<1>11. CASE JoinQueue
  BY <1>11 DEF JoinQueue, OrAstray, AfterJoin, isrVars, bindVars
<1>12. CASE TestAgain
  BY <1>12 DEF TestAgain, OrAstray, isrVars, bindVars
<1>13. CASE Signal
  BY <1>13 DEF Signal, OrAstray, isrVars, bindVars
<1>14. ASSUME NEW ok \in BOOLEAN, LoadChar(ok) PROVE WakeInv'
  BY <1>14 DEF LoadChar, AfterCopy, isrVars, bindVars
<1>15. CASE Advance
  BY <1>15 DEF Advance, isrVars, bindVars
<1>16. CASE UNCHANGED vars
  BY <1>16 DEF vars, isrVars, readVars, bindVars
<1> QED
  BY <1>1, <1>2, <1>3, <1>4, <1>5, <1>6, <1>7, <1>8, <1>9, <1>10, <1>11,
     <1>12, <1>13, <1>14, <1>15, <1>16 DEF Next, Handler, Reader, Halt

(* NoLostWakeup holds in every reachable state: between the unlocked test  *)
(* of the indices and the sleep, my_dev_read never misses the wake-up of   *)
(* an event that is in the ring.                                           *)
THEOREM SleeperIsWoken == Spec => []NoLostWakeup
<1>1. WakeInv => NoLostWakeup
  BY DEF WakeInv
<1> QED
  BY <1>1, WakeInit, WakeNext, PTL DEF Spec

-----------------------------------------------------------------------------
(* Arithmetic modulo the size of the ring.                                 *)
LEMMA DivMod ==
  ASSUME NEW N \in Nat \ {0}, NEW k \in Int
  PROVE  \E q \in Int, r \in 0..(N - 1) : r = k % N /\ r = k - N * q
<1>1. /\ k % N \in 0..(N - 1) /\ k \div N \in Int
      /\ k % N = k - (N * (k \div N))
  OBVIOUS
<1> QED
  BY <1>1

LEMMA MultipleOf ==
  ASSUME NEW N \in Nat \ {0}, NEW p \in Int, NEW r \in (-N + 1)..(N - 1), N * p = r
  PROVE  p = 0
<1>1. p > 0 => N * p >= N
  OBVIOUS
<1>2. p < 0 => N * p <= -N
  OBVIOUS
<1> QED
  BY <1>1, <1>2

LEMMA ModIs ==
  ASSUME NEW N \in Nat \ {0}, NEW q \in Int, NEW r \in 0..(N - 1)
  PROVE  (N * q + r) % N = r
<1>1. PICK k \in Int : k = N * q + r
  OBVIOUS
<1>2. PICK p \in Int, t \in 0..(N - 1) : t = k % N /\ t = k - N * p
  BY DivMod
<1>3. N * (q - p) = t - r
  BY <1>1, <1>2
<1>4. q - p = 0
  BY <1>3, MultipleOf
<1> QED
  BY <1>1, <1>2, <1>3, <1>4

LEMMA ModSucc ==
  ASSUME NEW N \in Nat \ {0}, NEW k \in Int
  PROVE  (k + 1) % N = IF (k % N) + 1 >= N THEN 0 ELSE (k % N) + 1
<1>1. PICK p \in Int, t \in 0..(N - 1) : t = k % N /\ t = k - N * p
  BY DivMod
<1>2. CASE t + 1 >= N
  <2>1. k + 1 = N * (p + 1) + 0
    BY <1>1, <1>2
  <2>2. (N * (p + 1) + 0) % N = 0
    BY ModIs
  <2> QED
    BY <1>1, <1>2, <2>1, <2>2
<1>3. CASE t + 1 < N
  <2>1. k + 1 = N * p + (t + 1) /\ t + 1 \in 0..(N - 1)
    BY <1>1, <1>3
  <2>2. (N * p + (t + 1)) % N = t + 1
    BY <2>1, ModIs
  <2> QED
    BY <1>1, <1>3, <2>1, <2>2
<1> QED
  BY <1>2, <1>3

LEMMA ModClose ==
  ASSUME NEW N \in Nat \ {0}, NEW j \in Int, NEW k \in Int, j <= k, k < j + N,
         j % N = k % N
  PROVE  j = k
<1>1. PICK p \in Int, t \in 0..(N - 1) : t = k % N /\ t = k - N * p
  BY DivMod
<1>2. PICK q \in Int, r \in 0..(N - 1) : r = j % N /\ r = j - N * q
  BY DivMod
<1>3. N * (p - q) = k - j
  BY <1>1, <1>2
<1>4. p - q = 0
  BY <1>3, MultipleOf
<1> QED
  BY <1>3, <1>4

LEMMA ModPlus ==
  ASSUME NEW N \in Nat \ {0}, NEW k \in Int, NEW i \in Int
  PROVE  ((k % N) + i) % N = (k + i) % N
<1>1. PICK p \in Int, t \in 0..(N - 1) : t = k % N /\ t = k - N * p
  BY DivMod
<1>2. PICK m \in Int : m = t + i
  OBVIOUS
<1>3. PICK q \in Int, r \in 0..(N - 1) : r = m % N /\ r = m - N * q
  BY DivMod
<1>4. N * (p + q) = (N * p) + (N * q)
  OBVIOUS
<1>5. k + i = N * (p + q) + r
  BY <1>1, <1>2, <1>3, <1>4
<1>6. (N * (p + q) + r) % N = r
  BY ModIs
<1> QED
  BY <1>1, <1>2, <1>3, <1>5, <1>6

LEMMA ModMinus ==
  ASSUME NEW N \in Nat \ {0}, NEW j \in Int, NEW k \in Int, j <= k, k < j + N
  PROVE  ((k % N) - (j % N)) % N = k - j
<1>1. PICK p \in Int, t \in 0..(N - 1) : t = k % N /\ t = k - N * p
  BY DivMod
<1>2. PICK q \in Int, r \in 0..(N - 1) : r = j % N /\ r = j - N * q
  BY DivMod
<1>3. t - r = N * (q - p) + (k - j) /\ k - j \in 0..(N - 1)
  BY <1>1, <1>2
<1>4. (N * (q - p) + (k - j)) % N = k - j
  BY <1>3, ModIs
<1>5. (t - r) % N = k - j
  BY <1>3, <1>4
<1> QED
  BY <1>1, <1>2, <1>5

-----------------------------------------------------------------------------
(* EventsInOrder.  The counts of events that were recorded, published (the *)
(* index is stored), stored (the character is) and consumed place both     *)
(* indices and all characters of the ring, also between two stores of the  *)
(* handler and between the two halves of a read.                           *)
Recorded  == Len(edges)
Published == Recorded - (IF isr \in {"both", "index"} THEN 1 ELSE 0)
Stored    == Recorded - (IF isr \in {"both", "char"} THEN 1 ELSE 0)
Consumed  == Len(got) - (IF reader = "advance" THEN 1 ELSE 0)

RingTypes ==
  /\ ring \in [0..(Size - 1) -> Key \cup {"none"}]
  /\ isr \in {"idle", "both", "index", "char", "wrap", "wake"}
  /\ edges \in Seq(Key) /\ got \in Seq(Key \cup {"none"})
  /\ clean \in BOOLEAN
  /\ bufRd \in Int /\ bufWr \in Int /\ slot \in Int /\ val \in Key

(* The places of the indices do not depend on how the ring was used.       *)
Placed ==
  /\ bufRd = Consumed % Size /\ Consumed >= 0
  /\ isr \in {"idle", "wake"} => bufWr = Recorded % Size
  /\ isr \in {"both", "index"} => bufWr = slot
  /\ isr \in {"char", "wrap"} => bufWr = slot + 1
  /\ isr # "idle" => /\ Recorded >= 1 /\ slot = (Recorded - 1) % Size
                     /\ val = edges[Recorded]

InOrder ==
  /\ Consumed <= Published /\ Recorded - Consumed <= Size - 1
  /\ reader \in {"load", "advance"} => Consumed < Published
  /\ \A k \in 1..Len(got) : got[k] = edges[k]
  /\ \A k \in (Consumed + 1)..Stored : ring[(k - 1) % Size] = edges[k]

OrderInv == RingTypes /\ Placed /\ (clean => InOrder)

LEMMA SizeFacts == Size \in Nat \ {0} /\ Size >= 2 /\ Size \in Int
  BY SleepRingAssumption

LEMMA OrderTypes ==
  RingTypes => /\ Len(got) \in Nat /\ Recorded \in Nat
               /\ Published \in Int /\ Stored \in Int /\ Consumed \in Int
  BY DEF RingTypes, Recorded, Published, Stored, Consumed

LEMMA OrderInit == Init => OrderInv
<1> SUFFICES ASSUME Init PROVE OrderInv
  OBVIOUS
<1>1. RingTypes
  BY DEF Init, RingTypes, Key
<1>2. Recorded = 0 /\ Published = 0 /\ Stored = 0 /\ Consumed = 0 /\ Len(got) = 0
  BY DEF Init, Recorded, Published, Stored, Consumed
<1>3. 0 % Size = 0
  <2>1. (Size * 0 + 0) % Size = 0
    BY SizeFacts, ModIs
  <2>2. Size * 0 + 0 = 0
    BY SizeFacts
  <2> QED
    BY <2>1, <2>2
<1> QED
  BY <1>1, <1>2, <1>3, SizeFacts DEF Init, OrderInv, Placed, InOrder

(* A reader that finds the indices different, other than by a buf_wr that  *)
(* is past the end, has an event to read.                                  *)
LEMMA AvailableMeansEvent ==
  ASSUME OrderInv, clean, Available, ~SeesPastEnd
  PROVE  Consumed < Published
<1>1. Consumed <= Published /\ Published \in Int /\ Consumed \in Int /\ Recorded \in Nat
  BY OrderTypes DEF OrderInv, InOrder
<1>2. SUFFICES ASSUME Consumed = Published PROVE FALSE
  BY <1>1
<1>3. bufRd = Published % Size
  BY <1>2 DEF OrderInv, Placed
<1>4. CASE isr \in {"idle", "wake"}
  BY <1>3, <1>4 DEF OrderInv, Placed, Published, Available, Recorded
<1>5. CASE isr \in {"both", "index"}
  BY <1>3, <1>5 DEF OrderInv, Placed, Published, Available
<1>6. CASE isr \in {"char", "wrap"}
  <2>1. /\ Published = Recorded /\ bufWr = slot + 1
        /\ slot = (Recorded - 1) % Size
    BY <1>1, <1>6 DEF OrderInv, Placed, Published
  <2>2. PICK k \in Int : k = Recorded - 1 /\ k + 1 = Recorded
    BY <1>1
  <2>3. (k + 1) % Size = IF (k % Size) + 1 >= Size THEN 0 ELSE (k % Size) + 1
    BY SizeFacts, ModSucc
  <2>4. bufRd = IF slot + 1 >= Size THEN 0 ELSE slot + 1
    BY <1>3, <2>1, <2>2, <2>3
  <2>5. slot \in 0..(Size - 1)
    BY SizeFacts, DivMod, <2>1, <2>2
  <2> QED
    BY <2>1, <2>4, <2>5, SizeFacts DEF Available, SeesPastEnd
<1> QED
  BY <1>4, <1>5, <1>6 DEF OrderInv, RingTypes

(* A step that only moves the reader, or the driver under it.              *)
LEMMA ReaderMove ==
  ASSUME OrderInv, UNCHANGED <<ring, bufRd, bufWr, isrVars, edges, got>>,
         reader # "advance", reader' # "advance",
         clean' \in BOOLEAN, clean' => clean,
         clean' /\ reader' = "load" => Consumed < Published
  PROVE  OrderInv'
<1>1. /\ Recorded' = Recorded /\ Published' = Published /\ Stored' = Stored
      /\ Consumed' = Consumed
  BY DEF isrVars, Recorded, Published, Stored, Consumed
<1>2. RingTypes'
  BY DEF OrderInv, RingTypes, isrVars
<1>3. Placed'
  BY <1>1 DEF OrderInv, Placed, isrVars
<1>4. ASSUME clean' PROVE InOrder'
  BY <1>1, <1>4 DEF OrderInv, InOrder, isrVars
<1> QED
  BY <1>2, <1>3, <1>4 DEF OrderInv

LEMMA EdgeOrder ==
  ASSUME OrderInv, NEW v \in Key, Edge(v)
  PROVE  OrderInv'
<1> USE SizeFacts
<1>1. /\ isr = "idle" /\ isr' = "both" /\ edges' = Append(edges, v) /\ val' = v
      /\ slot' = bufWr /\ bufWr = Recorded % Size
      /\ UNCHANGED <<ring, bufRd, bufWr, reader, got>>
      /\ clean' = (clean /\ Backlog < Size - 1)
  BY DEF OrderInv, Placed, Edge, readVars
<1>2. /\ Recorded \in Nat /\ Len(got) \in Nat /\ Consumed \in Int
      /\ edges \in Seq(Key) /\ edges' \in Seq(Key)
      /\ Recorded' = Recorded + 1
      /\ edges'[Recorded + 1] = v /\ \A k \in 1..Recorded : edges'[k] = edges[k]
  BY <1>1, OrderTypes DEF OrderInv, RingTypes, Recorded
<1>3. /\ Published' = Recorded /\ Stored' = Recorded /\ Consumed' = Consumed
      /\ Published = Recorded /\ Stored = Recorded
      /\ Backlog = Recorded - Consumed
  BY <1>1, <1>2 DEF Published, Stored, Consumed, Recorded, Backlog
<1>4. RingTypes'
  BY <1>1, <1>2 DEF OrderInv, RingTypes
<1>5. Placed'
  <2>1. Recorded' - 1 = Recorded
    BY <1>2
  <2> QED
    BY <1>1, <1>2, <1>3, <2>1 DEF OrderInv, Placed
<1>6. ASSUME clean' PROVE InOrder'
  <2>1. InOrder /\ Recorded - Consumed < Size - 1
    BY <1>1, <1>3, <1>6 DEF OrderInv
  <2>2. Consumed' <= Published' /\ Recorded' - Consumed' <= Size - 1
    BY <1>2, <1>3, <2>1 DEF InOrder
  <2>3. reader' \in {"load", "advance"} => Consumed' < Published'
    BY <1>1, <1>3, <2>1 DEF InOrder
  <2>4. Len(got) <= Recorded
    <3>1. reader = "advance" => Consumed < Recorded /\ Len(got) = Consumed + 1
      BY <1>2, <1>3, <2>1 DEF InOrder, Consumed
    <3>2. reader # "advance" => Len(got) = Consumed
      BY <1>2 DEF Consumed
    <3> QED
      BY <1>2, <1>3, <2>1, <3>1, <3>2 DEF InOrder
  <2>5. \A k \in 1..Len(got) : got[k] = edges'[k]
    BY <1>2, <2>1, <2>4 DEF InOrder
  <2>6. \A k \in (Consumed + 1)..Recorded : ring[(k - 1) % Size] = edges'[k]
    <3>1. Consumed >= 0
      BY DEF OrderInv, Placed
    <3> QED
      BY <1>2, <1>3, <2>1, <3>1 DEF InOrder
  <2> QED
    BY <1>1, <1>3, <2>2, <2>3, <2>5, <2>6 DEF InOrder
<1> QED
  BY <1>4, <1>5, <1>6 DEF OrderInv

(* The character goes to the slot of the newest event, which no unread     *)
(* event occupies.                                                         *)
LEMMA StoreCharOrder ==
  ASSUME OrderInv, StoreChar
  PROVE  OrderInv'
<1> USE SizeFacts
<1>1. /\ isr \in {"both", "char"} /\ ring' = [ring EXCEPT ![slot] = val]
      /\ isr' = (IF isr = "both" THEN "index" ELSE "wrap")
      /\ UNCHANGED <<bufRd, bufWr, slot, val, reader, edges, got, clean>>
  BY DEF StoreChar, readVars, histVars
<1>2. /\ Recorded \in Nat /\ Consumed \in Int /\ Recorded >= 1
      /\ slot = (Recorded - 1) % Size /\ val = edges[Recorded] /\ val \in Key
      /\ Consumed >= 0
  BY <1>1, OrderTypes DEF OrderInv, Placed, RingTypes
<1>3. slot \in 0..(Size - 1)
  <2>1. PICK j \in Int : j = Recorded - 1
    BY <1>2
  <2> QED
    BY <1>2, <2>1, DivMod
<1>4. /\ Recorded' = Recorded /\ Published' = Published /\ Consumed' = Consumed
      /\ Stored = Recorded - 1 /\ Stored' = Recorded
  BY <1>1, <1>2 DEF Recorded, Published, Stored, Consumed
<1>5. RingTypes'
  BY <1>1, <1>2, <1>3 DEF OrderInv, RingTypes
<1>6. Placed'
  BY <1>1, <1>4 DEF OrderInv, Placed
<1>7. ASSUME clean PROVE InOrder'
  <2>1. InOrder
    BY <1>7 DEF OrderInv
  <2>2. ASSUME NEW k \in (Consumed + 1)..Recorded
        PROVE  ring'[(k - 1) % Size] = edges[k]
    <3>1. PICK j \in Int, m \in Int : j = k - 1 /\ m = Recorded - 1
      BY <1>2
    <3>2. j % Size \in 0..(Size - 1) /\ slot = m % Size
      BY <1>2, <3>1, DivMod
    <3>3. CASE k = Recorded
      BY <1>1, <1>2, <1>3, <3>1, <3>3 DEF OrderInv, RingTypes
    <3>4. CASE k # Recorded
      <4>1. j <= m /\ j # m /\ m < j + Size /\ k \in (Consumed + 1)..Stored
        BY <1>2, <1>4, <2>1, <3>1, <3>4 DEF InOrder
      <4>2. j % Size # slot
        BY <3>2, <4>1, ModClose
      <4>3. ring'[j % Size] = ring[j % Size]
        BY <1>1, <3>2, <4>2 DEF OrderInv, RingTypes
      <4> QED
        BY <2>1, <3>1, <4>1, <4>3 DEF InOrder
    <3> QED
      BY <3>3, <3>4
  <2> QED
    BY <1>1, <1>4, <2>1, <2>2 DEF InOrder
<1> QED
  BY <1>1, <1>5, <1>6, <1>7 DEF OrderInv

LEMMA StoreIndexOrder ==
  ASSUME OrderInv, StoreIndex
  PROVE  OrderInv'
<1>1. /\ isr \in {"both", "index"} /\ bufWr' = slot + 1
      /\ isr' = (IF isr = "both" THEN "char" ELSE "wrap")
      /\ UNCHANGED <<ring, bufRd, slot, val, reader, edges, got, clean>>
  BY DEF StoreIndex, readVars, histVars
<1>2. Recorded \in Nat /\ Consumed \in Int
  BY OrderTypes DEF OrderInv
<1>3. /\ Recorded' = Recorded /\ Published = Recorded - 1 /\ Published' = Recorded
      /\ Consumed' = Consumed /\ Stored' = Stored
  BY <1>1, <1>2 DEF Recorded, Published, Stored, Consumed
<1>4. RingTypes'
  BY <1>1 DEF OrderInv, RingTypes
<1>5. Placed'
  BY <1>1, <1>3 DEF OrderInv, Placed
<1>6. ASSUME clean PROVE InOrder'
  <2>1. InOrder
    BY <1>6 DEF OrderInv
  <2>2. /\ Consumed' <= Published'
        /\ reader \in {"load", "advance"} => Consumed' < Published'
    BY <1>2, <1>3, <2>1 DEF InOrder
  <2> QED
    BY <1>1, <1>3, <2>1, <2>2 DEF InOrder
<1> QED
  BY <1>1, <1>4, <1>5, <1>6 DEF OrderInv

LEMMA WrapOrder ==
  ASSUME OrderInv, Wrap
  PROVE  OrderInv'
<1> USE SizeFacts
<1>1. /\ isr = "wrap" /\ isr' = "wake" /\ bufWr' = Wrapped(bufWr)
      /\ UNCHANGED <<ring, bufRd, slot, val, reader, edges, got, clean>>
  BY DEF Wrap, readVars, histVars
<1>2. /\ Recorded \in Nat /\ bufWr = slot + 1 /\ slot = (Recorded - 1) % Size
      /\ slot \in Int
  BY <1>1, OrderTypes DEF OrderInv, Placed, RingTypes
<1>3. /\ Recorded' = Recorded /\ Published' = Published /\ Consumed' = Consumed
      /\ Stored' = Stored
  BY <1>1 DEF Recorded, Published, Stored, Consumed
<1>4. bufWr' = Recorded % Size
  <2>1. PICK k \in Int : k = Recorded - 1 /\ k + 1 = Recorded
    BY <1>2
  <2>2. (k + 1) % Size = IF (k % Size) + 1 >= Size THEN 0 ELSE (k % Size) + 1
    BY ModSucc
  <2> QED
    BY <1>1, <1>2, <2>1, <2>2 DEF Wrapped
<1>5. RingTypes'
  BY <1>1, <1>2 DEF OrderInv, RingTypes, Wrapped
<1>6. Placed'
  BY <1>1, <1>3, <1>4 DEF OrderInv, Placed
<1>7. clean => InOrder'
  BY <1>1, <1>3 DEF OrderInv, InOrder
<1> QED
  BY <1>1, <1>5, <1>6, <1>7 DEF OrderInv

LEMMA WakeOrder ==
  ASSUME OrderInv, Wake
  PROVE  OrderInv'
<1>1. /\ isr = "wake" /\ isr' = "idle"
      /\ reader' = reader \/ (reader = "asleep" /\ reader' = "test")
      /\ UNCHANGED <<ring, bufRd, bufWr, slot, val, edges, got, clean>>
  BY DEF Wake, Woken, histVars
<1>2. /\ Recorded' = Recorded /\ Published' = Published /\ Consumed' = Consumed
      /\ Stored' = Stored
  BY <1>1 DEF Recorded, Published, Stored, Consumed
<1>3. RingTypes'
  BY <1>1 DEF OrderInv, RingTypes
<1>4. Placed'
  BY <1>1, <1>2 DEF OrderInv, Placed
<1>5. clean => InOrder'
  BY <1>1, <1>2 DEF OrderInv, InOrder
<1> QED
  BY <1>1, <1>3, <1>4, <1>5 DEF OrderInv

LEMMA LoadCharOrder ==
  ASSUME OrderInv, NEW ok \in BOOLEAN, LoadChar(ok)
  PROVE  OrderInv'
<1> USE SizeFacts
<1>1. /\ reader = "load" /\ clean' = (clean /\ ~SeesOldChar)
      /\ UNCHANGED <<ring, bufRd, bufWr, isrVars, edges>>
      /\ got' = (IF ok THEN Append(got, ring[bufRd]) ELSE got)
      /\ reader' = (IF ok THEN "advance" ELSE "out")
  BY DEF LoadChar, AfterCopy
<1>2. CASE ~ok
  <2>1. got' = got /\ reader' = "out"
    BY <1>1, <1>2, Zenon
  <2>2. clean' \in BOOLEAN /\ (clean' => clean)
    BY <1>1
  <2> QED
    BY <1>1, <2>1, <2>2, ReaderMove
<1>3. CASE ok
  <2>1. got' = Append(got, ring[bufRd]) /\ reader' = "advance"
    BY <1>1, <1>3, Zenon
  <2>2. /\ Len(got) \in Nat /\ Consumed = Len(got) /\ Recorded \in Nat
        /\ bufRd = Len(got) % Size /\ got \in Seq(Key \cup {"none"})
    BY <1>1, OrderTypes DEF OrderInv, RingTypes, Placed, Consumed
  <2>3. bufRd \in 0..(Size - 1)
    BY <2>2, DivMod
  <2>4. ring[bufRd] \in Key \cup {"none"}
    BY <2>3 DEF OrderInv, RingTypes
  <2>5. /\ got' \in Seq(Key \cup {"none"}) /\ Len(got') = Len(got) + 1
        /\ got'[Len(got) + 1] = ring[bufRd]
        /\ \A k \in 1..Len(got) : got'[k] = got[k]
    BY <2>1, <2>2, <2>4
  <2>6. /\ Recorded' = Recorded /\ Published' = Published /\ Stored' = Stored
        /\ Consumed' = Consumed
    BY <1>1, <2>1, <2>2, <2>5 DEF isrVars, Recorded, Published, Stored, Consumed
  <2>7. RingTypes'
    BY <1>1, <2>5 DEF OrderInv, RingTypes, isrVars
  <2>8. Placed'
    BY <1>1, <2>6 DEF OrderInv, Placed, isrVars
  <2>9. ASSUME clean' PROVE InOrder'
    <3>1. InOrder /\ ~SeesOldChar /\ Consumed < Published
      BY <1>1, <2>9 DEF OrderInv, InOrder
    <3>2. Consumed + 1 <= Stored
      <4>1. CASE isr = "char"
        <5>1. Published = Recorded /\ Stored = Recorded - 1
          BY <2>2, <4>1 DEF Published, Stored
        <5>2. slot = (Recorded - 1) % Size
          BY <4>1 DEF OrderInv, Placed
        <5>3. Consumed # Recorded - 1
          BY <2>2, <3>1, <4>1, <5>2 DEF SeesOldChar
        <5> QED
          BY <2>2, <3>1, <5>1, <5>3
      <4>2. CASE isr # "char"
        BY <2>2, <3>1, <4>2 DEF Published, Stored
      <4> QED
        BY <4>1, <4>2
    <3>3. PICK k \in (Consumed + 1)..Stored : k = Len(got) + 1 /\ k - 1 = Len(got)
      BY <2>2, <3>2, OrderTypes DEF OrderInv
    <3>4. ring[(k - 1) % Size] = edges[k]
      BY <3>1 DEF InOrder
    <3>5. ring[bufRd] = edges[Len(got) + 1]
      BY <2>2, <3>3, <3>4
    <3>6. \A j \in 1..Len(got') : got'[j] = edges[j]
      <4> SUFFICES ASSUME NEW j \in 1..Len(got') PROVE got'[j] = edges[j]
        OBVIOUS
      <4>1. CASE j = Len(got) + 1
        BY <2>5, <3>5, <4>1
      <4>2. CASE j # Len(got) + 1
        <5>1. j \in 1..Len(got)
          BY <2>2, <2>5, <4>2
        <5> QED
          BY <2>5, <3>1, <5>1 DEF InOrder
      <4> QED
        BY <4>1, <4>2
    <3> QED
      BY <1>1, <2>6, <3>1, <3>6 DEF InOrder
  <2> QED
    BY <1>1, <2>7, <2>8, <2>9 DEF OrderInv
<1> QED
  BY <1>2, <1>3

LEMMA AdvanceOrder ==
  ASSUME OrderInv, Advance
  PROVE  OrderInv'
<1> USE SizeFacts
<1>1. /\ reader = "advance" /\ reader' = "out" /\ bufRd' = Wrapped(bufRd + 1)
      /\ UNCHANGED <<ring, bufWr, isrVars, edges, got, clean>>
  BY DEF Advance, histVars
<1>2. /\ Len(got) \in Nat /\ Consumed = Len(got) - 1 /\ Consumed' = Consumed + 1
      /\ Consumed \in Int /\ Consumed >= 0 /\ bufRd = Consumed % Size
  BY <1>1, OrderTypes DEF OrderInv, Placed, Consumed
<1>3. /\ Recorded' = Recorded /\ Published' = Published /\ Stored' = Stored
      /\ Published \in Int /\ Recorded \in Int
  BY <1>1, OrderTypes DEF OrderInv, isrVars, Recorded, Published, Stored
<1>4. bufRd' = Consumed' % Size
  <2>1. PICK k \in Int : k = Consumed
    BY <1>2
  <2>2. (k + 1) % Size = IF (k % Size) + 1 >= Size THEN 0 ELSE (k % Size) + 1
    BY ModSucc
  <2> QED
    BY <1>1, <1>2, <2>1, <2>2 DEF Wrapped
<1>5. RingTypes'
  <2>1. bufRd' \in Int
    BY <1>1 DEF OrderInv, RingTypes, Wrapped
  <2> QED
    BY <1>1, <2>1 DEF OrderInv, RingTypes, isrVars
<1>6. Placed'
  BY <1>1, <1>2, <1>3, <1>4 DEF OrderInv, Placed, isrVars
<1>7. ASSUME clean PROVE InOrder'
  <2>1. InOrder /\ Consumed < Published
    BY <1>1, <1>7 DEF OrderInv, InOrder
  <2>2. Consumed' <= Published' /\ Recorded' - Consumed' <= Size - 1
    BY <1>2, <1>3, <2>1 DEF InOrder
  <2>3. \A k \in (Consumed' + 1)..Stored : ring[(k - 1) % Size] = edges[k]
    <3> SUFFICES ASSUME NEW k \in (Consumed' + 1)..Stored
                 PROVE  ring[(k - 1) % Size] = edges[k]
      OBVIOUS
    <3>1. k \in (Consumed + 1)..Stored
      BY <1>2, OrderTypes DEF OrderInv
    <3> QED
      BY <2>1, <3>1 DEF InOrder
  <2> QED
    BY <1>1, <1>3, <2>1, <2>2, <2>3 DEF InOrder
<1> QED
  BY <1>1, <1>5, <1>6, <1>7 DEF OrderInv

LEMMA OrderNext == OrderInv /\ [Next]_vars => OrderInv'
<1> SUFFICES ASSUME OrderInv, [Next]_vars PROVE OrderInv'
  OBVIOUS
<1>1. ASSUME UNCHANGED <<ring, bufRd, bufWr, isrVars, edges, got, clean, reader>>
      PROVE  OrderInv'
  <2>1. /\ Recorded' = Recorded /\ Published' = Published /\ Stored' = Stored
        /\ Consumed' = Consumed
    BY <1>1 DEF isrVars, Recorded, Published, Stored, Consumed
  <2> QED
    BY <1>1, <2>1 DEF OrderInv, RingTypes, Placed, InOrder, isrVars
<1>2. CASE \/ Probe \/ FailToProbe \/ Remove \/ DevresRelease \/ Open \/ Close
           \/ \E ok \in BOOLEAN : MiscRegister(ok)
           \/ UNCHANGED vars
  BY <1>1, <1>2
     DEF Probe, FailToProbe, Remove, DevresRelease, Open, Close, MiscRegister,
         vars, readVars, histVars
<1>3. clean \in BOOLEAN
  BY DEF OrderInv, RingTypes
<1>4. CASE Read \/ JoinQueue \/ Signal
  <2>1. /\ UNCHANGED <<ring, bufRd, bufWr, isrVars, edges, got, clean>>
        /\ reader # "advance" /\ reader' # "advance" /\ reader' # "load"
    BY <1>4 DEF Read, JoinQueue, Signal, OrAstray, AfterJoin, histVars
  <2> QED
    BY <1>3, <2>1, ReaderMove
<1>5. CASE FirstTest \/ TestAgain
  <2>1. /\ UNCHANGED <<ring, bufRd, bufWr, isrVars, edges, got>>
        /\ reader # "advance" /\ reader' # "advance"
        /\ reader' = "load" => Available
        /\ clean' = (clean /\ ~SeesPastEnd)
    BY <1>5 DEF FirstTest, TestAgain, OrAstray
  <2>2. clean' \in BOOLEAN /\ (clean' => clean /\ ~SeesPastEnd)
    BY <2>1
  <2> QED
    BY <2>1, <2>2, ReaderMove, AvailableMeansEvent
<1> QED
  BY <1>2, <1>4, <1>5, EdgeOrder, StoreCharOrder, StoreIndexOrder, WrapOrder,
     WakeOrder, LoadCharOrder, AdvanceOrder DEF Next, Handler, Reader, Halt

LEMMA OrderImplies == OrderInv => EventsInOrder
<1> SUFFICES ASSUME OrderInv, clean
             PROVE  /\ got = SubSeq(edges, 1, Len(got))
                    /\ isr = "idle" /\ reader = "out" =>
                         /\ (bufWr - bufRd) % Size = Len(edges) - Len(got)
                         /\ \A i \in 1..(Len(edges) - Len(got)) :
                              ring[(bufRd + i - 1) % Size] = edges[Len(got) + i]
  BY DEF EventsInOrder
<1> USE SizeFacts
<1>1. /\ InOrder /\ Len(got) \in Nat /\ Recorded \in Nat /\ Consumed \in Int
      /\ got \in Seq(Key \cup {"none"}) /\ edges \in Seq(Key)
  BY OrderTypes DEF OrderInv, RingTypes
<1>2. Len(got) <= Recorded
  <2>1. Published \in Int /\ Published <= Recorded
    BY <1>1 DEF Published
  <2>2. reader = "advance" => Consumed < Published /\ Len(got) = Consumed + 1
    BY <1>1 DEF InOrder, Consumed
  <2>3. reader # "advance" => Len(got) = Consumed
    BY <1>1 DEF Consumed
  <2> QED
    BY <1>1, <2>1, <2>2, <2>3 DEF InOrder
<1>3. got = SubSeq(edges, 1, Len(got))
  <2>1. /\ Len(SubSeq(edges, 1, Len(got))) = Len(got)
        /\ SubSeq(edges, 1, Len(got)) \in Seq(Key)
        /\ \A k \in 1..Len(got) : SubSeq(edges, 1, Len(got))[k] = edges[k]
    BY <1>1, <1>2 DEF Recorded
  <2>2. \A k \in 1..Len(got) : got[k] = edges[k]
    BY <1>1 DEF InOrder
  <2> QED
    BY <1>1, <2>1, <2>2
<1>4. ASSUME isr = "idle", reader = "out"
      PROVE  /\ (bufWr - bufRd) % Size = Len(edges) - Len(got)
             /\ \A i \in 1..(Len(edges) - Len(got)) :
                  ring[(bufRd + i - 1) % Size] = edges[Len(got) + i]
  <2>1. /\ Consumed = Len(got) /\ Stored = Recorded
        /\ bufRd = Len(got) % Size /\ bufWr = Recorded % Size
        /\ Recorded - Len(got) <= Size - 1
    BY <1>1, <1>4 DEF OrderInv, Placed, InOrder, Consumed, Stored
  <2>2. PICK r \in Int, w \in Int : r = Len(got) /\ w = Recorded
    BY <1>1
  <2>3. ((w % Size) - (r % Size)) % Size = w - r
    <3>1. r <= w /\ w < r + Size
      BY <1>2, <2>1, <2>2
    <3> QED
      BY <3>1, ModMinus
  <2>4. (bufWr - bufRd) % Size = Len(edges) - Len(got)
    BY <2>1, <2>2, <2>3 DEF Recorded
  <2>5. ASSUME NEW i \in 1..(Len(edges) - Len(got))
        PROVE  ring[(bufRd + i - 1) % Size] = edges[Len(got) + i]
    <3>1. PICK j \in Int : j = i - 1
      BY <1>1 DEF Recorded
    <3>2. ((r % Size) + j) % Size = (r + j) % Size
      BY ModPlus
    <3>3. bufRd + i - 1 = (r % Size) + j
      BY <1>1, <2>1, <2>2, <3>1 DEF Recorded, OrderInv, RingTypes
    <3>4. PICK k \in (Consumed + 1)..Stored : k = Len(got) + i /\ k - 1 = r + j
      BY <1>1, <2>1, <2>2, <3>1 DEF Recorded
    <3>5. ring[(k - 1) % Size] = edges[k]
      BY <1>1 DEF InOrder
    <3> QED
      BY <3>2, <3>3, <3>4, <3>5
  <2> QED
    BY <2>4, <2>5
<1> QED
  BY <1>3, <1>4

(* EventsInOrder holds in every reachable state, for a ring of any size:   *)
(* as long as the ring was not overrun and no read fell between two stores *)
(* of the handler, read() returns the events of the key in order.          *)
THEOREM EventsKeepOrder == Spec => []EventsInOrder
  BY OrderInit, OrderNext, OrderImplies, PTL DEF Spec
-----------------------------------------------------------------------------
(* DmaSg, for one writer, any buffers and any number of writes.            *)
CONSTANTS Writer, First, Rest, NSlots, Layouts, Outcomes, MaxWrites

VARIABLES
  phase, at, mem, done, waiters, queue, calling, pc, data, cookie, round, issued,
  finished, writes, result

Dma == INSTANCE DmaSg

(* Where the allocators put the buffers: apart from each other, and the    *)
(* source of the second transaction not behind the first destination,      *)
(* where the first one writes too.                                         *)
Apart ==
  \A l \in Layouts :
    /\ l \in [Dma!Buffers -> 1..NSlots]
    /\ \A a, b \in Dma!Buffers : a # b => l[a] # l[b]
    /\ l["src"] \notin l["rbuf"]..(l["rbuf"] + 2)

OneUser(p) == Writer = {p} /\ NSlots \in Nat /\ Outcomes \subseteq BOOLEAN /\ Apart

DmaTypes ==
  /\ at \in Layouts /\ mem = [s \in Dma!Slot |-> mem[s]]
  /\ issued \in Nat /\ done \in Nat /\ calling \in BOOLEAN
  /\ pc \in [Writer -> {"idle", "init", "copy", "submit", "wait", "asleep", "check"}]
  /\ round \in [Writer -> {1, 2}] /\ cookie \in [Writer -> Nat]
  /\ result \in [Writer -> {"none", "count", "EFAULT", "EINVAL"}]
  /\ data = [p \in Writer |-> data[p]]

(* A transaction is under way only while its writer waits for it, and the  *)
(* completion is not 0 only until the writer takes it off again.           *)
Waits(p) == pc[p] \in {"wait", "asleep"}

Turns(p) ==
  /\ waiters = (IF pc[p] = "asleep" THEN {p} ELSE {})
  /\ queue # <<>> => queue = <<Dma!Transaction(round[p])>> /\ calling = FALSE
  /\ queue # <<>> \/ calling => Waits(p) /\ done = 0
  /\ done # 0 => done = 1 /\ pc[p] = "wait"
  /\ Waits(p) => cookie[p] = issued
  /\ calling \/ done # 0 => issued \in finished
  /\ pc[p] = "check" => cookie[p] \in finished

(* What the user wrote stays in the source until the verdict, and the      *)
(* destination as it is until the next write.                              *)
Bytes(p) ==
  /\ pc[p] \in {"submit", "wait", "asleep", "check"} => mem[at["src"]] = data[p]
  /\ result[p] = "count" => pc[p] = "idle" /\ mem[at["dst"]][1] = data[p][1]

DmaInv(p) == DmaTypes /\ Turns(p) /\ Bytes(p)

LEMMA PlacesOf ==
  ASSUME NEW p, OneUser(p), DmaTypes
  PROVE  /\ at["src"] \in Dma!Slot /\ at["dst"] \in Dma!Slot /\ at["src"] # at["dst"]
         /\ at["rbuf"] \in Int /\ at["src"] \notin at["rbuf"]..(at["rbuf"] + 2)
<1>1. at \in Layouts /\ {"src", "dst", "rbuf"} \subseteq Dma!Buffers
  BY DEF DmaTypes, Dma!Buffers, Dma!RBuf
<1>2. at \in [Dma!Buffers -> 1..NSlots]
  BY <1>1 DEF OneUser, Apart
<1>3. at["src"] # at["dst"] /\ at["src"] \notin at["rbuf"]..(at["rbuf"] + 2)
  BY <1>1 DEF OneUser, Apart
<1> QED
  BY <1>1, <1>2, <1>3 DEF OneUser, Dma!Slot

LEMMA DmaInit == ASSUME NEW p, OneUser(p), Dma!Init PROVE DmaInv(p)
<1>1. DmaTypes
  <2>1. /\ at \in Layouts /\ issued = 0 /\ done = 0 /\ calling = FALSE
        /\ mem = [s \in Dma!Slot |-> <<"old", 0>>]
        /\ pc = [q \in Writer |-> "idle"] /\ result = [q \in Writer |-> "none"]
        /\ round = [q \in Writer |-> 1] /\ cookie = [q \in Writer |-> 0]
        /\ data = [q \in Writer |-> CHOOSE d \in Dma!User : TRUE]
    BY DEF Dma!Init
  <2>2. mem = [s \in Dma!Slot |-> mem[s]] /\ data = [q \in Writer |-> data[q]]
    BY <2>1
  <2> QED
    BY <2>1, <2>2 DEF DmaTypes
<1>2. p \in Writer
  BY DEF OneUser
<1>3. Turns(p) /\ Bytes(p)
  BY <1>2 DEF Dma!Init, Turns, Bytes, Waits
<1> QED
  BY <1>1, <1>3 DEF DmaInv

(* What neither the writer nor the engine does.                            *)
LEMMA DmaAdmin ==
  ASSUME NEW p, OneUser(p), DmaInv(p),
         \/ Dma!Register \/ Dma!WriteUnready \/ Dma!Remove \/ Dma!Halt \/ UNCHANGED Dma!vars
         \/ \E ok \in BOOLEAN : Dma!EndProbe(ok)
  PROVE  DmaInv(p)'
<1>1. /\ UNCHANGED <<at, mem, done, waiters, issued, finished, pc, data, cookie, round, result>>
      /\ \/ queue' = queue /\ calling' = calling
         \/ queue' = <<>> /\ calling' = FALSE
  <2>1. CASE Dma!Remove
    BY <2>1 DEF Dma!Remove, Dma!memVars, Dma!okVars, Dma!ctxVars
  <2>2. CASE Dma!Register \/ Dma!WriteUnready \/ \E ok \in BOOLEAN : Dma!EndProbe(ok)
    BY <2>2 DEF Dma!Register, Dma!WriteUnready, Dma!EndProbe, Dma!memVars, Dma!okVars,
       Dma!dmaVars, Dma!ctxVars
  <2>3. CASE Dma!Halt \/ UNCHANGED Dma!vars
    BY <2>3 DEF Dma!Halt, Dma!vars, Dma!memVars, Dma!okVars, Dma!dmaVars, Dma!ctxVars
  <2> QED
    BY <2>1, <2>2, <2>3
<1>2. DmaTypes'
  BY <1>1 DEF DmaInv, DmaTypes
<1>3. Turns(p)'
  BY <1>1 DEF DmaInv, DmaTypes, Turns, Waits
<1>4. Bytes(p)'
  BY <1>1 DEF DmaInv, Bytes
<1> QED
  BY <1>2, <1>3, <1>4 DEF DmaInv

(* A step of the writer that is not about a transaction: none is under     *)
(* way before it nor after it.                                             *)
LEMMA AtRest ==
  ASSUME NEW p, OneUser(p), DmaInv(p), pc[p] \in {"idle", "init", "copy", "submit", "check"}
  PROVE  /\ p \in Writer /\ queue = <<>> /\ calling = FALSE /\ done = 0 /\ waiters = {}
         /\ DmaTypes
  BY DEF DmaInv, DmaTypes, Turns, Waits, OneUser

LEMMA DmaWrite ==
  ASSUME NEW p, OneUser(p), DmaInv(p), NEW d \in Dma!User, Dma!Write(p, d) PROVE DmaInv(p)'
<1>1. /\ pc[p] = "idle" /\ pc' = [pc EXCEPT ![p] = "init"]
      /\ data' = [data EXCEPT ![p] = d] /\ result' = [result EXCEPT ![p] = "none"]
      /\ round' = [round EXCEPT ![p] = 1]
      /\ UNCHANGED <<at, done, waiters, queue, calling, issued, finished, cookie>>
      /\ mem' = Dma!Filled
  BY DEF Dma!Write, Dma!At, Dma!GoTo, Dma!okVars, Dma!dmaVars
<1>2. /\ p \in Writer /\ queue = <<>> /\ calling = FALSE /\ done = 0 /\ waiters = {} /\ DmaTypes
  BY <1>1, AtRest
<1>3. mem' = [s \in Dma!Slot |-> mem'[s]]
  BY <1>1 DEF Dma!Filled
<1>4. data' = [q \in Writer |-> data'[q]]
  BY <1>1, <1>2 DEF DmaTypes
<1>5. DmaTypes'
  BY <1>1, <1>2, <1>3, <1>4 DEF DmaTypes, Dma!Slot
<1>6. pc'[p] = "init" /\ result'[p] = "none"
  BY <1>1, <1>2 DEF DmaTypes
<1>7. Turns(p)' /\ Bytes(p)'
  BY <1>1, <1>2, <1>6 DEF Turns, Waits, Bytes
<1> QED
  BY <1>5, <1>7 DEF DmaInv

(* The steps before a transaction, and those that end write().             *)
LEMMA DmaBegin ==
  ASSUME NEW p, OneUser(p), DmaInv(p), Dma!InitCompletion(p) \/ Dma!CopyFromUser(p)
  PROVE  DmaInv(p)'
<1>1. /\ pc[p] \in {"init", "copy"}
      /\ UNCHANGED <<at, queue, calling, issued, finished, data, cookie, round, result>>
      /\ done' \in {done, 0} /\ waiters' \in {waiters, {}}
      /\ \/ pc' = [pc EXCEPT ![p] = "copy"] /\ mem' = mem
         \/ pc' = [pc EXCEPT ![p] = "submit"] /\ mem' = [mem EXCEPT ![at["src"]] = data[p]]
  BY DEF Dma!InitCompletion, Dma!CopyFromUser, Dma!At, Dma!GoTo, Dma!memVars, Dma!okVars,
     Dma!dmaVars, Dma!ctxVars
<1>2. /\ p \in Writer /\ queue = <<>> /\ calling = FALSE /\ done = 0 /\ waiters = {} /\ DmaTypes
      /\ at["src"] \in Dma!Slot /\ result[p] # "count"
  BY <1>1, AtRest, PlacesOf DEF DmaInv, Bytes
<1>3. mem' = [s \in Dma!Slot |-> mem'[s]]
  BY <1>1, <1>2 DEF DmaTypes
<1>4. \/ pc'[p] = "copy"
      \/ pc'[p] = "submit" /\ mem'[at["src"]] = data[p]
  BY <1>1, <1>2 DEF DmaTypes
<1>5. DmaTypes'
  <2>1. pc' \in [Writer -> {"idle", "init", "copy", "submit", "wait", "asleep", "check"}]
    BY <1>1, <1>2 DEF DmaTypes
  <2>2. done' \in Nat
    BY <1>1, <1>2
  <2> QED
    BY <1>1, <1>2, <1>3, <2>1, <2>2 DEF DmaTypes, Dma!Slot
<1>6. Turns(p)' /\ Bytes(p)'
  BY <1>1, <1>2, <1>4 DEF Turns, Waits, Bytes
<1> QED
  BY <1>5, <1>6 DEF DmaInv

LEMMA DmaReturn ==
  ASSUME NEW p, OneUser(p), DmaInv(p),
         Dma!FailToCopy(p) \/ Dma!FailToSubmit(p) \/ Dma!CheckSecond(p)
  PROVE  DmaInv(p)'
<1>1. /\ pc[p] \in {"copy", "submit", "check"} /\ pc' = [pc EXCEPT ![p] = "idle"]
      /\ UNCHANGED <<at, mem, done, waiters, queue, calling, issued, finished, data, cookie,
                     round>>
      /\ \/ result' = [result EXCEPT ![p] = "EFAULT"]
         \/ result' = [result EXCEPT ![p] = "EINVAL"]
         \/ pc[p] = "check" /\ result' = [result EXCEPT ![p] = Dma!Verdict]
  BY DEF Dma!FailToCopy, Dma!FailToSubmit, Dma!CheckSecond, Dma!Return, Dma!At, Dma!GoTo,
     Dma!memVars, Dma!okVars, Dma!dmaVars
<1>2. /\ p \in Writer /\ queue = <<>> /\ calling = FALSE /\ done = 0 /\ waiters = {} /\ DmaTypes
  BY <1>1, AtRest
<1>3. Dma!Verdict \in {"count", "EINVAL"}
  BY DEF Dma!Verdict
<1>4. DmaTypes'
  BY <1>1, <1>2, <1>3 DEF DmaTypes, Dma!Slot
<1>5. pc'[p] = "idle"
  BY <1>1, <1>2 DEF DmaTypes
<1>6. Turns(p)'
  BY <1>1, <1>2, <1>5 DEF Turns, Waits
<1>7. result'[p] = "count" => mem[at["src"]] = data[p] /\ mem[at["src"]][1] = mem[at["dst"]][1]
  <2>1. result'[p] = "count" => pc[p] = "check" /\ Dma!Verdict = "count"
    BY <1>1, <1>2 DEF DmaTypes
  <2> QED
    BY <2>1 DEF DmaInv, Bytes, Dma!Verdict
<1>8. Bytes(p)'
  BY <1>1, <1>5, <1>7 DEF Bytes
<1> QED
  BY <1>4, <1>6, <1>8 DEF DmaInv

LEMMA DmaFirst == ASSUME NEW p, OneUser(p), DmaInv(p), Dma!CheckFirst(p) PROVE DmaInv(p)'
<1>1. /\ pc[p] = "check" /\ pc' = [pc EXCEPT ![p] = "submit"] /\ done' = 0
      /\ round' = [round EXCEPT ![p] = 2]
      /\ UNCHANGED <<at, mem, waiters, queue, calling, issued, finished, data, cookie, result>>
  BY DEF Dma!CheckFirst, Dma!At, Dma!GoTo, Dma!memVars, Dma!dmaVars
<1>2. /\ p \in Writer /\ queue = <<>> /\ calling = FALSE /\ waiters = {} /\ DmaTypes
  BY <1>1, AtRest
<1>3. DmaTypes'
  BY <1>1, <1>2 DEF DmaTypes, Dma!Slot
<1>4. pc'[p] = "submit"
  BY <1>1, <1>2 DEF DmaTypes
<1>5. Turns(p)' /\ Bytes(p)'
  BY <1>1, <1>2, <1>4 DEF DmaInv, Turns, Waits, Bytes
<1> QED
  BY <1>3, <1>5 DEF DmaInv

(* The transaction that is submitted is the only one.                      *)
LEMMA DmaSubmit == ASSUME NEW p, OneUser(p), DmaInv(p), Dma!Submit(p) PROVE DmaInv(p)'
<1>1. /\ pc[p] = "submit" /\ pc' = [pc EXCEPT ![p] = "wait"]
      /\ issued' = issued + 1 /\ cookie' = [cookie EXCEPT ![p] = issued + 1]
      /\ queue' = Append(queue, Dma!Transaction(round[p]))
      /\ UNCHANGED <<at, mem, done, waiters, calling, finished, data, round, result>>
  BY DEF Dma!Submit, Dma!At, Dma!GoTo, Dma!memVars, Dma!okVars
<1>2. /\ p \in Writer /\ queue = <<>> /\ calling = FALSE /\ done = 0 /\ waiters = {} /\ DmaTypes
  BY <1>1, AtRest
<1>3. queue' = <<Dma!Transaction(round[p])>>
  BY <1>1, <1>2
<1>4. DmaTypes'
  BY <1>1, <1>2 DEF DmaTypes, Dma!Slot
<1>5. pc'[p] = "wait" /\ cookie'[p] = issued'
  BY <1>1, <1>2 DEF DmaTypes
<1>6. Turns(p)'
  BY <1>1, <1>2, <1>3, <1>5 DEF Turns, Waits, Dma!Transaction
<1>7. Bytes(p)'
  BY <1>1, <1>5 DEF DmaInv, Bytes
<1> QED
  BY <1>4, <1>6, <1>7 DEF DmaInv

LEMMA DmaWait ==
  ASSUME NEW p, OneUser(p), DmaInv(p), Dma!Sleep(p) \/ Dma!EndWait(p) PROVE DmaInv(p)'
<1>1. /\ pc[p] = "wait"
      /\ UNCHANGED <<at, mem, queue, calling, issued, finished, data, cookie, round, result>>
      /\ \/ /\ ~(done > 0) /\ done' = done /\ waiters' = waiters \cup {p}
            /\ pc' = [pc EXCEPT ![p] = "asleep"]
         \/ /\ done > 0 /\ done' = done - 1 /\ waiters' = waiters
            /\ pc' = [pc EXCEPT ![p] = "check"]
  BY DEF Dma!Sleep, Dma!EndWait, Dma!GoesOn, Dma!At, Dma!GoTo, Dma!memVars, Dma!dmaVars,
     Dma!ctxVars
<1>2. p \in Writer /\ DmaTypes /\ Turns(p) /\ Bytes(p) /\ done \in Nat
  BY DEF DmaInv, DmaTypes, OneUser
<1>3. waiters = {} /\ cookie[p] = issued
  BY <1>1, <1>2 DEF Turns, Waits
<1>4. \/ pc'[p] = "asleep" /\ done = 0 /\ done' = 0 /\ waiters' = {p}
      \/ pc'[p] = "check" /\ done = 1 /\ done' = 0 /\ waiters' = {}
  BY <1>1, <1>2, <1>3 DEF DmaTypes, Turns
<1>5. DmaTypes'
  <2>1. pc' \in [Writer -> {"idle", "init", "copy", "submit", "wait", "asleep", "check"}]
    BY <1>1, <1>2 DEF DmaTypes
  <2>2. done' \in Nat
    BY <1>4
  <2> QED
    BY <1>1, <1>2, <2>1, <2>2 DEF DmaTypes, Dma!Slot
<1>6. Turns(p)'
  BY <1>1, <1>2, <1>3, <1>4 DEF Turns, Waits
<1>7. Bytes(p)'
  BY <1>1, <1>2, <1>4 DEF Bytes
<1> QED
  BY <1>5, <1>6, <1>7 DEF DmaInv

(* The engine.  Neither transaction writes to the source of the second.    *)
LEMMA DmaTransfer ==
  ASSUME NEW p, OneUser(p), DmaInv(p), NEW ok \in Outcomes, Dma!Transfer(ok) PROVE DmaInv(p)'
<1> DEFINE t == Dma!Transaction(round[p])
<1>1. /\ queue # <<>>
      /\ mem' = [s \in Dma!Slot |->
                   IF ok /\ s \in at[Head(queue).to]..(at[Head(queue).to] + Head(queue).blocks - 1)
                   THEN mem[at[Head(queue).from] + s - at[Head(queue).to]]
                   ELSE mem[s]]
      /\ queue' = Tail(queue) /\ calling' = TRUE
      /\ finished' = finished \cup {issued - Len(queue) + 1}
      /\ UNCHANGED <<at, done, waiters, issued, pc, data, cookie, round, result>>
  BY DEF Dma!Transfer, Dma!okVars, Dma!ctxVars
<1>2. p \in Writer /\ DmaTypes /\ Turns(p) /\ Bytes(p) /\ issued \in Nat /\ round[p] \in {1, 2}
  BY DEF DmaInv, DmaTypes, OneUser
<1>3. queue = <<t>> /\ Waits(p) /\ done = 0
  BY <1>1, <1>2 DEF Turns
<1>4. queue' = <<>> /\ Len(queue) = 1 /\ Head(queue) = t
  <2> HIDE DEF t
  <2> QED
    BY <1>1, <1>3
<1>5. issued \in finished'
  BY <1>1, <1>2, <1>4
<1>6. DmaTypes'
  <2>1. mem' = [s \in Dma!Slot |-> mem'[s]]
    BY <1>1
  <2> QED
    BY <1>1, <1>2, <2>1 DEF DmaTypes, Dma!Slot
<1>7. Turns(p)'
  BY <1>1, <1>2, <1>3, <1>4, <1>5 DEF Turns, Waits
<1>8. mem'[at["src"]] = mem[at["src"]]
  <2>1. /\ at["src"] \in Dma!Slot /\ at["src"] # at["dst"] /\ at["dst"] \in Int
        /\ at["src"] \notin at["rbuf"]..(at["rbuf"] + 2)
    BY <1>2, PlacesOf DEF Dma!Slot
  <2>2. at["src"] \notin at[t.to]..(at[t.to] + t.blocks - 1)
    <3>1. CASE round[p] = 1
      BY <2>1, <3>1, PlacesOf, <1>2 DEF Dma!Transaction
    <3>2. CASE round[p] = 2
      <4>1. t.to = "dst" /\ t.blocks = 1
        BY <3>2 DEF Dma!Transaction
      <4>2. at["dst"]..(at["dst"] + 1 - 1) = {at["dst"]}
        BY <2>1
      <4>3. at[t.to]..(at[t.to] + t.blocks - 1) = {at["dst"]}
        <5> HIDE DEF t
        <5> QED
          BY <4>1, <4>2
      <4> QED
        BY <2>1, <4>3
    <3> QED
      BY <1>2, <3>1, <3>2
  <2> HIDE DEF t
  <2> QED
    BY <1>1, <1>4, <2>1, <2>2
<1>9. Bytes(p)'
  BY <1>1, <1>2, <1>3, <1>8 DEF Bytes, Waits
<1> QED
  BY <1>6, <1>7, <1>9 DEF DmaInv

LEMMA DmaCallback == ASSUME NEW p, OneUser(p), DmaInv(p), Dma!Callback PROVE DmaInv(p)'
<1>1. /\ calling /\ calling' = FALSE /\ done' = done + 1
      /\ UNCHANGED <<at, mem, queue, issued, finished, data, cookie, round, result>>
      /\ \/ waiters = {} /\ waiters' = waiters /\ pc' = pc
         \/ \E q \in waiters : waiters' = waiters \ {q} /\ pc' = [pc EXCEPT ![q] = "wait"]
  BY DEF Dma!Callback, Dma!Completed, Dma!GoTo, Dma!memVars, Dma!ctxVars
<1>2. p \in Writer /\ DmaTypes /\ Turns(p) /\ Bytes(p)
  BY DEF DmaInv, OneUser
<1>3. queue = <<>> /\ Waits(p) /\ done = 0 /\ issued \in finished /\ cookie[p] = issued
  BY <1>1, <1>2 DEF Turns, DmaTypes
<1>4. /\ pc' \in [Writer -> {"idle", "init", "copy", "submit", "wait", "asleep", "check"}]
      /\ pc'[p] = "wait" /\ waiters' = {}
  <2>1. CASE pc[p] = "wait"
    BY <1>1, <1>2, <2>1 DEF Turns, DmaTypes
  <2>2. CASE pc[p] = "asleep"
    <3>1. waiters = {p}
      BY <1>2, <2>2 DEF Turns
    <3>2. waiters' = {} /\ pc' = [pc EXCEPT ![p] = "wait"]
      BY <1>1, <3>1
    <3> QED
      BY <1>2, <3>2 DEF DmaTypes
  <2> QED
    BY <1>3, <2>1, <2>2 DEF Waits
<1>5. DmaTypes'
  <2>1. done' = 1
    BY <1>1, <1>3
  <2>2. calling' = FALSE
    BY <1>1
  <2>3. UNCHANGED <<at, mem, issued, data, cookie, round, result>>
    BY <1>1
  <2> QED
    BY <1>2, <1>4, <2>1, <2>2, <2>3 DEF DmaTypes, Dma!Slot
<1>6. Turns(p)' /\ Bytes(p)'
  BY <1>1, <1>2, <1>3, <1>4 DEF Turns, Waits, Bytes
<1> QED
  BY <1>5, <1>6 DEF DmaInv

LEMMA DmaInvariant == ASSUME NEW p, OneUser(p) PROVE Dma!Spec => []DmaInv(p)
<1>1. ASSUME DmaInv(p), [Dma!Next]_Dma!vars PROVE DmaInv(p)'
  <2>1. \A q \in Writer : q = p
    BY DEF OneUser
  <2>2. CASE \E q \in Writer : Dma!Step(q)
    <3>1. Dma!Step(p)
      BY <2>1, <2>2
    <3> QED
      BY <1>1, <3>1, DmaBegin, DmaReturn, DmaFirst, DmaSubmit, DmaWait DEF Dma!Step
  <2>3. CASE \E q \in Writer : \E d \in Dma!User : Dma!Write(q, d)
    BY <1>1, <2>1, <2>3, DmaWrite
  <2>4. CASE Dma!Engine
    BY <1>1, <2>4, DmaTransfer, DmaCallback DEF Dma!Engine
  <2>5. CASE \/ Dma!Register \/ Dma!WriteUnready \/ Dma!Remove \/ Dma!Halt \/ UNCHANGED Dma!vars
             \/ \E ok \in BOOLEAN : Dma!EndProbe(ok)
    BY <1>1, <2>5, DmaAdmin
  <2> QED
    BY <1>1, <2>2, <2>3, <2>4, <2>5 DEF Dma!Next
<1> QED
  BY <1>1, DmaInit, PTL DEF Dma!Spec

(* For one writer: when it goes on after a wait, its own transaction was   *)
(* executed, and no completion is left over.                               *)
THEOREM DmaWaitsForOwn == ASSUME NEW p, OneUser(p) PROVE Dma!Spec => []Dma!WaitsForOwn
<1>1. DmaInv(p) => Dma!WaitsForOwn
  BY DEF OneUser, DmaInv, Turns, Waits, Dma!WaitsForOwn
<1> QED
  BY <1>1, DmaInvariant, PTL

(* For one writer, wherever the buffers lie apart: a write that returns    *)
(* count has left the first byte of what the user wrote in the             *)
(* destination.                                                            *)
THEOREM DmaEchoes == ASSUME NEW p, OneUser(p) PROVE Dma!Spec => []Dma!FirstByteEchoed
<1>1. DmaInv(p) => Dma!FirstByteEchoed
  BY DEF OneUser, DmaInv, Bytes, Dma!FirstByteEchoed
<1> QED
  BY <1>1, DmaInvariant, PTL
=============================================================================
