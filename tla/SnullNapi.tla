----------------------------- MODULE SnullNapi -----------------------------
(***************************************************************************)
(* The NAPI variant of the loopback pair, snull/snull_3dec2020.c, for      *)
(* frames that go one way: from the interface Src to the interface Dst.    *)
(*                                                                         *)
(* Two contexts run concurrently: the transmit context of Src (snull_tx    *)
(* and snull_tx_timeout, which the kernel serialises) and the NAPI poll    *)
(* of Dst, which gives the buffers back to Src's pool.  Only the transmit  *)
(* context touches the status words here (the races on them are the        *)
(* subject of module Snull), so an interrupt is one locked step.           *)
(*                                                                         *)
(* A section under one priv->lock is one step.  snull_get_tx_buffer        *)
(* returns with Src's lock held when the pool is empty; from then on       *)
(* nobody gets that lock: srcLockLeaked.                                   *)
(***************************************************************************)
EXTENDS Integers, Sequences, FiniteSets, Functions

CONSTANTS
  Src, Dst,     (* the two interfaces                                      *)
  PoolSize,     (* pool_size                                               *)
  Budget,       (* the weight given to netif_napi_add: 2                   *)
  Lockup,       (* the lockup parameter                                    *)
  MaxPkt,       (* bound: frames offered to Src                            *)
  MaxTimeout,   (* bound: watchdog expirations                             *)
  None          (* NULL                                                    *)

ASSUME NapiAssumption ==
  /\ Src # Dst
  /\ PoolSize \in Nat \ {0} /\ Budget \in Nat \ {0}
  /\ Lockup \in Nat /\ MaxPkt \in Nat /\ MaxTimeout \in Nat
  /\ None \notin Nat

VARIABLES
  ppool,          (* Src's free list                                       *)
  rxQueue,        (* Dst's receive queue                                   *)
  next,           (* next[b]: the link field of buffer b                   *)
  data,           (* data[b]: the frame in buffer b                        *)
  live,           (* the buffers that are allocated                        *)
  skb,            (* Src's remembered socket buffer, 0 for NULL            *)
  txPackets,      (* Src's stats.tx_packets                                *)
  txErrors,       (* Src's stats.tx_errors                                 *)
  stopped,        (* netif_queue_stopped(Src)                              *)
  srcLockLeaked,  (* Src's lock was left held                              *)
  rxIntEnabled,   (* Dst's rx_int_enabled                                  *)
  napi,           (* Dst's NAPI: "off", "scheduled" or "polling"           *)
  npackets,       (* frames taken by the current poll                      *)
  txPc, txPkt,    (* the transmit context                                  *)
  pollPc, pollPkt,(* the poll context                                      *)
  sent, rcvd      (* history, as in Snull                                  *)

memVars  == <<ppool, rxQueue, next, data, live>>
txVars   == <<skb, txPackets, txErrors, txPc, txPkt>>
rxVars   == <<rxIntEnabled, napi, npackets, pollPc, pollPkt>>
ctlVars  == <<stopped, srcLockLeaked>>
histVars == <<sent, rcvd>>
vars     == <<memVars, txVars, rxVars, ctlVars, histVars>>

(* Buffers are numbered in the order of allocation and never reused.       *)
Buf == 1..(PoolSize * (MaxTimeout + 1))

Push(list, b) == <<b>> \o list
First(list)   == IF list = <<>> THEN None ELSE Head(list)

(* A pool of n buffers that were allocated after `last`.                   *)
NewPool(last, n) == [i \in 1..n |-> last + n + 1 - i]
LinkedFrom(last, n, old) ==
  [b \in Buf |-> CASE b = last + 1 /\ n > 0            -> None
                   [] b > last + 1 /\ b <= last + n    -> b - 1
                   [] OTHER                            -> old[b]]

Init ==
  /\ ppool = NewPool(0, PoolSize)
  /\ rxQueue = <<>>
  /\ next = LinkedFrom(0, PoolSize, [b \in Buf |-> None])
  /\ data = [b \in Buf |-> 0]
  /\ live = 1..PoolSize
  /\ skb = 0 /\ txPackets = 0 /\ txErrors = 0
  /\ stopped = FALSE /\ srcLockLeaked = FALSE
  /\ rxIntEnabled = TRUE /\ napi = "off" /\ npackets = 0
  /\ txPc = "idle" /\ txPkt = None
  /\ pollPc = "idle" /\ pollPkt = None
  /\ sent = 0 /\ rcvd = <<>>

-----------------------------------------------------------------------------
(* snull_tx and snull_hw_tx.                                               *)
Xmit ==
  /\ txPc = "idle" /\ ~stopped
  /\ sent < MaxPkt
  /\ sent' = sent + 1
  /\ skb' = sent + 1
  /\ txPc' = "get"
  /\ UNCHANGED <<memVars, txPackets, txErrors, txPkt, rxVars, ctlVars, rcvd>>

GetTxBuffer ==
  /\ txPc = "get" /\ ~srcLockLeaked
  /\ ppool # <<>>
  /\ txPkt' = Head(ppool)
  /\ data' = [data EXCEPT ![Head(ppool)] = sent]
  /\ ppool' = Tail(ppool)
  /\ stopped' = (stopped \/ Tail(ppool) = <<>>)
  /\ txPc' = "enqueue"
  /\ UNCHANGED <<rxQueue, next, live, skb, txPackets, txErrors, rxVars, srcLockLeaked,
                 histVars>>

(* The early return of snull_get_tx_buffer skips the unlock, and           *)
(* snull_hw_tx drops the frame.                                            *)
OutOfPool ==
  /\ txPc = "get" /\ ~srcLockLeaked
  /\ ppool = <<>>
  /\ srcLockLeaked' = TRUE
  /\ txPc' = "idle"
  /\ UNCHANGED <<memVars, skb, txPackets, txErrors, txPkt, rxVars, stopped, histVars>>

EnqueueBuf ==
  /\ txPc = "enqueue"
  /\ next' = [next EXCEPT ![txPkt] = First(rxQueue)]
  /\ rxQueue' = Push(rxQueue, txPkt)
  /\ txPc' = "ifRxInt"
  /\ UNCHANGED <<ppool, data, live, skb, txPackets, txErrors, txPkt, rxVars, ctlVars,
                 histVars>>

TestRxInt ==
  /\ txPc = "ifRxInt"
  /\ txPc' = IF rxIntEnabled THEN "rxIntr" ELSE "txIntr"
  /\ UNCHANGED <<memVars, skb, txPackets, txErrors, txPkt, rxVars, ctlVars, histVars>>

(* snull_napi_interrupt for Dst: mask the interrupt and schedule the poll. *)
InterruptKeepsMaskOpen ==
  /\ txPc = "rxIntr"
  /\ napi' = IF napi = "off" THEN "scheduled" ELSE napi
  /\ txPc' = "txIntr"
  /\ UNCHANGED <<memVars, skb, txPackets, txErrors, txPkt, rxIntEnabled, npackets, pollPc,
                 pollPkt, ctlVars, histVars>>

NapiInterrupt ==
  /\ txPc = "rxIntr"
  /\ rxIntEnabled' = FALSE
  /\ napi' = IF napi = "off" THEN "scheduled" ELSE napi
  /\ txPc' = "txIntr"
  /\ UNCHANGED <<memVars, skb, txPackets, txErrors, txPkt, npackets, pollPc, pollPkt,
                 ctlVars, histVars>>

(* snull_napi_interrupt for Src: free the socket buffer once and forget    *)
(* it.  then is where the transmit context goes on.                        *)
FreeSkb(then) ==
  /\ ~srcLockLeaked
  /\ skb' = 0
  /\ txPackets' = txPackets + 1
  /\ txPc' = then
  /\ UNCHANGED <<memVars, txErrors, txPkt, rxVars, ctlVars, histVars>>

LosesTx == Lockup # 0 /\ (txPackets + 1) % Lockup = 0

TxInterrupt ==
  /\ txPc = "txIntr" /\ ~LosesTx
  /\ FreeSkb("idle")

LoseTxInterrupt ==
  /\ txPc = "txIntr" /\ LosesTx
  /\ stopped' = TRUE
  /\ txPc' = "idle"
  /\ UNCHANGED <<memVars, skb, txPackets, txErrors, txPkt, rxVars, srcLockLeaked,
                 histVars>>

-----------------------------------------------------------------------------
(* snull_poll.  The kernel's softirq calls it while NAPI is scheduled.     *)
StartPoll ==
  /\ napi = "scheduled"
  /\ napi' = "polling" /\ npackets' = 0 /\ pollPc' = "loop"
  /\ UNCHANGED <<memVars, txVars, rxIntEnabled, pollPkt, ctlVars, histVars>>

PollsOn == npackets < Budget /\ rxQueue # <<>>

NotUnlinked(list) == list
Unlinked(list) == Tail(list)

(* ok is whether dev_alloc_skb succeeded.                                  *)
PollPacket(ok) ==
  /\ pollPc = "loop" /\ PollsOn
  /\ pollPkt' = Head(rxQueue)
  /\ rxQueue' = Unlinked(rxQueue)
  /\ rcvd' = IF ok THEN Append(rcvd, data[Head(rxQueue)]) ELSE rcvd
  /\ npackets' = npackets + 1
  /\ pollPc' = "release"
  /\ UNCHANGED <<ppool, next, data, live, txVars, rxIntEnabled, napi, ctlVars,
                 sent>>

LeavePollLoop ==
  /\ pollPc = "loop" /\ ~PollsOn
  /\ pollPc' = "done"
  /\ UNCHANGED <<memVars, txVars, rxIntEnabled, napi, npackets, pollPkt,
                 ctlVars, histVars>>

(* snull_release_buffer.  After the unlock the watchdog may free pkt; what *)
(* is read from pkt->next then is any value.                               *)
ReleaseBuffer ==
  /\ pollPc = "release" /\ ~srcLockLeaked
  /\ next' = [next EXCEPT ![pollPkt] = First(ppool)]
  /\ ppool' = Push(ppool, pollPkt)
  /\ pollPc' = "ifStopped"
  /\ UNCHANGED <<rxQueue, data, live, txVars, rxIntEnabled, napi, npackets,
                 pollPkt, ctlVars, histVars>>

TestStopped ==
  /\ pollPc = "ifStopped"
  /\ pollPc' = IF stopped THEN "ifNext" ELSE "loop"
  /\ UNCHANGED <<memVars, txVars, rxIntEnabled, napi, npackets, pollPkt,
                 ctlVars, histVars>>

TestNext ==
  /\ pollPc = "ifNext"
  /\ \E isNull \in BOOLEAN :
       /\ pollPkt \in live => isNull = (next[pollPkt] = None)
       /\ pollPc' = IF isNull THEN "wake" ELSE "loop"
  /\ UNCHANGED <<memVars, txVars, rxIntEnabled, napi, npackets, pollPkt,
                 ctlVars, histVars>>

WakeQueue ==
  /\ pollPc = "wake"
  /\ stopped' = FALSE
  /\ pollPc' = "loop"
  /\ UNCHANGED <<memVars, txVars, rxIntEnabled, napi, npackets, pollPkt,
                 srcLockLeaked, histVars>>

(* Fewer frames than the budget: leave polling mode and unmask, under      *)
(* Dst's lock; otherwise the kernel keeps the poll scheduled.              *)
CompletesWhenOver == npackets > Budget
Completes == npackets < Budget

EndPoll ==
  /\ pollPc = "done"
  /\ pollPc' = "idle"
  /\ napi' = IF Completes THEN "off" ELSE "scheduled"
  /\ rxIntEnabled' = (rxIntEnabled \/ Completes)
  /\ UNCHANGED <<memVars, txVars, npackets, pollPkt, ctlVars, histVars>>

-----------------------------------------------------------------------------
(* snull_tx_timeout: a TX interrupt, then the pool is torn down and set up *)
(* again under the lock, with as many buffers as kmalloc yields, and the   *)
(* queue is woken.                                                         *)
TxTimeout ==
  /\ txPc = "idle" /\ stopped
  /\ txErrors < MaxTimeout
  /\ FreeSkb("reset")

TornDownTooMuch == live \ (Range(ppool) \cup Range(rxQueue))
TornDown == live \ Range(ppool)

ResetPool(n) ==
  LET last == PoolSize * (txErrors + 1) IN
  /\ txPc = "reset" /\ ~srcLockLeaked
  /\ txErrors' = txErrors + 1
  /\ live' = TornDown \cup ((last + 1)..(last + n))
  /\ ppool' = NewPool(last, n)
  /\ next' = LinkedFrom(last, n, next)
  /\ txPc' = "recover"
  /\ UNCHANGED <<rxQueue, data, skb, txPackets, txPkt, rxVars, ctlVars, histVars>>

EndTimeout ==
  /\ txPc = "recover"
  /\ stopped' = FALSE
  /\ txPc' = "idle"
  /\ UNCHANGED <<memVars, skb, txPackets, txErrors, txPkt, rxVars, srcLockLeaked, histVars>>

-----------------------------------------------------------------------------
Transmit ==
  \/ GetTxBuffer \/ OutOfPool \/ EnqueueBuf \/ TestRxInt \/ NapiInterrupt
  \/ TxInterrupt \/ LoseTxInterrupt \/ (\E n \in 0..PoolSize : ResetPool(n)) \/ EndTimeout

Poll ==
  \/ StartPoll \/ (\E ok \in BOOLEAN : PollPacket(ok)) \/ LeavePollLoop
  \/ ReleaseBuffer \/ TestStopped \/ TestNext \/ WakeQueue \/ EndPoll

(* Nothing left to do within the bounds, or everyone waits for the lock.   *)
Halt ==
  /\ \/ /\ txPc = "idle" /\ napi = "off"
        /\ sent = MaxPkt \/ (stopped /\ txErrors = MaxTimeout)
     \/ srcLockLeaked
  /\ UNCHANGED vars

Next == Xmit \/ TxTimeout \/ Transmit \/ Poll \/ Halt

Spec == Init /\ [][Next]_vars

(* Both contexts keep running and the watchdog expires.                    *)
FairSpec == Spec /\ WF_vars(Transmit) /\ WF_vars(Poll) /\ WF_vars(TxTimeout)

-----------------------------------------------------------------------------
(* LiveInOnePlace: every allocated buffer is in exactly one of the pool,   *)
(* the receive queue and the hands of one context, and no freed buffer is  *)
(* in any of them, although the watchdog frees and replaces the pool while *)
(* frames are in flight.                                                   *)
InHand(b) == (txPc = "enqueue" /\ txPkt = b) \/ (pollPc = "release" /\ pollPkt = b)

LiveInOnePlace ==
  /\ IsInjective(ppool) /\ IsInjective(rxQueue)
  /\ Range(ppool) \cap Range(rxQueue) = {}
  /\ {b \in Buf : InHand(b)} \cap (Range(ppool) \cup Range(rxQueue)) = {}
  /\ ~(txPc = "enqueue" /\ pollPc = "release" /\ txPkt = pollPkt)
  /\ live = Range(ppool) \cup Range(rxQueue) \cup {b \in Buf : InHand(b)}

(* MaskedWhilePolling: receive interrupts are masked exactly while a poll  *)
(* is scheduled or running.  Masked without a poll, Dst would never        *)
(* receive again; unmasked with one, the poll would be interrupted.        *)
MaskedWhilePolling == rxIntEnabled <=> napi = "off"

(* ImplementsLink: frames are carried at most once and unaltered, as the   *)
(* abstract link promises.                                                 *)
Link == INSTANCE LossyLink WITH
  Dev <- {Src, Dst},
  Peer <- [d \in {Src, Dst} |-> IF d = Src THEN Dst ELSE Src],
  accepted <- [d \in {Src, Dst} |-> IF d = Src THEN sent ELSE 0],
  inFlight <- [d \in {Src, Dst} |->
                 IF d = Src THEN {}
                 ELSE {data[b] : b \in Range(rxQueue)}
                        \cup (IF txPc \in {"get", "enqueue"} THEN {sent} ELSE {})],
  passedUp <- [d \in {Src, Dst} |-> IF d = Dst THEN rcvd ELSE <<>>]

ImplementsLink == Link!Spec

(* PollEnds: a scheduled poll comes to an end and unmasks the interrupt,   *)
(* unless the lock of Src's pool was leaked.                               *)
PollEnds == (napi # "off") ~> (napi = "off" \/ srcLockLeaked)
=============================================================================
