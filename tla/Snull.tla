------------------------------- MODULE Snull -------------------------------
(***************************************************************************)
(* The pair of loopback network interfaces of snull/snull_anuz.c in its    *)
(* default, interrupt-driven mode (use_napi = 0).                          *)
(*                                                                         *)
(* Every interface d owns a pool of packet buffers.  Transmitting on d     *)
(* takes a buffer from d's pool, links it into the receive queue of the    *)
(* other interface, raises the RX bit of that interface's status word and  *)
(* calls its interrupt handler; then it raises its own TX bit and calls    *)
(* its own handler, which frees the socket buffer.  The "interrupts" are   *)
(* plain calls, so the handlers of one interface run in the contexts of    *)
(* both.                                                                   *)
(*                                                                         *)
(* The kernel serialises snull_tx and snull_tx_timeout of one interface    *)
(* under its transmit lock, so there is one context per interface; the     *)
(* contexts of the two interfaces run on different CPUs.  Accesses made    *)
(* under priv->lock are one step; every unlocked access to shared memory   *)
(* (the status word, the queue state, pkt->next) is a step of its own.     *)
(* Memory is sequentially consistent.                                      *)
(***************************************************************************)
EXTENDS Integers, Sequences, Functions

CONSTANTS
  Dev,       (* the interfaces: snull_devs                                 *)
  Peer,      (* Peer[d] is the interface at the other end of d             *)
  PoolSize,  (* PoolSize[d]: buffers that snull_setup_pool got for d       *)
  Lockup,    (* the lockup parameter: 0, or lose every Lockup'th TX event  *)
  Senders,   (* interfaces that the stack transmits on                     *)
  Closers,   (* interfaces that an administrator may take down             *)
  MaxPkt,    (* bound: frames offered to each sender                       *)
  None       (* NULL, and the holder of a free lock                        *)

ASSUME DevAssumption ==
  /\ Peer \in [Dev -> Dev]
  /\ \A d \in Dev : Peer[d] # d /\ Peer[Peer[d]] = d

ASSUME ParamAssumption ==
  /\ PoolSize \in [Dev -> Nat \ {0}]
  /\ Lockup \in Nat
  /\ MaxPkt \in Nat
  /\ Senders \subseteq Dev
  /\ Closers \subseteq Dev

VARIABLES
  ppool,    (* ppool[d]: the free list of d, head first                    *)
  rxQueue,  (* rxQueue[d]: the list of frames that arrived at d            *)
  next,     (* next[b]: the link field of buffer b                         *)
  data,     (* data[b]: the frame that was last copied into b              *)
  status,   (* status[d]: the interrupt status word                        *)
  skb,      (* skb[d]: the socket buffer that d remembers, 0 for NULL      *)
  stats,    (* stats[d]: the statistics the properties use                 *)
  stopped,  (* the interfaces with netif_queue_stopped                     *)
  up,       (* the interfaces that are open                                *)
  lock,     (* lock[d]: the context that holds d's spinlock, or None       *)
  pc,       (* pc[c]: where the context of c is                            *)
  reg,      (* reg[c]: a status word that c has loaded                     *)
  irq,      (* irq[c]: the interface whose handler c runs                  *)
  ret,      (* ret[c]: where c continues after the handler                 *)
  pkt,      (* pkt[c]: the buffer that c has a pointer to                  *)
  sent,     (* history: the number of frames that were handed to d         *)
  rcvd,     (* history: the frames that d passed up with netif_rx          *)
  freed     (* history: freed[d][k] counts dev_kfree_skb of d's k'th frame *)

devVars  == <<ppool, rxQueue, next, data, status, skb, stats, stopped, up>>
ctxVars  == <<lock, pc, reg, irq, ret, pkt>>
histVars == <<sent, rcvd, freed>>
vars     == <<devVars, ctxVars, histVars>>

-----------------------------------------------------------------------------
(* A buffer is named by the interface that owns it (pkt->dev) and its     *)
(* number in the order of allocation.                                     *)
Buf      == UNION {{d} \X (1..PoolSize[d]) : d \in Dev}
Owner(b) == b[1]

ASSUME NoneAssumption == None \notin Dev \cup Buf

RX == "RX"   (* SNULL_RX_INTR *)
TX == "TX"   (* SNULL_TX_INTR *)

(* Program points.  "oops" is a NULL dereference: the kernel panics.      *)
PC == {"idle", "get", "enqueue", "loadRx", "storeRx", "loadTx", "storeTx",
       "lockup", "intr", "serve", "release", "ifStopped", "ifNext", "wake",
       "recover", "oops"}

(* c is at l, and the machine has not panicked.                           *)
At(c, l)   == pc[c] = l /\ \A e \in Dev : pc[e] # "oops"
GoTo(c, l) == pc' = [pc EXCEPT ![c] = l]

(* The lists are singly linked and used from the head only.               *)
PushAtTail(list, b) == Append(list, b)
Push(list, b) == <<b>> \o list
First(list)   == IF list = <<>> THEN None ELSE Head(list)

-----------------------------------------------------------------------------
(* snull_setup_pool: the buffer that was allocated last is the head of    *)
(* the pool and linked to the one before.                                 *)
SetupPool(d) == [i \in 1..PoolSize[d] |-> <<d, PoolSize[d] + 1 - i>>]
LinkSetUp(b) == IF b[2] = 1 THEN None ELSE <<b[1], b[2] - 1>>

(* snull_setup: the interfaces are not open yet.                          *)
Init ==
  /\ ppool   = [d \in Dev |-> SetupPool(d)]
  /\ rxQueue = [d \in Dev |-> <<>>]
  /\ next    = [b \in Buf |-> LinkSetUp(b)]
  /\ data    = [b \in Buf |-> 0]
  /\ status  = [d \in Dev |-> {}]
  /\ skb     = [d \in Dev |-> 0]
  /\ stats   = [d \in Dev |-> [txPackets |-> 0, txErrors |-> 0,
                               rxPackets |-> 0, rxDropped |-> 0]]
  /\ stopped = {}
  /\ up      = {}
  /\ lock    = [d \in Dev |-> None]
  /\ pc      = [c \in Dev |-> "idle"]
  /\ reg     = [c \in Dev |-> {}]
  /\ irq     = [c \in Dev |-> c]
  /\ ret     = [c \in Dev |-> "idle"]
  /\ pkt     = [c \in Dev |-> None]
  /\ sent    = [d \in Dev |-> 0]
  /\ rcvd    = [d \in Dev |-> <<>>]
  /\ freed   = [d \in Dev |-> [k \in 1..MaxPkt |-> 0]]

(* snull_open and snull_release.  dev_close waits until the transmit      *)
(* path and the watchdog of the interface are quiet.                      *)
Open(d) ==
  /\ At(d, "idle")
  /\ d \notin up
  /\ up' = up \cup {d}
  /\ stopped' = stopped \ {d}
  /\ UNCHANGED <<ppool, rxQueue, next, data, status, skb, stats, ctxVars,
                 histVars>>

Release(d) ==
  /\ d \in Closers
  /\ At(d, "idle")
  /\ d \in up
  /\ up' = up \ {d}
  /\ stopped' = stopped \cup {d}
  /\ UNCHANGED <<ppool, rxQueue, next, data, status, skb, stats, ctxVars,
                 histVars>>

-----------------------------------------------------------------------------
(* The transmit path: snull_tx, and snull_hw_tx step by step.  snull_tx   *)
(* pads a short frame to ETH_ZLEN, so the length test of snull_hw_tx      *)
(* never fails.                                                           *)
Xmit(c) ==
  /\ At(c, "idle")
  /\ c \in Senders
  /\ c \in up \ stopped
  /\ sent[c] < MaxPkt
  /\ sent' = [sent EXCEPT ![c] = @ + 1]
  /\ skb'  = [skb EXCEPT ![c] = sent[c] + 1]
  /\ GoTo(c, "get")
  /\ UNCHANGED <<ppool, rxQueue, next, data, status, stats, stopped, up,
                 lock, reg, irq, ret, pkt, rcvd, freed>>

(* Taking the last buffer stops the queue.  The pool is not tested for    *)
(* emptiness before pkt->next is read.                                    *)
StopsQueue(pool) == Tail(pool) = <<>>

FrameCopied(c) == [data EXCEPT ![Head(ppool[c])] = sent[c]]

GetTxBuffer(c) ==
  /\ At(c, "get")
  /\ lock[c] = None
  /\ ppool[c] # <<>>
  /\ pkt'     = [pkt EXCEPT ![c] = Head(ppool[c])]
  /\ data'    = FrameCopied(c)
  /\ ppool'   = [ppool EXCEPT ![c] = Tail(@)]
  /\ stopped' = IF StopsQueue(ppool[c]) THEN stopped \cup {c} ELSE stopped
  /\ GoTo(c, "enqueue")
  /\ UNCHANGED <<rxQueue, next, status, skb, stats, up, lock, reg, irq, ret,
                 histVars>>

GetFromEmptyPool(c) ==
  /\ At(c, "get")
  /\ lock[c] = None
  /\ ppool[c] = <<>>
  /\ GoTo(c, "oops")
  /\ UNCHANGED <<devVars, lock, reg, irq, ret, pkt, histVars>>

EnqueueBuf(c) ==
  LET p == Peer[c] IN
  /\ At(c, "enqueue")
  /\ lock[p] = None
  /\ next'    = [next EXCEPT ![pkt[c]] = First(rxQueue[p])]
  /\ rxQueue' = [rxQueue EXCEPT ![p] = Push(@, pkt[c])]
  /\ GoTo(c, "loadRx")
  /\ UNCHANGED <<ppool, data, status, skb, stats, stopped, up, lock, reg,
                 irq, ret, pkt, histVars>>

(* priv->status |= SNULL_RX_INTR on the peer: an unlocked load and an     *)
(* unlocked store.  rx_int_enabled is constantly 1 in this mode.          *)
LoadRxStatus(c) ==
  /\ At(c, "loadRx")
  /\ reg' = [reg EXCEPT ![c] = status[Peer[c]]]
  /\ GoTo(c, "storeRx")
  /\ UNCHANGED <<devVars, lock, irq, ret, pkt, histVars>>

StoreRxStatus(c) ==
  /\ At(c, "storeRx")
  /\ status' = [status EXCEPT ![Peer[c]] = reg[c] \cup {RX}]
  /\ irq' = [irq EXCEPT ![c] = Peer[c]]
  /\ ret' = [ret EXCEPT ![c] = "loadTx"]
  /\ GoTo(c, "intr")
  /\ UNCHANGED <<ppool, rxQueue, next, data, skb, stats, stopped, up, lock,
                 reg, pkt, histVars>>

(* priv->status |= SNULL_TX_INTR on the transmitting interface.           *)
LoadTxStatus(c) ==
  /\ At(c, "loadTx")
  /\ reg' = [reg EXCEPT ![c] = status[c]]
  /\ GoTo(c, "storeTx")
  /\ UNCHANGED <<devVars, lock, irq, ret, pkt, histVars>>

StoreTxStatus(c) ==
  /\ At(c, "storeTx")
  /\ status' = [status EXCEPT ![c] = reg[c] \cup {TX}]
  /\ GoTo(c, "lockup")
  /\ UNCHANGED <<ppool, rxQueue, next, data, skb, stats, stopped, up, lock,
                 reg, irq, ret, pkt, histVars>>

(* Either the TX interrupt is lost and the queue stopped, or the handler  *)
(* of the transmitting interface is called.                               *)
LosesTxTooEarly(c) == Lockup # 0 /\ stats[c].txPackets % Lockup = 0
LosesTx(c) == Lockup # 0 /\ (stats[c].txPackets + 1) % Lockup = 0

InterruptAnyway(c) == "intr"
AfterLockupTest(c) == IF LosesTx(c) THEN "idle" ELSE "intr"

LockupOrInterrupt(c) ==
  /\ At(c, "lockup")
  /\ stopped' = IF LosesTx(c) THEN stopped \cup {c} ELSE stopped
  /\ irq' = [irq EXCEPT ![c] = c]
  /\ ret' = [ret EXCEPT ![c] = "idle"]
  /\ GoTo(c, AfterLockupTest(c))
  /\ UNCHANGED <<ppool, rxQueue, next, data, status, skb, stats, up, lock,
                 reg, pkt, histVars>>

-----------------------------------------------------------------------------
(* snull_regular_interrupt for irq[c], run by context c.  The status word *)
(* is read and cleared under the lock that its writers do not take.       *)
TakeInterrupt(c) ==
  LET d == irq[c] IN
  /\ At(c, "intr")
  /\ lock[d] = None
  /\ lock' = [lock EXCEPT ![d] = c]
  /\ reg'  = [reg EXCEPT ![c] = status[d]]
  /\ GoTo(c, "serve")
  /\ UNCHANGED <<devVars, irq, ret, pkt, histVars>>

(* snull_rx: ok is whether dev_alloc_skb succeeded.                       *)
RxStatsNoDrop(s, ok) == IF ok THEN [s EXCEPT !.rxPackets = @ + 1] ELSE s
RxStats(s, ok) == IF ok THEN [s EXCEPT !.rxPackets = @ + 1]
                        ELSE [s EXCEPT !.rxDropped = @ + 1]

(* One frame is unlinked per RX interrupt, however many are queued.       *)
NotUnlinked(list) == list
Unlinked(list) == Tail(list)

(* The buffer is released after the lock is dropped, if there was one.    *)
NeverRelease(c, rx) == ret[c]
AfterServe(c, rx) == IF rx THEN "release" ELSE ret[c]

ServeInterrupt(c, ok) ==
  LET d   == irq[c]
      rx  == RX \in reg[c] /\ rxQueue[d] # <<>>
      tx  == TX \in reg[c]
      rxS == IF rx THEN RxStats(stats[d], ok) ELSE stats[d]
  IN
  /\ At(c, "serve")
  /\ status'  = [status EXCEPT ![d] = {}]
  /\ rxQueue' = [rxQueue EXCEPT ![d] = IF rx THEN Unlinked(@) ELSE @]
  /\ pkt'     = [pkt EXCEPT ![c] = IF rx THEN Head(rxQueue[d]) ELSE None]
  /\ rcvd'    = [rcvd EXCEPT ![d] = IF rx /\ ok
                                    THEN Append(@, data[Head(rxQueue[d])])
                                    ELSE @]
  /\ stats'   = [stats EXCEPT ![d] = IF tx
                                     THEN [rxS EXCEPT !.txPackets = @ + 1]
                                     ELSE rxS]
  /\ freed'   = [freed EXCEPT ![d] =
                   [k \in 1..MaxPkt |-> IF tx /\ k = skb[d]
                                        THEN freed[d][k] + 1
                                        ELSE freed[d][k]]]
  /\ lock'    = [lock EXCEPT ![d] = None]
  /\ GoTo(c, AfterServe(c, rx))
  /\ UNCHANGED <<ppool, next, data, skb, stopped, up, reg, irq, ret, sent>>

(* snull_release_buffer: the push is locked, the tests that decide on     *)
(* waking the owner's queue are not.                                      *)
ReleaseBuffer(c) ==
  LET d == Owner(pkt[c]) IN
  /\ At(c, "release")
  /\ lock[d] = None
  /\ next'  = [next EXCEPT ![pkt[c]] = First(ppool[d])]
  /\ ppool' = [ppool EXCEPT ![d] = Push(@, pkt[c])]
  /\ GoTo(c, "ifStopped")
  /\ UNCHANGED <<rxQueue, data, status, skb, stats, stopped, up, lock, reg,
                 irq, ret, pkt, histVars>>

TestStopped(c) ==
  /\ At(c, "ifStopped")
  /\ GoTo(c, IF Owner(pkt[c]) \in stopped THEN "ifNext" ELSE ret[c])
  /\ UNCHANGED <<devVars, lock, reg, irq, ret, pkt, histVars>>

TestNext(c) ==
  /\ At(c, "ifNext")
  /\ GoTo(c, IF next[pkt[c]] = None THEN "wake" ELSE ret[c])
  /\ UNCHANGED <<devVars, lock, reg, irq, ret, pkt, histVars>>

WakeOwner(c) ==
  /\ At(c, "wake")
  /\ stopped' = stopped \ {Owner(pkt[c])}
  /\ GoTo(c, ret[c])
  /\ UNCHANGED <<ppool, rxQueue, next, data, status, skb, stats, up, lock,
                 reg, irq, ret, pkt, histVars>>

-----------------------------------------------------------------------------
(* snull_tx_timeout: the kernel's watchdog calls it some time after the   *)
(* queue of an open interface was stopped.  It overwrites the status word.*)
LostBitNotRaised == {}
TimeoutStatus == {TX}

TimesOut(c) == c \in up \cap stopped

TxTimeout(c) ==
  /\ At(c, "idle")
  /\ TimesOut(c)
  /\ status' = [status EXCEPT ![c] = TimeoutStatus]
  /\ irq' = [irq EXCEPT ![c] = c]
  /\ ret' = [ret EXCEPT ![c] = "recover"]
  /\ GoTo(c, "intr")
  /\ UNCHANGED <<ppool, rxQueue, next, data, skb, stats, stopped, up, lock,
                 reg, pkt, histVars>>

EndTimeout(c) ==
  /\ At(c, "recover")
  /\ stats' = [stats EXCEPT ![c].txErrors = @ + 1]
  /\ stopped' = stopped \ {c}
  /\ GoTo(c, "idle")
  /\ UNCHANGED <<ppool, rxQueue, next, data, status, skb, up, lock, reg, irq,
                 ret, pkt, histVars>>

-----------------------------------------------------------------------------
(* The steps that a context takes once it runs.                           *)
Run(c) ==
  \/ GetTxBuffer(c) \/ GetFromEmptyPool(c) \/ EnqueueBuf(c)
  \/ LoadRxStatus(c) \/ StoreRxStatus(c)
  \/ LoadTxStatus(c) \/ StoreTxStatus(c) \/ LockupOrInterrupt(c)
  \/ TakeInterrupt(c) \/ \E ok \in BOOLEAN : ServeInterrupt(c, ok)
  \/ ReleaseBuffer(c) \/ TestStopped(c) \/ TestNext(c) \/ WakeOwner(c)
  \/ EndTimeout(c)

(* All offered frames were taken and nothing is left to do, or the kernel *)
(* has panicked.                                                          *)
Halt ==
  /\ \/ /\ \A c \in Dev : pc[c] = "idle" /\ c \in up \ stopped
        /\ \A c \in Senders : sent[c] = MaxPkt
     \/ \E c \in Dev : pc[c] = "oops"
  /\ UNCHANGED vars

Next ==
  \/ \E d \in Dev : Open(d) \/ Release(d) \/ Xmit(d) \/ TxTimeout(d) \/ Run(d)
  \/ Halt

Spec == Init /\ [][Next]_vars

(* A context that runs keeps running (it has a CPU and spinlocks are      *)
(* fair), and the watchdog timer of a stopped queue expires.              *)
Fairness == \A c \in Dev : WF_vars(Run(c)) /\ WF_vars(TxTimeout(c))

FairSpec == Spec /\ Fairness

-----------------------------------------------------------------------------
(* TypeOK: every variable keeps its shape; in particular both lists hold  *)
(* buffers only, and a context that is about to follow pkt->dev or        *)
(* pkt->next has a buffer to follow.                                      *)
HasBuf == {"enqueue", "release", "ifStopped", "ifNext", "wake"}

TypeOK ==
  /\ ppool \in [Dev -> Seq(Buf)]
  /\ rxQueue \in [Dev -> Seq(Buf)]
  /\ next \in [Buf -> Buf \cup {None}]
  /\ data \in [Buf -> Nat]
  /\ status \in [Dev -> SUBSET {RX, TX}]
  /\ skb \in [Dev -> Nat]
  /\ stats \in [Dev -> [txPackets : Nat, txErrors : Nat,
                        rxPackets : Nat, rxDropped : Nat]]
  /\ stopped \subseteq Dev
  /\ up \subseteq Dev
  /\ lock \in [Dev -> Dev \cup {None}]
  /\ pc \in [Dev -> PC]
  /\ reg \in [Dev -> SUBSET {RX, TX}]
  /\ irq \in [Dev -> Dev]
  /\ ret \in [Dev -> {"idle", "loadTx", "recover"}]
  /\ pkt \in [Dev -> Buf \cup {None}]
  /\ \A c \in Dev : pc[c] \in HasBuf => pkt[c] \in Buf
  /\ sent \in [Dev -> Nat]
  /\ rcvd \in [Dev -> Seq(Nat)]
  /\ freed \in [Dev -> [1..MaxPkt -> Nat]]

(* BufferConservation: whatever the two contexts do, a packet buffer is   *)
(* in exactly one place: in its owner's pool, in the receive queue of the *)
(* owner's peer, or in the hands of one context that took it from one     *)
(* list and has not linked it into the other yet.  No buffer is lost,     *)
(* linked twice or linked into a foreign list, although status words are  *)
(* updated without a lock and interrupts get lost.                        *)
Holds(c, b) == pc[c] \in {"enqueue", "release"} /\ pkt[c] = b
InPool(b)   == b \in Range(ppool[Owner(b)])
InQueue(b)  == b \in Range(rxQueue[Peer[Owner(b)]])

BufferConservation ==
  /\ \A d \in Dev :
       /\ IsInjective(ppool[d])
       /\ IsInjective(rxQueue[d])
       /\ \A b \in Range(ppool[d]) : Owner(b) = d
       /\ \A b \in Range(rxQueue[d]) : Owner(b) = Peer[d]
  /\ \A b \in Buf :
       /\ InPool(b) \/ InQueue(b) \/ \E c \in Dev : Holds(c, b)
       /\ ~(InPool(b) /\ InQueue(b))
       /\ \A c \in Dev : Holds(c, b) =>
            /\ ~InPool(b) /\ ~InQueue(b)
            /\ \A e \in Dev : Holds(e, b) => e = c

(* LinksMatchLists: the next fields describe exactly the lists that the   *)
(* model keeps as sequences: following next from ppool or rx_queue visits *)
(* the members in order and ends in NULL.  An unlocked or misplaced       *)
(* pointer update would make a list lose its tail or loop.                *)
Linked(list) ==
  \A i \in 1..Len(list) :
    next[list[i]] = IF i = Len(list) THEN None ELSE list[i + 1]

LinksMatchLists == \A d \in Dev : Linked(ppool[d]) /\ Linked(rxQueue[d])

(* FramesAccounted: a frame that was handed to snull_tx is in the peer's  *)
(* queue, was counted by the peer as received or dropped, or is still     *)
(* being transmitted; what was counted as received was passed up.         *)
BeingSent(c) == pc[c] \in {"get", "enqueue", "oops"}

FramesAccounted ==
  \A d \in Dev :
    /\ sent[Peer[d]] = stats[d].rxPackets + stats[d].rxDropped
                       + Len(rxQueue[d]) + (IF BeingSent(Peer[d]) THEN 1 ELSE 0)
    /\ stats[d].rxPackets = Len(rcvd[d])

(* The pair implements the abstract link: a frame is in flight from the   *)
(* call of snull_tx until snull_rx has passed it up or dropped it.        *)
Carried(d) ==
  {data[b] : b \in Range(rxQueue[d])}
    \cup (IF BeingSent(Peer[d]) THEN {sent[Peer[d]]} ELSE {})

Link == INSTANCE LossyLink WITH
          accepted <- sent,
          inFlight <- [d \in Dev |-> Carried(d)],
          passedUp <- rcvd

(* ImplementsLink: every step of the driver is a step of LossyLink or     *)
(* none: frames are never duplicated, altered or sent back.               *)
ImplementsLink == Link!Spec

-----------------------------------------------------------------------------
(* Properties of traffic in one direction, with simulated lockups.        *)

(* NoPanic: snull_get_tx_buffer never dereferences an empty pool.         *)
NoPanic == \A c \in Dev : pc[c] # "oops"

(* SkbFreedOnce: the socket buffer that snull_tx remembers is freed by    *)
(* the interrupt of its own transmission and by no other.                 *)
SkbFreedOnce == \A d \in Dev : \A k \in 1..MaxPkt : freed[d][k] <= 1

(* RestIsClean: when the queue runs and no transmission is in progress,   *)
(* all socket buffers were freed, all buffers are back in the pool, and   *)
(* every lost interrupt was noticed by the watchdog and counted once.     *)
RestIsClean ==
  \A d \in Dev : pc[d] = "idle" /\ d \in up \ stopped =>
    /\ \A k \in 1..sent[d] : freed[d][k] = 1
    /\ Len(ppool[d]) = PoolSize[d]
    /\ stats[d].txPackets = sent[d]
    /\ stats[d].txErrors = IF Lockup = 0 THEN 0 ELSE sent[d] \div Lockup

(* EveryFrameCompletes: the socket buffer of each frame that the driver   *)
(* accepted is eventually given back.                                     *)
EveryFrameCompletes ==
  \A d \in Dev : \A k \in 1..MaxPkt : sent[d] = k ~> freed[d][k] = 1
=============================================================================
