----------------------------- MODULE SnullLife ------------------------------
(***************************************************************************)
(* snull/snull_3dec2020.c in NAPI mode: loading and unloading the module,  *)
(* opening and closing the two interfaces, with frames going both ways.    *)
(*                                                                         *)
(* Frames do not differ here, and a buffer in the receive queue of one     *)
(* interface always comes from the pool of the other, so pool and queue    *)
(* are counts.  Transmitting a frame is one step, and so is one call of    *)
(* the poll (SnullNapi has the steps inside them).  No transmit interrupt  *)
(* is dropped on purpose.                                                  *)
(***************************************************************************)
EXTENDS Integers, FiniteSets, FiniteSetsExt

CONSTANTS
  PoolSize,    (* pool_size                                                *)
  Budget,      (* the weight given to netif_napi_add: 2                    *)
  MaxFrame,    (* bound: frames that are sent                              *)
  MaxTimeout,  (* bound: watchdog expirations                              *)
  MaxOpen,     (* bound: how often interfaces are opened                   *)
  MaxLoad      (* bound: how often the module is loaded                    *)

ASSUME LifeAssumption ==
  /\ {PoolSize, Budget} \subseteq Nat \ {0}
  /\ {MaxFrame, MaxTimeout, MaxOpen, MaxLoad} \subseteq Nat

(* snull_devs[0] and snull_devs[1].                                        *)
Dev == 1..2
Peer(d) == 3 - d

VARIABLES
  mod, idx,   (* the module is "out", "in", or inside snull_init_module    *)
              (* ("allocate", "register") or snull_cleanup ("cleanup") at  *)
              (* interface idx                                             *)
  st,         (* st[d]: "null", "allocated", "registered" or "freed"       *)
  up,         (* up[d]: "down", "up", or "closing": waiting in napi_disable*)
  stopped,    (* netif_queue_stopped(d)                                    *)
  napi,       (* napi[d]: "disabled", "off" or "scheduled"                 *)
  rxInt,      (* rxInt[d]: rx_int_enabled                                  *)
  pool,       (* the number of buffers in the pool of d                    *)
  queue,      (* the number of buffers in the receive queue of d           *)
  leaked,     (* the interfaces whose lock snull_get_tx_buffer kept        *)
  hung,       (* the interfaces whose next transmission spins on it        *)
  stray,      (* history: the interfaces that touched freed memory         *)
  lost,       (* history: buffers that nobody freed                        *)
  missed,     (* history: interfaces that were sent a frame, or had        *)
              (* frames waiting, while their NAPI was disabled             *)
  emptyStart, (* history: interfaces whose queue was started with an empty *)
              (* pool                                                      *)
  frames, timeouts, opens, loads  (* history: counts for the bounds        *)

modVars  == <<mod, idx, st>>
netVars  == <<up, stopped, napi, rxInt>>
bufVars  == <<pool, queue, leaked, hung>>
histVars == <<stray, lost, missed, emptyStart>>
counts   == <<frames, timeouts, opens, loads>>
vars     == <<modVars, netVars, bufVars, histVars, counts>>

All(v) == [d \in Dev |-> v]

Init ==
  /\ mod = "out" /\ idx = 1 /\ st = All("null")
  /\ up = All("down") /\ stopped = All(TRUE) /\ napi = All("disabled")
  /\ rxInt = All(FALSE) /\ pool = All(0) /\ queue = All(0)
  /\ leaked = {} /\ hung = {} /\ stray = {} /\ lost = 0
  /\ missed = {} /\ emptyStart = {}
  /\ frames = 0 /\ timeouts = 0 /\ opens = 0 /\ loads = 0

-----------------------------------------------------------------------------
(* snull_init_module: both interfaces are allocated, with as many buffers  *)
(* as kmalloc yields, and then registered; one that cannot be registered   *)
(* is enough to go on with.                                                *)
Load ==
  /\ mod = "out" /\ loads < MaxLoad
  /\ loads' = loads + 1
  /\ mod' = "allocate" /\ idx' = 1 /\ st' = All("null")
  /\ stopped' = All(TRUE)
  /\ leaked' = {} /\ hung' = {}
  /\ lost' = 0 /\ missed' = {} /\ emptyStart' = {}
  /\ UNCHANGED <<up, napi, rxInt, pool, queue, stray, frames, timeouts, opens>>

Allocate(ok, n) ==
  /\ mod = "allocate"
  /\ st' = [st EXCEPT ![idx] = IF ok THEN "allocated" ELSE "null"]
  /\ pool' = [pool EXCEPT ![idx] = IF ok THEN n ELSE 0]
  /\ rxInt' = [rxInt EXCEPT ![idx] = ok]
  /\ mod' = CASE idx = 1 -> "allocate"
              [] idx = 2 /\ "null" \in {st'[d] : d \in Dev} -> "cleanup"
              [] OTHER -> "register"
  /\ idx' = Peer(idx)
  /\ UNCHANGED <<up, stopped, napi, queue, leaked, hung, histVars, counts>>

Register(ok) ==
  /\ mod = "register"
  /\ st' = [st EXCEPT ![idx] = IF ok THEN "registered" ELSE @]
  /\ mod' = CASE idx = 1 -> "register"
              [] idx = 2 /\ "registered" \in {st'[d] : d \in Dev} -> "in"
              [] OTHER -> "cleanup"
  /\ idx' = Peer(idx)
  /\ UNCHANGED <<netVars, bufVars, histVars, counts>>

Unload ==
  /\ mod = "in"
  /\ mod' = "cleanup" /\ idx' = 1
  /\ UNCHANGED <<st, netVars, bufVars, histVars, counts>>

-----------------------------------------------------------------------------
(* snull_open and snull_release.  napi_disable waits until the poll is     *)
(* over; from then on napi_schedule has no effect.                         *)
Open(d) ==
  /\ st[d] = "registered" /\ up[d] = "down" /\ ~(mod = "cleanup" /\ idx = d)
  /\ opens < MaxOpen
  /\ opens' = opens + 1
  /\ up' = [up EXCEPT ![d] = "up"] /\ napi' = [napi EXCEPT ![d] = "off"]
  /\ stopped' = [stopped EXCEPT ![d] = FALSE]
  /\ emptyStart' = IF pool[d] = 0 THEN emptyStart \cup {d} ELSE emptyStart
  /\ UNCHANGED <<modVars, rxInt, bufVars, stray, lost, missed, frames,
                 timeouts, loads>>

Close(d) ==
  /\ up[d] = "up" /\ d \notin hung
  /\ up' = [up EXCEPT ![d] = "closing"]
  /\ stopped' = [stopped EXCEPT ![d] = TRUE]
  /\ UNCHANGED <<modVars, napi, rxInt, bufVars, histVars, counts>>

EndClose(d) ==
  /\ up[d] = "closing" /\ napi[d] = "off"
  /\ up' = [up EXCEPT ![d] = "down"]
  /\ napi' = [napi EXCEPT ![d] = "disabled"]
  /\ UNCHANGED <<modVars, stopped, rxInt, bufVars, histVars, counts>>

(* snull_cleanup, one interface after the other: unregister_netdev closes  *)
(* it, then the pool, but not the receive queue, and the interface go.     *)
FreesAtOnce(d) == TRUE
Unregistered(d) == up[d] = "down"

Cleanup ==
  /\ mod = "cleanup"
  /\ Unregistered(idx)
  /\ st' = [st EXCEPT ![idx] = IF @ = "null" THEN @ ELSE "freed"]
  /\ pool' = [pool EXCEPT ![idx] = 0] /\ queue' = [queue EXCEPT ![idx] = 0]
  /\ lost' = lost + queue[idx]
  /\ mod' = IF idx = 1 THEN "cleanup" ELSE "out"
  /\ idx' = Peer(idx)
  /\ UNCHANGED <<netVars, leaked, hung, stray, missed, emptyStart, counts>>

-----------------------------------------------------------------------------
Touches(d) == IF "freed" \in {st[d], st[Peer(d)]} THEN {d} ELSE {}

(* snull_tx: a buffer is taken from the pool, the queue is stopped with    *)
(* the last one, the buffer is put into the peer's receive queue, whether  *)
(* the peer is open or not, and its interrupt masks itself and schedules   *)
(* the poll, if NAPI is enabled.                                           *)
StopsLate(left) == FALSE
StopsQueue(left) == left = 0

CanSend(d) ==
  up[d] = "up" /\ ~stopped[d] /\ d \notin leaked /\ frames < MaxFrame

Listens(d) == napi[d] # "disabled" /\ up[d] # "closing"

KeepsMaskOpen(d) == rxInt
MaskedBy(d) == [rxInt EXCEPT ![d] = FALSE]

Xmit(d) ==
  LET p == Peer(d) IN
  /\ CanSend(d) /\ pool[d] > 0 /\ p \notin leaked
  /\ frames' = frames + 1
  /\ pool' = [pool EXCEPT ![d] = @ - 1]
  /\ stopped' = [stopped EXCEPT ![d] = StopsQueue(pool[d] - 1)]
  /\ stray' = stray \cup Touches(d)
  /\ queue' = [queue EXCEPT ![p] = IF st[p] = "freed" THEN 0 ELSE @ + 1]
  /\ rxInt' = MaskedBy(p)
  /\ napi' = [napi EXCEPT ![p] =
                IF Listens(p) /\ rxInt[p] THEN "scheduled" ELSE @]
  /\ missed' = IF Listens(p) THEN missed ELSE missed \cup {p}
  /\ UNCHANGED <<modVars, up, leaked, hung, lost, emptyStart, timeouts, opens,
                 loads>>

(* The pool is empty: snull_get_tx_buffer returns with the lock held, and  *)
(* the next transmission, in either direction, waits for it for ever.      *)
OutOfPool(d) ==
  /\ CanSend(d) /\ pool[d] = 0
  /\ frames' = frames + 1
  /\ leaked' = leaked \cup {d}
  /\ UNCHANGED <<modVars, netVars, pool, queue, hung, histVars, timeouts,
                 opens, loads>>

Spin(d) ==
  /\ up[d] = "up" /\ ~stopped[d] /\ d \notin hung
  /\ d \in leaked \/ (Peer(d) \in leaked /\ pool[d] > 0)
  /\ hung' = hung \cup {d}
  /\ UNCHANGED <<modVars, netVars, pool, queue, leaked, histVars, counts>>

(* snull_poll, called by the kernel: up to Budget frames are passed up,    *)
(* their buffers go back to the peer's pool, whose queue is woken with the *)
(* first one.  With fewer frames than that the poll is over and interrupts *)
(* are unmasked.  Otherwise it stays scheduled, except that the kernel     *)
(* ends it, without the driver, when napi_disable waits.                   *)
CompletesEarly(n) == n <= Budget
Completes(n) == n < Budget

Poll(d) ==
  LET p == Peer(d)
      n == Min({Budget, queue[d]})
      cut == ~Completes(n) /\ up[d] = "closing" IN
  /\ napi[d] = "scheduled" /\ d \notin leaked
  /\ n > 0 => p \notin leaked
  /\ queue' = [queue EXCEPT ![d] = @ - n]
  /\ pool' = [pool EXCEPT ![p] = IF st[p] = "freed" THEN 0 ELSE @ + n]
  /\ stray' = IF n > 0 THEN stray \cup Touches(d) ELSE stray
  /\ stopped' = [stopped EXCEPT ![p] = @ /\ ~(n > 0 /\ pool[p] = 0)]
  /\ napi' = [napi EXCEPT ![d] = IF Completes(n) \/ cut THEN "off" ELSE @]
  /\ rxInt' = [rxInt EXCEPT ![d] = @ \/ Completes(n)]
  /\ missed' = IF cut THEN missed \cup {d} ELSE missed
  /\ UNCHANGED <<modVars, up, leaked, hung, lost, emptyStart, counts>>

(* snull_tx_timeout: the pool is replaced and the queue woken.             *)
TxTimeout(d, n) ==
  /\ up[d] = "up" /\ stopped[d] /\ d \notin leaked
  /\ timeouts < MaxTimeout
  /\ timeouts' = timeouts + 1
  /\ pool' = [pool EXCEPT ![d] = n]
  /\ stopped' = [stopped EXCEPT ![d] = FALSE]
  /\ emptyStart' = IF n = 0 THEN emptyStart \cup {d} ELSE emptyStart
  /\ UNCHANGED <<modVars, up, napi, rxInt, queue, leaked, hung, stray, lost,
                 missed, frames, opens, loads>>

-----------------------------------------------------------------------------
Next ==
  \/ Load \/ Unload \/ Cleanup
  \/ \E n \in 0..PoolSize, ok \in BOOLEAN : Allocate(ok, n)
  \/ \E ok \in BOOLEAN : Register(ok)
  \/ \E d \in Dev :
       \/ Open(d) \/ Close(d) \/ EndClose(d)
       \/ Xmit(d) \/ OutOfPool(d) \/ Spin(d) \/ Poll(d)
       \/ \E n \in 0..PoolSize : TxTimeout(d, n)

Spec == Init /\ [][Next]_vars

-----------------------------------------------------------------------------
(* HearsWhileUp: an interface that is up and has no poll scheduled has its *)
(* receive interrupt enabled, and one with a poll has it masked, through   *)
(* any sequence of loads, opens and closes, as long as no frame met it     *)
(* while its NAPI was disabled.  (Such a frame masks the interrupt and     *)
(* schedules nothing; the interface is deaf from then on, also when it is  *)
(* opened again.)                                                          *)
HearsWhileUp ==
  \A d \in Dev \ missed :
    up[d] = "up" => (rxInt[d] <=> napi[d] = "off")

(* LockKept: the pool runs empty behind a running queue, so that           *)
(* snull_get_tx_buffer leaves the lock held, only for an interface whose   *)
(* queue open or the watchdog started with an empty pool.                  *)
LockKept == leaked \subseteq emptyStart

(* FirstStaysClear: however unloading falls together with traffic, the     *)
(* first interface never touches freed memory; only the second one can,    *)
(* because it stays open for a while when the first is gone.               *)
FirstStaysClear == 1 \notin stray

(* UnloadFreesAll: when the module is out, every buffer that was allocated *)
(* has been freed, unless a frame met an interface whose NAPI was          *)
(* disabled; that the second interface used the freed first one is not     *)
(* enough to lose a buffer.                                                *)
UnloadFreesAll == mod = "out" => lost = 0 \/ missed # {}
=============================================================================
