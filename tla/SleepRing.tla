----------------------------- MODULE SleepRing -----------------------------
(***************************************************************************)
(* wait_int_dev/sleep_module.c: a key whose interrupt handler appends one  *)
(* event per edge to a ring of MAX_KEY_STATES characters, and a reader     *)
(* that sleeps in read() until the ring is not empty.                      *)
(*                                                                         *)
(* The handler and the reader run on different CPUs and share the ring and *)
(* its two indices without a lock.  Every access to them is a step; the    *)
(* handler's stores to the ring and to buf_wr, which the compiler may      *)
(* exchange, are done in either order.  One process reads.                 *)
(*                                                                         *)
(* The ring and its indices are static and outlive the binding of the      *)
(* driver to its device; the wait queue is part of the private data, which *)
(* the driver core frees after removal even if the file is still open.     *)
(***************************************************************************)
EXTENDS Integers, Sequences

CONSTANTS
  Size,      (* MAX_KEY_STATES: 256                                        *)
  MaxEdges,  (* bound: edges of the key                                    *)
  MaxReads,  (* bound: characters read                                     *)
  MaxBind    (* bound: probes                                              *)

ASSUME SleepRingAssumption ==
  Size \in Nat \ {0, 1} /\ {MaxEdges, MaxReads, MaxBind} \subseteq Nat

VARIABLES
  ring,      (* hello_keys_buf                                             *)
  bufRd,     (* buf_rd                                                     *)
  bufWr,     (* buf_wr                                                     *)
  isr,       (* how far the handler is                                     *)
  slot, val, (* the handler's old buf_wr and the value of the key          *)
  reader,    (* how far my_dev_read is                                     *)
  onQueue,   (* the reader is on the wait queue                            *)
  ch,        (* the character that the reader copies to its caller         *)
  bind,      (* the driver is "unbound", has only its interrupt ("irq"),   *)
             (* is "bound", or its resources are being freed ("release")   *)
  file,      (* the reader's file: "closed", "open", or "stale" once the   *)
             (* private data behind it is freed                            *)
  binds,     (* history: the number of probes                              *)
  edges,     (* history: the values of the key at the interrupts, in order *)
  got,       (* history: the characters returned by read()                 *)
  clean      (* history: no event overran the ring, and no read met the    *)
             (* handler between its stores                                 *)

isrVars  == <<isr, slot, val>>
readVars == <<reader, onQueue, ch>>
histVars == <<edges, got, clean>>
bindVars == <<bind, file, binds>>
vars     == <<ring, bufRd, bufWr, isrVars, readVars, bindVars, histVars>>

Key == {"P", "R"}

Init ==
  /\ ring = [i \in 0..(Size - 1) |-> "none"]
  /\ bufRd = 0 /\ bufWr = 0
  /\ isr = "idle" /\ slot = 0 /\ val = "R"
  /\ reader = "out" /\ onQueue = FALSE /\ ch = "none"
  /\ bind = "unbound" /\ file = "closed" /\ binds = 0
  /\ edges = <<>> /\ got = <<>> /\ clean = TRUE

-----------------------------------------------------------------------------
(* my_probe up to the interrupt, which may come before misc_register.      *)
Probe ==
  /\ bind = "unbound" /\ binds < MaxBind
  /\ binds' = binds + 1
  /\ bind' = "irq"
  /\ UNCHANGED <<ring, bufRd, bufWr, isrVars, readVars, file, histVars>>

(* No memory, no pin or no interrupt: nothing is left.                     *)
FailToProbe ==
  /\ bind = "unbound" /\ binds < MaxBind
  /\ binds' = binds + 1
  /\ UNCHANGED <<ring, bufRd, bufWr, isrVars, readVars, bind, file, histVars>>

MiscRegister(ok) ==
  /\ bind = "irq"
  /\ bind' = IF ok THEN "bound" ELSE "release"
  /\ UNCHANGED <<ring, bufRd, bufWr, isrVars, readVars, file, binds, histVars>>

(* my_remove: the file cannot be opened any more, but stays open.          *)
Remove ==
  /\ bind = "bound"
  /\ bind' = "release"
  /\ UNCHANGED <<ring, bufRd, bufWr, isrVars, readVars, file, binds, histVars>>

(* The driver core frees the interrupt, which waits for the handler, and   *)
(* then the private data.                                                  *)
DevresRelease ==
  /\ bind = "release" /\ isr = "idle"
  /\ bind' = "unbound"
  /\ file' = IF file = "open" THEN "stale" ELSE file
  /\ UNCHANGED <<ring, bufRd, bufWr, isrVars, readVars, binds, histVars>>

-----------------------------------------------------------------------------
(* hello_keys_isr: the key's value, the two stores, the wrap, the wake-up. *)
Backlog == Len(edges) - Len(got) + (IF reader = "advance" THEN 1 ELSE 0)

Edge(v) ==
  /\ bind # "unbound" /\ isr = "idle" /\ Len(edges) < MaxEdges
  /\ clean' = (clean /\ Backlog < Size - 1)
  /\ edges' = Append(edges, v)
  /\ val' = v /\ slot' = bufWr
  /\ isr' = "both"
  /\ UNCHANGED <<ring, bufRd, bufWr, readVars, bindVars, got>>

StoreChar ==
  /\ isr \in {"both", "char"}
  /\ ring' = [ring EXCEPT ![slot] = val]
  /\ isr' = IF isr = "both" THEN "index" ELSE "wrap"
  /\ UNCHANGED <<bufRd, bufWr, slot, val, readVars, bindVars, histVars>>

StoreIndex ==
  /\ isr \in {"both", "index"}
  /\ bufWr' = slot + 1
  /\ isr' = IF isr = "both" THEN "char" ELSE "wrap"
  /\ UNCHANGED <<ring, bufRd, slot, val, readVars, bindVars, histVars>>

Wrapped(i) == IF i >= Size THEN 0 ELSE i

Wrap ==
  /\ isr = "wrap"
  /\ bufWr' = Wrapped(bufWr)
  /\ isr' = "wake"
  /\ UNCHANGED <<ring, bufRd, slot, val, readVars, bindVars, histVars>>

NotWoken == reader
Woken ==
  IF onQueue /\ reader = "asleep" /\ file = "open" THEN "test" ELSE reader

Wake ==
  /\ isr = "wake"
  /\ reader' = Woken
  /\ isr' = "idle"
  /\ UNCHANGED <<ring, bufRd, bufWr, slot, val, onQueue, ch, bindVars,
                 histVars>>

-----------------------------------------------------------------------------
(* my_dev_read.  wait_event_interruptible tests the condition, and if it   *)
(* does not hold joins the wait queue and tests it again before it sleeps; *)
(* a wake-up after it joined keeps it from sleeping.                       *)
Open ==
  /\ bind = "bound" /\ file = "closed"
  /\ file' = "open"
  /\ UNCHANGED <<ring, bufRd, bufWr, isrVars, readVars, bind, binds, histVars>>

Close ==
  /\ file # "closed" /\ reader = "out"
  /\ file' = "closed"
  /\ UNCHANGED <<ring, bufRd, bufWr, isrVars, readVars, bind, binds, histVars>>

(* A process whose file is stale goes astray where it touches the private  *)
(* data: at the start, and at the wait queue.                              *)
OrAstray(next) == IF file = "stale" THEN "astray" ELSE next

Read ==
  /\ reader = "out" /\ file # "closed" /\ Len(got) < MaxReads
  /\ reader' = OrAstray("first")
  /\ UNCHANGED <<ring, bufRd, bufWr, isrVars, onQueue, ch, bindVars, histVars>>

(* buf_wr is past the end for a moment, and an empty ring seems filled.    *)
Available   == bufWr # bufRd
SeesPastEnd == bufWr = Size /\ bufRd = 0

FirstTest ==
  /\ reader = "first"
  /\ reader' = IF Available THEN "load" ELSE "join"
  /\ clean' = (clean /\ ~SeesPastEnd)
  /\ UNCHANGED <<ring, bufRd, bufWr, isrVars, onQueue, ch, bindVars, edges,
                 got>>

SleepsAtOnce == "asleep"
AfterJoin == "test"

JoinQueue ==
  /\ reader = "join"
  /\ onQueue' = TRUE
  /\ reader' = OrAstray(AfterJoin)
  /\ UNCHANGED <<ring, bufRd, bufWr, isrVars, ch, bindVars, histVars>>

TestAgain ==
  /\ reader = "test"
  /\ reader' = OrAstray(IF Available THEN "load" ELSE "asleep")
  /\ onQueue' = ~Available
  /\ clean' = (clean /\ ~SeesPastEnd)
  /\ UNCHANGED <<ring, bufRd, bufWr, isrVars, ch, bindVars, edges, got>>

(* A signal: the process leaves the wait queue and read() fails.           *)
Signal ==
  /\ reader = "asleep"
  /\ reader' = OrAstray("out") /\ onQueue' = FALSE
  /\ UNCHANGED <<ring, bufRd, bufWr, isrVars, ch, bindVars, histVars>>

(* The character of the reader's slot is not stored yet.                   *)
SeesOldChar == isr = "char" /\ slot = bufRd

(* ok is whether copy_to_user succeeded; if not the event stays.           *)
LosesEvent(ok) == "advance"
AfterCopy(ok) == IF ok THEN "advance" ELSE "out"

LoadChar(ok) ==
  /\ reader = "load"
  /\ ch' = ring[bufRd]
  /\ clean' = (clean /\ ~SeesOldChar)
  /\ got' = IF ok THEN Append(got, ring[bufRd]) ELSE got
  /\ reader' = AfterCopy(ok)
  /\ UNCHANGED <<ring, bufRd, bufWr, isrVars, onQueue, bindVars, edges>>

(* buf_rd++ and its wrap; only the reader's own CPU tests buf_rd for the   *)
(* range, and the handler never reads it.                                  *)
Advance ==
  /\ reader = "advance"
  /\ bufRd' = Wrapped(bufRd + 1)
  /\ reader' = "out"
  /\ UNCHANGED <<ring, bufWr, isrVars, onQueue, ch, bindVars, histVars>>

-----------------------------------------------------------------------------
Handler == StoreChar \/ StoreIndex \/ Wrap \/ Wake
Reader  == FirstTest \/ JoinQueue \/ TestAgain \/ Advance
           \/ \E ok \in BOOLEAN : LoadChar(ok)

(* The bounds are used up.                                                 *)
Halt ==
  /\ isr = "idle" /\ bind = "unbound" /\ binds = MaxBind
  /\ reader \in {"out", "asleep", "astray"}
  /\ UNCHANGED vars

Next ==
  \/ Probe \/ FailToProbe \/ Remove \/ DevresRelease
  \/ \E ok \in BOOLEAN : MiscRegister(ok)
  \/ \E v \in Key : Edge(v)
  \/ Handler
  \/ Open \/ Close \/ Read \/ Signal \/ Reader
  \/ Halt

Spec == Init /\ [][Next]_vars

(* The handler runs to its end, and a process that is not asleep runs.     *)
FairSpec == Spec /\ WF_vars(Handler) /\ WF_vars(Reader)

-----------------------------------------------------------------------------
(* NoLostWakeup: the reader sleeps beside an event only as long as the     *)
(* handler has not reached its wake_up call, although it tests the indices *)
(* without a lock, also when the event came before the reader opened the   *)
(* file or before the driver was bound again; unless its file is stale.    *)
Sleeping == reader = "asleep" /\ file = "open"

NoLostWakeup == Sleeping /\ Available => isr # "idle"

(* EventsInOrder: as long as the ring was not overrun and no read fell     *)
(* between two stores of the handler, read() returns the events in order,  *)
(* none twice and none left out, through removals and new probes; and with *)
(* neither side active the characters from buf_rd up to buf_wr, around the *)
(* end, are exactly the events not yet read.                               *)
EventsInOrder ==
  clean =>
    /\ got = SubSeq(edges, 1, Len(got))
    /\ isr = "idle" /\ reader = "out" =>
         /\ (bufWr - bufRd) % Size = Len(edges) - Len(got)
         /\ \A i \in 1..(Len(edges) - Len(got)) :
              ring[(bufRd + i - 1) % Size] = edges[Len(got) + i]

(* SleeperReturns: a reader that sleeps while there is an event wakes up,  *)
(* unless the driver is removed under it.                                  *)
SleeperReturns ==
  (Sleeping /\ Available) ~> (reader # "asleep" \/ file = "stale")
=============================================================================
