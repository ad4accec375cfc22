------------------------------- MODULE DmaSg -------------------------------
(***************************************************************************)
(* dma/dma_sg.c: every write() of a process runs two memory-to-memory DMA  *)
(* transactions through one channel, one after the other.  The first one   *)
(* copies three work buffers to three others, the second one copies what   *)
(* the process wrote.  The process waits for each of them on a completion  *)
(* that the callback of the transaction completes.                         *)
(*                                                                         *)
(* The buffers, the completion and the channel are shared by all writers   *)
(* without a lock.  Each access to one of them is a step.  The DMA engine  *)
(* executes transactions in the order of submission, on physical memory:   *)
(* a copy of three blocks starts at the first buffer and goes on to the    *)
(* blocks after it, whoever they belong to.  Layouts in which the source   *)
(* of that copy overlaps with its destination are left out.                *)
(***************************************************************************)
EXTENDS Integers, Sequences

CONSTANTS
  Writer,     (* the processes that write to the device                    *)
  First,      (* the first bytes that users write                          *)
  Rest,       (* what follows the first byte                               *)
  NSlots,     (* physical memory: blocks of SDMA_BUFFER_SIZE               *)
  Layouts,    (* where the allocators may put the buffers                  *)
  Outcomes,   (* whether a transaction succeeds: BOOLEAN or {TRUE}         *)
  MaxWrites   (* bound: calls of write()                                   *)

Slot    == 1..NSlots
WBuf    == <<"wbuf", "wbuf2", "wbuf3">>
RBuf    == <<"rbuf", "rbuf2", "rbuf3">>
Buffers == {WBuf[i] : i \in 1..3} \cup {RBuf[i] : i \in 1..3} \cup {"src", "dst"}

ASSUME DmaSgAssumption ==
  /\ NSlots \in Nat /\ MaxWrites \in Nat
  /\ Outcomes \subseteq BOOLEAN
  /\ Layouts \subseteq [Buffers -> Slot]
  /\ \A at \in Layouts :
       /\ \A a, b \in Buffers : a # b => at[a] # at[b]
       /\ at["wbuf"] + 2 \in Slot /\ at["rbuf"] + 2 \in Slot
       /\ at["rbuf"] \notin (at["wbuf"] - 2)..(at["wbuf"] + 2)

VARIABLES
  phase,    (* "absent", "registered", "failed", "bound", "removed"        *)
  at,       (* at[b]: the block where buffer b is                          *)
  mem,      (* mem[s]: the contents of block s                             *)
  done,     (* dma_m2m_ok.done                                             *)
  waiters,  (* the wait list of dma_m2m_ok                                 *)
  queue,    (* the transactions that were submitted and issued             *)
  calling,  (* the callback of the last transaction is due                 *)
  pc,       (* where the writer is in sdma_write                           *)
  data,     (* data[p]: what p writes                                      *)
  cookie,   (* cookie[p]: the transaction that p submitted last            *)
  round,    (* round[p]: 1 or 2, the transaction that p is at              *)
  issued,   (* history: the number of transactions so far                  *)
  finished, (* history: the transactions that were executed                *)
  writes,   (* history: the calls of write() so far                        *)
  result    (* result[p]: what the last write of p returned                *)

memVars  == <<at, mem>>
okVars   == <<done, waiters>>
dmaVars  == <<queue, calling, issued, finished>>
ctxVars  == <<data, cookie, round, writes, result>>
vars     == <<phase, memVars, okVars, dmaVars, pc, ctxVars>>

Fill(i) == <<"fill", i>>
User    == First \X Rest
Val     == {<<"old", 0>>} \cup {Fill(i) : i \in 1..3} \cup User

At(p, l)   == phase = "bound" /\ pc[p] = l
GoTo(p, l) == pc' = [pc EXCEPT ![p] = l]

Init ==
  /\ phase = "absent"
  /\ at \in Layouts
  /\ mem = [s \in Slot |-> <<"old", 0>>]
  /\ done = 0 /\ waiters = {}
  /\ queue = <<>> /\ calling = FALSE /\ issued = 0 /\ finished = {}
  /\ pc = [p \in Writer |-> "idle"]
  /\ data = [p \in Writer |-> CHOOSE d \in User : TRUE]
  /\ cookie = [p \in Writer |-> 0] /\ round = [p \in Writer |-> 1]
  /\ writes = 0 /\ result = [p \in Writer |-> "none"]

-----------------------------------------------------------------------------
(* my_probe registers the device first; then it gets the eight buffers and *)
(* the channel.  When one of these fails the device stays registered.      *)
Register ==
  /\ phase = "absent"
  /\ phase' = "registered"
  /\ UNCHANGED <<memVars, okVars, dmaVars, pc, ctxVars>>

EndProbe(ok) ==
  /\ phase = "registered"
  /\ phase' = IF ok THEN "bound" ELSE "failed"
  /\ UNCHANGED <<memVars, okVars, dmaVars, pc, ctxVars>>

(* A write without a channel dereferences a NULL pointer.                  *)
WriteUnready ==
  /\ phase \in {"registered", "failed"}
  /\ phase' = "oops"
  /\ UNCHANGED <<memVars, okVars, dmaVars, pc, ctxVars>>

(* my_remove takes the channel away and with it what is queued.            *)
Remove ==
  /\ phase = "bound"
  /\ phase' = "removed"
  /\ queue' = <<>> /\ calling' = FALSE
  /\ UNCHANGED <<memVars, okVars, issued, finished, pc, ctxVars>>

-----------------------------------------------------------------------------
(* sdma_write.  The work buffers are filled with constants.                *)
Filled == [s \in Slot |->
             IF \E i \in 1..3 : at[WBuf[i]] = s
             THEN Fill(CHOOSE i \in 1..3 : at[WBuf[i]] = s)
             ELSE mem[s]]

Write(p, d) ==
  /\ At(p, "idle") /\ writes < MaxWrites
  /\ writes' = writes + 1
  /\ data' = [data EXCEPT ![p] = d]
  /\ result' = [result EXCEPT ![p] = "none"]
  /\ mem' = Filled
  /\ round' = [round EXCEPT ![p] = 1]
  /\ GoTo(p, "init")
  /\ UNCHANGED <<phase, at, okVars, dmaVars, cookie>>

(* init_completion also forgets whoever waits.                             *)
InitCompletion(p) ==
  /\ At(p, "init")
  /\ done' = 0 /\ waiters' = {}
  /\ GoTo(p, "copy")
  /\ UNCHANGED <<phase, memVars, dmaVars, ctxVars>>

Return(p, r) == GoTo(p, "idle") /\ result' = [result EXCEPT ![p] = r]

CopyFromUser(p) ==
  /\ At(p, "copy")
  /\ mem' = [mem EXCEPT ![at["src"]] = data[p]]
  /\ GoTo(p, "submit")
  /\ UNCHANGED <<phase, at, okVars, dmaVars, ctxVars>>

FailToCopy(p) ==
  /\ At(p, "copy")
  /\ Return(p, "EFAULT")
  /\ UNCHANGED <<phase, memVars, okVars, dmaVars, data, cookie, round, writes>>

(* dmaengine_submit and dma_async_issue_pending.  The mapping of a         *)
(* transaction that could not be submitted is kept.                        *)
Transaction(r) == IF r = 1 THEN [from |-> "wbuf", to |-> "rbuf", blocks |-> 3]
                           ELSE [from |-> "src", to |-> "dst", blocks |-> 1]

Submit(p) ==
  /\ At(p, "submit")
  /\ issued' = issued + 1
  /\ cookie' = [cookie EXCEPT ![p] = issued + 1]
  /\ queue' = Append(queue, Transaction(round[p]))
  /\ GoTo(p, "wait")
  /\ UNCHANGED <<phase, memVars, okVars, calling, finished, data, round, writes,
                 result>>

FailToSubmit(p) ==
  /\ At(p, "submit")
  /\ Return(p, "EINVAL")
  /\ UNCHANGED <<phase, memVars, okVars, dmaVars, data, cookie, round, writes>>

(* wait_for_completion: sleep until done is not 0, then take one off.      *)
GoesOnAnyway == TRUE
GoesOn == done > 0

Sleep(p) ==
  /\ At(p, "wait") /\ ~GoesOn
  /\ waiters' = waiters \cup {p}
  /\ GoTo(p, "asleep")
  /\ UNCHANGED <<phase, memVars, done, dmaVars, ctxVars>>

EndWait(p) ==
  /\ At(p, "wait") /\ GoesOn
  /\ done' = done - 1
  /\ GoTo(p, "check")
  /\ UNCHANGED <<phase, memVars, waiters, dmaVars, ctxVars>>

(* After the first transaction the buffers are compared for the log only,  *)
(* and the completion is reset without touching its wait list.             *)
CheckFirst(p) ==
  /\ At(p, "check") /\ round[p] = 1
  /\ done' = 0
  /\ round' = [round EXCEPT ![p] = 2]
  /\ GoTo(p, "submit")
  /\ UNCHANGED <<phase, memVars, waiters, dmaVars, data, cookie, writes, result>>

(* After the second one the first bytes are compared; the status of the    *)
(* transaction is asked for and not used.                                  *)
SaysCopied == "count"
Verdict == IF mem[at["src"]][1] = mem[at["dst"]][1] THEN "count" ELSE "EINVAL"

CheckSecond(p) ==
  /\ At(p, "check") /\ round[p] = 2
  /\ Return(p, Verdict)
  /\ UNCHANGED <<phase, memVars, okVars, dmaVars, data, cookie, round, writes>>

-----------------------------------------------------------------------------
(* The DMA engine (external): it executes the oldest transaction, and then *)
(* a tasklet runs the callback.                                            *)
Transfer(ok) ==
  LET t == Head(queue) IN
  /\ phase = "bound" /\ queue # <<>> /\ ~calling
  /\ mem' = [s \in Slot |->
               IF ok /\ s \in at[t.to]..(at[t.to] + t.blocks - 1)
               THEN mem[at[t.from] + s - at[t.to]]
               ELSE mem[s]]
  /\ queue' = Tail(queue)
  /\ calling' = TRUE
  /\ finished' = finished \cup {issued - Len(queue) + 1}
  /\ UNCHANGED <<phase, at, okVars, issued, pc, ctxVars>>

(* dma_sg_callback and dma_m2m_callback: complete() wakes one waiter.      *)
NotCompleted == 0
Completed == done + 1

Callback ==
  /\ phase = "bound" /\ calling
  /\ calling' = FALSE
  /\ done' = Completed
  /\ \/ /\ waiters = {}
        /\ UNCHANGED <<waiters, pc>>
     \/ \E p \in waiters :
          /\ waiters' = waiters \ {p}
          /\ GoTo(p, "wait")
  /\ UNCHANGED <<phase, memVars, queue, issued, finished, ctxVars>>

-----------------------------------------------------------------------------
Step(p) ==
  \/ InitCompletion(p) \/ CopyFromUser(p) \/ FailToCopy(p)
  \/ Submit(p) \/ FailToSubmit(p) \/ Sleep(p) \/ EndWait(p)
  \/ CheckFirst(p) \/ CheckSecond(p)

Engine == Callback \/ \E ok \in Outcomes : Transfer(ok)

Halt ==
  /\ phase \in {"removed", "oops"}
  /\ UNCHANGED vars

Next ==
  \/ Register \/ WriteUnready \/ Remove
  \/ \E ok \in BOOLEAN : EndProbe(ok)
  \/ \E p \in Writer : Step(p) \/ \E d \in User : Write(p, d)
  \/ Engine
  \/ Halt

Spec == Init /\ [][Next]_vars

(* A process inside write() is scheduled, and the engine keeps working.    *)
FairSpec == Spec /\ WF_vars(Engine) /\ \A p \in Writer : WF_vars(Step(p))

-----------------------------------------------------------------------------
(* WaitsForOwn: "wait for completion of the event" (dma_sg.c:140): a       *)
(* writer that goes on after the wait goes on because the transaction that *)
(* it submitted itself was executed, and no completion of an earlier one,  *)
(* of its first round or of an earlier write that failed, is left over.    *)
(* For one writer; a second one breaks it.                                 *)
WaitsForOwn ==
  \A p \in Writer : pc[p] = "check" =>
    /\ cookie[p] \in finished
    /\ done = 0

(* FirstByteEchoed: a write that returns count has left the first byte of  *)
(* what its caller wrote in the destination, whether or not transactions   *)
(* failed without notice; needs that the first transaction does not run    *)
(* over the second one's source.                                           *)
FirstByteEchoed ==
  \A p \in Writer : result[p] = "count" => mem[at["dst"]][1] = data[p][1]

(* WriteReturns: write() does not sleep for ever, unless the channel is    *)
(* taken away under it.                                                    *)
WriteReturns ==
  \A p \in Writer : (pc[p] # "idle") ~> (pc[p] = "idle" \/ phase = "removed")
=============================================================================
