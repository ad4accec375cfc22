------------------------------- MODULE KeyLed -------------------------------
(***************************************************************************)
(* keyled/keyled_module.c: LEDs under sysfs that a user switches on and    *)
(* off or lets blink, and two keys whose interrupts change the period.     *)
(*                                                                         *)
(* The attributes are written by user processes; nothing in the driver     *)
(* serialises them: task_flag, task and led_flag are plain fields.  The    *)
(* blinking LED is driven by a kernel thread.  period is protected by a    *)
(* spinlock.  A loop over all LEDs is one step (the LEDs are independent   *)
(* of each other); everything else that another actor can see is a step    *)
(* of its own.  The LEDs are active low: lit is the set with value 0.      *)
(***************************************************************************)
EXTENDS Integers, FiniteSets

CONSTANTS
  Led,      (* the LEDs                                                    *)
  Writer,   (* the processes that write attributes or unload the module    *)
  Thread,   (* bound: blinking threads that can exist at the same time     *)
  Input,    (* the periods that users write                                *)
  Word,     (* the u32 modulus: 2^32 in the code, 2^16 under TLC, whose    *)
            (* integers are too small                                      *)
  MaxKey,   (* bound: key presses                                          *)
  None      (* no LED, no thread                                           *)

ASSUME KeyLedAssumption ==
  /\ IsFiniteSet(Led) /\ Led # {}
  /\ Writer # {} /\ Thread # {}
  /\ Input \subseteq Nat
  /\ Word \in Nat /\ Word > 10010
  /\ MaxKey \in Nat
  /\ None \notin Led \cup Thread

VARIABLES
  phase,     (* "probing", "bound" or "removed"                            *)
  lit,       (* the LEDs that are on                                       *)
  ledFlag,   (* priv->led_flag                                             *)
  taskFlag,  (* priv->task_flag                                            *)
  task,      (* priv->task                                                 *)
  period,    (* priv->period                                               *)
  keys,      (* history: key presses so far                                *)
  thread,    (* thread[t]: the state of blinking thread t                  *)
  pc, arg    (* where writer w is, and the attribute, LED and value of its *)
             (* write with the thread that it waits for                    *)

ledVars == <<lit, ledFlag>>
perVars == <<period, keys>>
vars    == <<phase, ledVars, taskFlag, task, perVars, thread, pc, arg>>

(* A thread that was created and is not running led_flash yet is "new".    *)
(* value is the local variable of led_flash.                               *)
NoThread == [st |-> "none", led |-> None, stop |-> FALSE, value |-> 0]
Running  == {t \in Thread : thread[t].st # "none"}

NoCall == [attr |-> "none", led |-> None, val |-> "bad", thr |-> None]
GoTo(w, l) == pc' = [pc EXCEPT ![w] = l]

(* my_probe has parsed the device tree: the LEDs are off, the attributes   *)
(* and interrupts are in place.  The period is set last.                   *)
Init ==
  /\ phase = "probing"
  /\ lit = {} /\ ledFlag = FALSE
  /\ taskFlag = FALSE /\ task = None
  /\ period = 0 /\ keys = 0
  /\ thread = [t \in Thread |-> NoThread]
  /\ pc = [w \in Writer |-> "idle"]
  /\ arg = [w \in Writer |-> NoCall]

EndProbe ==
  /\ phase = "probing"
  /\ phase' = "bound"
  /\ period' = 10
  /\ UNCHANGED <<ledVars, taskFlag, task, keys, thread, pc, arg>>

-----------------------------------------------------------------------------
(* The interrupts of the two keys, in unsigned arithmetic.                 *)
NotClamped(p) == p
Clamped(p) == IF p < 10 \/ p > 10000 THEN 10 ELSE p

Key(delta) ==
  /\ phase # "removed" /\ keys < MaxKey
  /\ keys' = keys + 1
  /\ period' = Clamped((period + delta) % Word)
  /\ UNCHANGED <<phase, ledVars, taskFlag, task, thread, pc, arg>>

(* set_period_store.                                                       *)
SetPeriod(p) ==
  /\ phase # "removed"
  /\ p >= 10 /\ p <= 10000
  /\ period' = p
  /\ UNCHANGED <<phase, ledVars, taskFlag, task, keys, thread, pc, arg>>

-----------------------------------------------------------------------------
(* A process calls one of the store methods, or my_remove.  Where they     *)
(* begin: blink_on clears the LEDs first, the others test task_flag.       *)
Calls ==
  [attr : {"set_led"}, led : Led, val : {"on", "off", "bad"}, thr : {None}]
    \cup [attr : {"blink_on"}, led : Led, val : {"on", "bad"}, thr : {None}]
    \cup [attr : {"blink_off"}, led : Led, val : {"off", "bad"}, thr : {None}]

Removing == \E w \in Writer : arg[w].attr = "remove"

Store(w, call) ==
  /\ pc[w] = "idle" /\ phase # "removed"
  /\ arg' = [arg EXCEPT ![w] = call]
  /\ GoTo(w, IF call.attr = "blink_on" THEN "clearLeds" ELSE "test")
  /\ UNCHANGED <<phase, ledVars, taskFlag, task, perVars, thread>>

Remove(w) ==
  /\ pc[w] = "idle" /\ phase = "bound" /\ ~Removing
  /\ arg' = [arg EXCEPT ![w] = [NoCall EXCEPT !.attr = "remove"]]
  /\ GoTo(w, "test")
  /\ UNCHANGED <<phase, ledVars, taskFlag, task, perVars, thread>>

Return(w) == GoTo(w, "idle") /\ arg' = [arg EXCEPT ![w] = NoCall]

(* blink_off refuses a bad value first and returns 0 if nothing blinks;    *)
(* set_led and remove go on without stopping anything.                     *)
ReturnsAtOnce(call) ==
  call.attr = "blink_off" /\ (call.val = "bad" \/ ~taskFlag)

TestTask(w) ==
  /\ pc[w] = "test"
  /\ \/ ReturnsAtOnce(arg[w]) /\ Return(w)
     \/ /\ ~ReturnsAtOnce(arg[w])
        /\ GoTo(w, IF taskFlag THEN "stop" ELSE "apply")
        /\ arg' = arg
  /\ UNCHANGED <<phase, ledVars, taskFlag, task, perVars, thread>>

(* kthread_stop: ask the thread to stop and wait until it has exited.      *)
(* (Given an error pointer it faults, and the process hangs.)              *)
StopTask(w) ==
  /\ pc[w] = "stop"
  /\ task # None
  /\ thread' = [thread EXCEPT ![task].stop = TRUE]
  /\ arg' = [arg EXCEPT ![w].thr = task]
  /\ GoTo(w, "wait")
  /\ UNCHANGED <<phase, ledVars, taskFlag, task, perVars>>

ForgotToWait(w) == TRUE
Stopped(w) == thread[arg[w].thr].st = "none"

WaitTask(w) ==
  /\ pc[w] = "wait"
  /\ Stopped(w)
  /\ lit' = IF arg[w].attr = "blink_off" THEN {} ELSE lit
  /\ GoTo(w, "clearFlag")
  /\ UNCHANGED <<phase, ledFlag, taskFlag, task, perVars, thread, arg>>

FlagCleared == FALSE

ClearFlag(w) ==
  /\ pc[w] = "clearFlag"
  /\ taskFlag' = FlagCleared
  /\ IF arg[w].attr = "blink_off"
       THEN Return(w)
       ELSE GoTo(w, "apply") /\ arg' = arg
  /\ UNCHANGED <<phase, ledVars, task, perVars, thread>>

(* set_led: before the first "on" ever no LED is on, so there is nothing   *)
(* to switch off.                                                          *)
AddsLed(l) == lit \cup {l}
LitAfterOn(l) == IF ledFlag THEN {l} ELSE lit \cup {l}

SetLed(w) ==
  /\ pc[w] = "apply" /\ arg[w].attr = "set_led"
  /\ lit' = CASE arg[w].val = "on"  -> LitAfterOn(arg[w].led)
              [] arg[w].val = "off" -> lit \ {arg[w].led}
              [] OTHER              -> lit
  /\ ledFlag' = (ledFlag \/ arg[w].val = "on")
  /\ Return(w)
  /\ UNCHANGED <<phase, taskFlag, task, perVars, thread>>

(* my_remove switches the LEDs off and destroys the devices, which waits   *)
(* for the store methods that are in progress.                             *)
RemoveLeds(w) ==
  /\ pc[w] = "apply" /\ arg[w].attr = "remove"
  /\ lit' = IF ledFlag THEN {} ELSE lit
  /\ GoTo(w, "destroy")
  /\ UNCHANGED <<phase, ledFlag, taskFlag, task, perVars, thread, arg>>

Destroy(w) ==
  /\ pc[w] = "destroy"
  /\ \A v \in Writer \ {w} : pc[v] = "idle"
  /\ phase' = "removed"
  /\ Return(w)
  /\ UNCHANGED <<ledVars, taskFlag, task, perVars, thread>>

-----------------------------------------------------------------------------
(* blink_on_led_store.                                                     *)
ClearLeds(w) ==
  /\ pc[w] = "clearLeds"
  /\ lit' = IF ledFlag THEN {} ELSE lit
  /\ GoTo(w, "ifTask")
  /\ UNCHANGED <<phase, ledFlag, taskFlag, task, perVars, thread, arg>>

RunAnyway(w) == arg[w].val = "on"
MayRun(w) == arg[w].val = "on" /\ ~taskFlag

RefuseBlink(w) ==
  /\ pc[w] = "ifTask"
  /\ ~MayRun(w)
  /\ Return(w)
  /\ UNCHANGED <<phase, ledVars, taskFlag, task, perVars, thread>>

(* kthread_run fails, and the error pointer is stored: task_flag stays 0.  *)
FailToRun(w) ==
  /\ pc[w] = "ifTask"
  /\ MayRun(w)
  /\ task' = None
  /\ Return(w)
  /\ UNCHANGED <<phase, ledVars, taskFlag, perVars, thread>>

RunThread(w, t) ==
  /\ pc[w] = "ifTask"
  /\ MayRun(w)
  /\ thread[t].st = "none"
  /\ thread' = [thread EXCEPT ![t] = [st |-> "new", led |-> arg[w].led,
                                      stop |-> FALSE, value |-> 0]]
  /\ task' = t
  /\ GoTo(w, "setFlag")
  /\ UNCHANGED <<phase, ledVars, taskFlag, perVars, arg>>

SetFlag(w) ==
  /\ pc[w] = "setFlag"
  /\ taskFlag' = TRUE
  /\ Return(w)
  /\ UNCHANGED <<phase, ledVars, task, perVars, thread>>

-----------------------------------------------------------------------------
(* led_flash.  A thread that is stopped before it first ran never enters   *)
(* the function.                                                           *)
IgnoresStop(t) == FALSE
ShouldStop(t) == thread[t].stop

Flash(t) ==
  LET v == 1 - thread[t].value IN
  /\ thread[t].st # "none" /\ ~ShouldStop(t)
  /\ thread' = [thread EXCEPT ![t].st = "loop", ![t].value = v]
  /\ lit' = IF v = 0 THEN lit \cup {thread[t].led} ELSE lit \ {thread[t].led}
  /\ UNCHANGED <<phase, ledFlag, taskFlag, task, perVars, pc, arg>>

DarkAfter(t) == IF thread[t].st = "loop" THEN lit \ {thread[t].led} ELSE lit

EndFlash(t) ==
  /\ thread[t].st # "none" /\ ShouldStop(t)
  /\ lit' = DarkAfter(t)
  /\ thread' = [thread EXCEPT ![t] = NoThread]
  /\ UNCHANGED <<phase, ledFlag, taskFlag, task, perVars, pc, arg>>

-----------------------------------------------------------------------------
Step(w) ==
  \/ TestTask(w) \/ StopTask(w) \/ WaitTask(w) \/ ClearFlag(w)
  \/ SetLed(w) \/ RemoveLeds(w) \/ Destroy(w)
  \/ ClearLeds(w) \/ RefuseBlink(w) \/ FailToRun(w)
  \/ (\E t \in Thread : RunThread(w, t)) \/ SetFlag(w)

Halt == phase = "removed" /\ UNCHANGED vars

Next ==
  \/ EndProbe \/ Key(10) \/ Key(-10)
  \/ \E p \in Input : SetPeriod(p)
  \/ \E w \in Writer : (\E c \in Calls : Store(w, c)) \/ Remove(w) \/ Step(w)
  \/ \E t \in Thread : Flash(t) \/ EndFlash(t)
  \/ Halt

Spec == Init /\ [][Next]_vars

(* A process that has called a method and a thread that was asked to stop  *)
(* are scheduled again and again.                                          *)
FairSpec ==
  /\ Spec
  /\ \A w \in Writer : WF_vars(Step(w))
  /\ \A t \in Thread : WF_vars(EndFlash(t))

-----------------------------------------------------------------------------
(* PeriodInRange: once the driver is bound the period stays between 10 and *)
(* 10000, whatever users write and however keys and writes alternate; in   *)
(* particular 10 - 10 does not reach led_flash as a huge unsigned number.  *)
PeriodInRange == phase # "probing" => period \in 10..10000

(* AtMostOneLit: at any time at most one LED is on, although the blinking  *)
(* thread and the process that writes the attributes both switch LEDs.     *)
AtMostOneLit == Cardinality(lit) <= 1

(* ThreadTracked: between the writes there is a blinking thread exactly if *)
(* task_flag is set, it is the only one, and task points to it, so that    *)
(* the next write can stop it.                                             *)
AtRest == \A w \in Writer : pc[w] = "idle"

ThreadTracked == AtRest => Running = IF taskFlag THEN {task} ELSE {}

(* NothingAfterRemove: when the driver is gone no thread of it runs on and *)
(* all LEDs are off, also those that were lit before led_flag was set.     *)
NothingAfterRemove == phase = "removed" => Running = {} /\ lit = {}

(* EveryWriteReturns: each store method returns; kthread_stop does not     *)
(* wait forever.                                                           *)
EveryWriteReturns == \A w \in Writer : (pc[w] # "idle") ~> (pc[w] = "idle")
=============================================================================
