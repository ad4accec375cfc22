---------------------------- MODULE KeyLedProofs ----------------------------
(***************************************************************************)
(* Proofs about KeyLed, for any LEDs, threads, periods and keys, and about *)
(* KeyLedProbe.  What is about the blinking thread and the LEDs holds for  *)
(* one writer: nothing in the driver keeps two from interfering.           *)
(***************************************************************************)
EXTENDS KeyLed, FiniteSetTheorems, TLAPS

ThreadType == [st : {"none", "new", "loop"}, led : Led \cup {None}, stop : BOOLEAN,
               value : {0, 1}]
ArgType    == [attr : {"none", "set_led", "blink_on", "blink_off", "remove"},
               led : Led \cup {None}, val : {"on", "off", "bad"}, thr : Thread \cup {None}]
Places     == {"idle", "test", "stop", "wait", "clearFlag", "apply", "destroy", "clearLeds",
               "ifTask", "setFlag"}

DriverTypes ==
  /\ phase \in {"probing", "bound", "removed"}
  /\ lit \subseteq Led /\ ledFlag \in BOOLEAN /\ taskFlag \in BOOLEAN
  /\ task \in Thread \cup {None}

PeriodTypes == period \in 0..10000 /\ PeriodInRange

ThreadTypes ==
  /\ thread \in [Thread -> ThreadType]
  /\ \A t \in Thread : thread[t].st # "none" => thread[t].led \in Led

WriterTypes == pc \in [Writer -> Places] /\ arg \in [Writer -> ArgType]

(* Which method a writer at l with the call c is in; the driver is removed *)
(* after its probe.                                                        *)
Fits(l, c) ==
  /\ l \in {"clearLeds", "ifTask", "setFlag"} => c.attr = "blink_on"
  /\ l \in {"test", "stop", "wait", "clearFlag"} =>
       c.attr \in {"set_led", "blink_off", "remove"}
  /\ l = "apply" => c.attr \in {"set_led", "remove"}
  /\ l = "destroy" => c.attr = "remove"
  /\ c.attr \in {"set_led", "blink_on", "blink_off"} => c.led \in Led
  /\ c.attr = "remove" => phase # "probing"

InMethod(w) == Fits(pc[w], arg[w])

(* What holds for any number of writers.                                   *)
MethodInv == /\ DriverTypes /\ PeriodTypes /\ ThreadTypes /\ WriterTypes
             /\ \A w \in Writer : InMethod(w)

-----------------------------------------------------------------------------
LEMMA ConstantShapes ==
  /\ \A c \in Calls : /\ c \in ArgType /\ c.led \in Led
                      /\ c.attr \in {"set_led", "blink_on", "blink_off"}
  /\ NoCall \in ArgType /\ NoCall.attr = "none"
  /\ NoThread \in ThreadType /\ NoThread.st = "none"
  BY DEF Calls, NoCall, NoThread, ArgType, ThreadType

LEMMA MethodInit == Init => MethodInv
<1> SUFFICES ASSUME Init PROVE MethodInv
  OBVIOUS
<1>1. DriverTypes
  BY DEF Init, DriverTypes
<1>2. PeriodTypes
  BY DEF Init, PeriodTypes, PeriodInRange
<1>3. thread = [t \in Thread |-> NoThread] /\ arg = [w \in Writer |-> NoCall]
      /\ pc = [w \in Writer |-> "idle"]
  BY DEF Init
<1>4. ThreadTypes
  BY <1>3, ConstantShapes DEF ThreadTypes
<1>5. WriterTypes
  BY <1>3, ConstantShapes DEF WriterTypes, Places
<1>6. \A w \in Writer : InMethod(w)
  BY <1>3, ConstantShapes DEF InMethod, Fits
<1> QED
  BY <1>1, <1>2, <1>4, <1>5, <1>6 DEF MethodInv

(* A writer that goes to a place that fits its call; the rest stay.        *)
LEMMA WriterMoves ==
  ASSUME MethodInv, NEW w \in Writer, NEW c \in ArgType, NEW l \in Places,
         pc' = [pc EXCEPT ![w] = l], arg' = [arg EXCEPT ![w] = c],
         phase' = phase \/ phase' = "removed", Fits(l, c)
  PROVE  WriterTypes' /\ \A v \in Writer : InMethod(v)'
<1>1. WriterTypes'
  BY DEF MethodInv, WriterTypes
<1>2. pc'[w] = l /\ arg'[w] = c
      /\ \A v \in Writer : v # w => pc'[v] = pc[v] /\ arg'[v] = arg[v]
  BY DEF MethodInv, WriterTypes
<1>3. Fits(l, c)'
  BY DEF Fits
<1>4. ASSUME NEW v \in Writer PROVE InMethod(v)'
  <2>1. CASE v = w
    BY <1>2, <1>3, <2>1 DEF InMethod, Fits
  <2>2. CASE v # w
    <3>1. Fits(pc[v], arg[v])
      BY DEF MethodInv, InMethod
    <3> QED
      BY <1>2, <2>2, <3>1 DEF InMethod, Fits
  <2> QED
    BY <2>1, <2>2
<1> QED
  BY <1>1, <1>4

(* One that stays in its method keeps its call.                            *)
LEMMA WriterGoesOn ==
  ASSUME MethodInv, NEW w \in Writer, NEW l \in Places, GoTo(w, l), arg' = arg,
         phase' = phase \/ phase' = "removed", Fits(l, arg[w])
  PROVE  WriterTypes' /\ \A v \in Writer : InMethod(v)'
<1>1. arg[w] \in ArgType /\ arg' = [arg EXCEPT ![w] = arg[w]]
  BY DEF MethodInv, WriterTypes
<1>2. pc' = [pc EXCEPT ![w] = l]
  BY DEF GoTo
<1> QED
  BY <1>1, <1>2, WriterMoves

LEMMA WriterReturns ==
  ASSUME MethodInv, NEW w \in Writer, Return(w), phase' = phase \/ phase' = "removed"
  PROVE  WriterTypes' /\ \A v \in Writer : InMethod(v)'
<1>1. pc' = [pc EXCEPT ![w] = "idle"] /\ arg' = [arg EXCEPT ![w] = NoCall]
  BY DEF Return, GoTo
<1>2. "idle" \in Places /\ NoCall \in ArgType /\ Fits("idle", NoCall)
  BY ConstantShapes DEF Places, Fits
<1> QED
  BY <1>1, <1>2, WriterMoves

(* Where a writer may go next within its method.                           *)
LEMMA NextPlaces ==
  ASSUME MethodInv, NEW w \in Writer
  PROVE  /\ Places = {"idle", "test", "stop", "wait", "clearFlag", "apply", "destroy",
                      "clearLeds", "ifTask", "setFlag"}
         /\ pc[w] = "test" /\ ~ReturnsAtOnce(arg[w]) /\ taskFlag => Fits("stop", arg[w])
         /\ pc[w] = "test" /\ ~ReturnsAtOnce(arg[w]) /\ ~taskFlag => Fits("apply", arg[w])
         /\ pc[w] = "wait" => Fits("clearFlag", arg[w])
         /\ pc[w] = "clearFlag" /\ arg[w].attr # "blink_off" => Fits("apply", arg[w])
         /\ pc[w] = "apply" /\ arg[w].attr = "remove" => Fits("destroy", arg[w])
         /\ pc[w] = "clearLeds" => Fits("ifTask", arg[w])
         /\ pc[w] = "ifTask" => Fits("setFlag", arg[w]) /\ arg[w].led \in Led
         /\ pc[w] = "apply" /\ arg[w].attr = "set_led" => arg[w].led \in Led
         /\ pc[w] = "destroy" => phase # "probing"
<1>1. Fits(pc[w], arg[w])
  BY DEF MethodInv, InMethod
<1>2. /\ pc[w] = "wait" => Fits("clearFlag", arg[w])
      /\ pc[w] = "clearFlag" /\ arg[w].attr # "blink_off" => Fits("apply", arg[w])
      /\ pc[w] = "apply" /\ arg[w].attr = "remove" => Fits("destroy", arg[w])
  BY <1>1 DEF Fits
<1>3. /\ pc[w] = "clearLeds" => Fits("ifTask", arg[w])
      /\ pc[w] = "ifTask" => Fits("setFlag", arg[w]) /\ arg[w].led \in Led
      /\ pc[w] = "apply" /\ arg[w].attr = "set_led" => arg[w].led \in Led
      /\ pc[w] = "destroy" => phase # "probing"
  BY <1>1 DEF Fits
<1>4. pc[w] = "test" /\ ~ReturnsAtOnce(arg[w]) /\ taskFlag => Fits("stop", arg[w])
  BY <1>1 DEF Fits
<1>5. pc[w] = "test" /\ ~ReturnsAtOnce(arg[w]) /\ ~taskFlag => Fits("apply", arg[w])
  BY <1>1 DEF Fits, ReturnsAtOnce
<1> QED
  BY <1>2, <1>3, <1>4, <1>5 DEF Places

(* Steps that leave the thread alone.                                      *)
LEMMA StepsKeepWriters ==
  ASSUME MethodInv, NEW w \in Writer,
         \/ TestTask(w) \/ WaitTask(w) \/ ClearFlag(w) \/ SetLed(w) \/ RemoveLeds(w)
         \/ Destroy(w) \/ ClearLeds(w) \/ RefuseBlink(w) \/ FailToRun(w) \/ SetFlag(w)
  PROVE  WriterTypes' /\ \A v \in Writer : InMethod(v)'
<1>1. CASE TestTask(w)
  <2>1. CASE Return(w)
    <3>1. phase' = phase
      BY <1>1 DEF TestTask
    <3> QED
      BY <2>1, <3>1, WriterReturns
  <2>2. CASE ~Return(w)
    <3>1. /\ pc[w] = "test" /\ ~ReturnsAtOnce(arg[w]) /\ arg' = arg /\ phase' = phase
          /\ GoTo(w, IF taskFlag THEN "stop" ELSE "apply")
      BY <1>1, <2>2 DEF TestTask
    <3>2. "stop" \in Places /\ "apply" \in Places
      BY DEF Places
    <3>3. CASE taskFlag
      <4>1. GoTo(w, "stop") /\ Fits("stop", arg[w])
        BY <3>1, <3>3, NextPlaces
      <4> QED
        BY <3>1, <3>2, <4>1, WriterGoesOn
    <3>4. CASE ~taskFlag
      <4>1. GoTo(w, "apply") /\ Fits("apply", arg[w])
        BY <3>1, <3>4, NextPlaces
      <4> QED
        BY <3>1, <3>2, <4>1, WriterGoesOn
    <3> QED
      BY <3>3, <3>4
  <2> QED
    BY <2>1, <2>2
<1>2. CASE WaitTask(w)
  <2>1. GoTo(w, "clearFlag") /\ arg' = arg /\ phase' = phase /\ Fits("clearFlag", arg[w])
    BY <1>2, NextPlaces DEF WaitTask
  <2>2. "clearFlag" \in Places
    BY DEF Places
  <2> QED
    BY <2>1, <2>2, WriterGoesOn
<1>3. CASE ClearFlag(w) /\ arg[w].attr # "blink_off"
  <2>1. GoTo(w, "apply") /\ arg' = arg /\ phase' = phase /\ Fits("apply", arg[w])
    BY <1>3, NextPlaces DEF ClearFlag
  <2>2. "apply" \in Places
    BY DEF Places
  <2> QED
    BY <2>1, <2>2, WriterGoesOn
<1>4. CASE RemoveLeds(w)
  <2>1. GoTo(w, "destroy") /\ arg' = arg /\ phase' = phase /\ Fits("destroy", arg[w])
    BY <1>4, NextPlaces DEF RemoveLeds
  <2>2. "destroy" \in Places
    BY DEF Places
  <2> QED
    BY <2>1, <2>2, WriterGoesOn
<1>5. CASE ClearLeds(w)
  <2>1. GoTo(w, "ifTask") /\ arg' = arg /\ phase' = phase /\ Fits("ifTask", arg[w])
    BY <1>5, NextPlaces DEF ClearLeds
  <2>2. "ifTask" \in Places
    BY DEF Places
  <2> QED
    BY <2>1, <2>2, WriterGoesOn
<1>6. CASE \/ ClearFlag(w) /\ arg[w].attr = "blink_off"
           \/ SetLed(w) \/ Destroy(w) \/ RefuseBlink(w) \/ FailToRun(w) \/ SetFlag(w)
  <2>1. Return(w) /\ (phase' = phase \/ phase' = "removed")
    BY <1>6 DEF ClearFlag, SetLed, Destroy, RefuseBlink, FailToRun, SetFlag
  <2> QED
    BY <2>1, WriterReturns
<1> QED
  BY <1>1, <1>2, <1>3, <1>4, <1>5, <1>6

(* What both invariants say of the driver stays as long as it is let be.   *)
LEMMA DriverStays ==
  ASSUME DriverTypes, UNCHANGED <<phase, lit, ledFlag, taskFlag, task>> PROVE DriverTypes'
  BY DEF DriverTypes

LEMMA PeriodStays ==
  ASSUME PeriodTypes, period' = period, phase' # "probing" => phase # "probing"
  PROVE  PeriodTypes'
  BY DEF PeriodTypes, PeriodInRange

LEMMA StepsKeepDriver ==
  ASSUME MethodInv, NEW w \in Writer,
         \/ TestTask(w) \/ WaitTask(w) \/ ClearFlag(w) \/ SetLed(w) \/ RemoveLeds(w)
         \/ Destroy(w) \/ ClearLeds(w) \/ RefuseBlink(w) \/ FailToRun(w) \/ SetFlag(w)
  PROVE  DriverTypes' /\ PeriodTypes' /\ ThreadTypes'
<1>1. DriverTypes /\ PeriodTypes /\ ThreadTypes
  BY DEF MethodInv
<1>2. /\ UNCHANGED <<thread, period>> /\ task' \in {task, None}
      /\ phase' = phase \/ (phase # "probing" /\ phase' = "removed")
  <2>1. CASE Destroy(w)
    <3>1. UNCHANGED <<thread, period, task>> /\ phase' = "removed" /\ phase # "probing"
      BY <2>1, NextPlaces DEF Destroy, perVars
    <3> QED
      BY <3>1
  <2>2. CASE FailToRun(w)
    BY <2>2 DEF FailToRun, perVars
  <2>3. CASE \/ TestTask(w) \/ WaitTask(w) \/ ClearFlag(w) \/ SetLed(w)
             \/ RemoveLeds(w) \/ ClearLeds(w) \/ RefuseBlink(w) \/ SetFlag(w)
    <3>1. UNCHANGED <<thread, period, task, phase>>
      BY <2>3 DEF TestTask, WaitTask, ClearFlag, SetLed, RemoveLeds, ClearLeds, RefuseBlink,
         SetFlag, perVars
    <3> QED
      BY <3>1
  <2> QED
    BY <2>1, <2>2, <2>3
<1>3. ThreadTypes'
  BY <1>1, <1>2 DEF ThreadTypes
<1>4. PeriodTypes'
  <2>1. period' = period /\ (phase' # "probing" => phase # "probing")
    BY <1>2
  <2> QED
    BY <1>1, <2>1, PeriodStays
<1>5. taskFlag' \in BOOLEAN
  <2>1. CASE ClearFlag(w)
    BY <2>1 DEF ClearFlag, FlagCleared
  <2>2. CASE SetFlag(w)
    BY <2>2 DEF SetFlag
  <2>3. CASE \/ TestTask(w) \/ WaitTask(w) \/ SetLed(w) \/ RemoveLeds(w)
             \/ Destroy(w) \/ ClearLeds(w) \/ RefuseBlink(w) \/ FailToRun(w)
    <3>1. taskFlag' = taskFlag
      BY <2>3 DEF TestTask, WaitTask, SetLed, RemoveLeds, Destroy, ClearLeds, RefuseBlink,
         FailToRun
    <3> QED
      BY <1>1, <3>1 DEF DriverTypes
  <2> QED
    BY <2>1, <2>2, <2>3
<1>6. lit' \subseteq Led /\ ledFlag' \in BOOLEAN
  <2>1. CASE SetLed(w)
    <3>1. arg[w].led \in Led /\ lit \subseteq Led
      BY <1>1, <2>1, NextPlaces DEF SetLed, DriverTypes
    <3>2. lit' \in {LitAfterOn(arg[w].led), lit \ {arg[w].led}, lit}
      BY <2>1 DEF SetLed
    <3>3. lit' \subseteq Led
      BY <3>1, <3>2 DEF LitAfterOn
    <3>4. ledFlag' \in BOOLEAN
      BY <2>1 DEF SetLed
    <3> QED
      BY <3>3, <3>4
  <2>2. CASE WaitTask(w) \/ RemoveLeds(w) \/ ClearLeds(w)
    <3>1. lit' \in {{}, lit} /\ ledFlag' = ledFlag
      BY <2>2 DEF WaitTask, RemoveLeds, ClearLeds
    <3> QED
      BY <1>1, <3>1 DEF DriverTypes
  <2>3. CASE \/ TestTask(w) \/ ClearFlag(w) \/ Destroy(w) \/ RefuseBlink(w) \/ FailToRun(w)
             \/ SetFlag(w)
    <3>1. UNCHANGED <<lit, ledFlag>>
      BY <2>3 DEF TestTask, ClearFlag, Destroy, RefuseBlink, FailToRun, SetFlag, ledVars
    <3> QED
      BY <1>1, <3>1 DEF DriverTypes
  <2> QED
    BY <2>1, <2>2, <2>3
<1>7. DriverTypes'
  <2>1. phase' \in {"probing", "bound", "removed"} /\ task' \in Thread \cup {None}
    BY <1>1, <1>2 DEF DriverTypes
  <2> QED
    BY <1>5, <1>6, <2>1 DEF DriverTypes
<1> QED
  BY <1>3, <1>4, <1>7

LEMMA MethodCalls ==
  ASSUME MethodInv, NEW w \in Writer, (\E c \in Calls : Store(w, c)) \/ Remove(w)
  PROVE  MethodInv'
<1>1. UNCHANGED <<phase, lit, ledFlag, taskFlag, task, period, thread>>
  BY DEF Store, Remove, ledVars, perVars
<1>2. DriverTypes' /\ PeriodTypes' /\ ThreadTypes'
  <2>1. DriverTypes /\ PeriodTypes /\ ThreadTypes
    BY DEF MethodInv
  <2>2. DriverTypes'
    BY <1>1, <2>1 DEF DriverTypes
  <2>3. PeriodTypes'
    BY <1>1, <2>1, PeriodStays
  <2>4. ThreadTypes'
    BY <1>1, <2>1 DEF ThreadTypes
  <2> QED
    BY <2>2, <2>3, <2>4
<1>3. ASSUME NEW c \in Calls, Store(w, c)
      PROVE  WriterTypes' /\ \A v \in Writer : InMethod(v)'
  <2>1. PICK l \in Places : /\ pc' = [pc EXCEPT ![w] = l]
                            /\ l = IF c.attr = "blink_on" THEN "clearLeds" ELSE "test"
    BY <1>3 DEF Store, GoTo, Places
  <2>2. c \in ArgType /\ c.led \in Led /\ c.attr \in {"set_led", "blink_on", "blink_off"}
    BY ConstantShapes
  <2>3. arg' = [arg EXCEPT ![w] = c]
    BY <1>3 DEF Store
  <2>4. Fits(l, c)
    BY <2>1, <2>2 DEF Fits
  <2> QED
    BY <1>1, <2>1, <2>2, <2>3, <2>4, WriterMoves
<1>4. ASSUME Remove(w) PROVE WriterTypes' /\ \A v \in Writer : InMethod(v)'
  <2>1. PICK c \in ArgType : c = [NoCall EXCEPT !.attr = "remove"] /\ c.attr = "remove"
    <3>1. /\ [NoCall EXCEPT !.attr = "remove"] \in ArgType
          /\ [NoCall EXCEPT !.attr = "remove"].attr = "remove"
      BY DEF NoCall, ArgType
    <3> QED
      BY <3>1, Zenon
  <2>2. pc' = [pc EXCEPT ![w] = "test"] /\ phase # "probing" /\ arg' = [arg EXCEPT ![w] = c]
    BY <1>4, <2>1 DEF Remove, GoTo
  <2>3. "test" \in Places /\ Fits("test", c)
    BY <2>1, <2>2 DEF Fits, Places
  <2> QED
    BY <1>1, <2>1, <2>2, <2>3, WriterMoves
<1>5. WriterTypes' /\ \A v \in Writer : InMethod(v)'
  BY <1>3, <1>4
<1> QED
  BY <1>2, <1>5 DEF MethodInv

(* Steps that change a thread.                                             *)
LEMMA MethodStop == ASSUME MethodInv, NEW w \in Writer, StopTask(w) PROVE MethodInv'
<1>1. DriverTypes /\ PeriodTypes /\ ThreadTypes /\ Fits(pc[w], arg[w]) /\ arg[w] \in ArgType
  BY DEF MethodInv, InMethod, WriterTypes
<1>2. /\ task \in Thread /\ thread' = [thread EXCEPT ![task].stop = TRUE]
      /\ pc[w] = "stop" /\ pc' = [pc EXCEPT ![w] = "wait"]
      /\ arg' = [arg EXCEPT ![w].thr = task]
      /\ UNCHANGED <<phase, lit, ledFlag, taskFlag, task, period>>
  BY <1>1 DEF StopTask, GoTo, DriverTypes, ledVars, perVars
<1>3. DriverTypes' /\ PeriodTypes'
  <2>1. DriverTypes'
    BY <1>1, <1>2 DEF DriverTypes
  <2>2. PeriodTypes'
    BY <1>1, <1>2, PeriodStays
  <2> QED
    BY <2>1, <2>2
<1>4. ThreadTypes'
  <2> DEFINE r == [thread[task] EXCEPT !.stop = TRUE]
  <2>1. thread \in [Thread -> ThreadType] /\ thread[task] \in ThreadType
    BY <1>1, <1>2 DEF ThreadTypes
  <2>2. r \in ThreadType /\ r.st = thread[task].st /\ r.led = thread[task].led
    BY <2>1 DEF ThreadType
  <2>3. thread' = [thread EXCEPT ![task] = r]
    BY <1>2
  <2> HIDE DEF r
  <2>4. /\ thread' \in [Thread -> ThreadType] /\ thread'[task] = r
        /\ \A t \in Thread : t # task => thread'[t] = thread[t]
    BY <1>2, <2>1, <2>2, <2>3
  <2> QED
    BY <1>1, <1>2, <2>2, <2>4 DEF ThreadTypes
<1>5. WriterTypes' /\ \A v \in Writer : InMethod(v)'
  <2> DEFINE c == [arg[w] EXCEPT !.thr = task]
  <2>1. c \in ArgType /\ c.attr = arg[w].attr /\ c.led = arg[w].led
    <3>1. task \in Thread \cup {None}
      BY <1>2
    <3> QED
      BY <1>1, <3>1 DEF ArgType
  <2>2. arg' = [arg EXCEPT ![w] = c]
    BY <1>2
  <2> HIDE DEF c
  <2>3. "wait" \in Places /\ Fits("wait", c)
    BY <1>1, <1>2, <2>1 DEF Fits, Places
  <2> QED
    BY <1>2, <2>1, <2>2, <2>3, WriterMoves
<1> QED
  BY <1>3, <1>4, <1>5 DEF MethodInv

LEMMA MethodRun ==
  ASSUME MethodInv, NEW w \in Writer, NEW t \in Thread, RunThread(w, t) PROVE MethodInv'
<1> DEFINE r == [st |-> "new", led |-> arg[w].led, stop |-> FALSE, value |-> 0]
<1>1. DriverTypes /\ PeriodTypes /\ ThreadTypes
  BY DEF MethodInv
<1>2. /\ task' = t /\ pc[w] = "ifTask" /\ GoTo(w, "setFlag") /\ arg' = arg
      /\ thread' = [thread EXCEPT ![t] = r]
      /\ UNCHANGED <<phase, lit, ledFlag, taskFlag, period>>
  BY DEF RunThread, ledVars, perVars
<1>3. DriverTypes' /\ PeriodTypes'
  <2>1. DriverTypes'
    BY <1>1, <1>2 DEF DriverTypes
  <2>2. PeriodTypes'
    BY <1>1, <1>2, PeriodStays
  <2> QED
    BY <2>1, <2>2
<1>4. arg[w].led \in Led /\ Fits("setFlag", arg[w])
  BY <1>2, NextPlaces
<1>5. ThreadTypes'
  <2>1. r \in ThreadType /\ r.led \in Led
    BY <1>4 DEF ThreadType
  <2> HIDE DEF r
  <2>2. /\ thread' \in [Thread -> ThreadType] /\ thread'[t] = r
        /\ \A s \in Thread : s # t => thread'[s] = thread[s]
    BY <1>1, <1>2, <2>1 DEF ThreadTypes
  <2> QED
    BY <1>1, <2>1, <2>2 DEF ThreadTypes
<1>6. WriterTypes' /\ \A v \in Writer : InMethod(v)'
  <2>1. "setFlag" \in Places
    BY DEF Places
  <2> QED
    BY <1>2, <1>4, <2>1, WriterGoesOn
<1> QED
  BY <1>3, <1>5, <1>6 DEF MethodInv

LEMMA MethodFlash ==
  ASSUME MethodInv, NEW t \in Thread, Flash(t) \/ EndFlash(t) PROVE MethodInv'
<1>1. DriverTypes /\ PeriodTypes /\ ThreadTypes /\ WriterTypes
  BY DEF MethodInv
<1>2. UNCHANGED <<phase, ledFlag, taskFlag, task, period, pc, arg>> /\ thread[t].st # "none"
  BY DEF Flash, EndFlash, perVars
<1>3. thread[t] \in ThreadType /\ thread[t].led \in Led /\ lit \subseteq Led
  BY <1>1, <1>2 DEF ThreadTypes, DriverTypes
<1>4. lit' \subseteq Led
  BY <1>3 DEF Flash, EndFlash, DarkAfter
<1>5. DriverTypes'
  BY <1>1, <1>2, <1>4 DEF DriverTypes
<1>6. PeriodTypes'
  BY <1>1, <1>2, PeriodStays
<1>7. \E r \in ThreadType : /\ thread' = [thread EXCEPT ![t] = r]
                            /\ r.st # "none" => r.led \in Led
  <2>1. CASE Flash(t)
    <3> DEFINE r == [thread[t] EXCEPT !.st = "loop", !.value = 1 - thread[t].value]
    <3>1. 1 - thread[t].value \in {0, 1}
      BY <1>3 DEF ThreadType
    <3>2. r \in ThreadType /\ r.led = thread[t].led
      BY <1>3, <3>1 DEF ThreadType
    <3>3. thread' = [thread EXCEPT ![t] = r]
      BY <2>1 DEF Flash
    <3> HIDE DEF r
    <3> QED
      BY <1>3, <3>2, <3>3
  <2>2. CASE EndFlash(t)
    <3>1. thread' = [thread EXCEPT ![t] = NoThread]
      BY <2>2 DEF EndFlash
    <3> QED
      BY <3>1, ConstantShapes
  <2> QED
    BY <2>1, <2>2
<1>8. ThreadTypes'
  <2>1. PICK r \in ThreadType : /\ thread' = [thread EXCEPT ![t] = r]
                                /\ r.st # "none" => r.led \in Led
    BY <1>7
  <2>2. /\ thread' \in [Thread -> ThreadType] /\ thread'[t] = r
        /\ \A s \in Thread : s # t => thread'[s] = thread[s]
    BY <1>1, <2>1 DEF ThreadTypes
  <2> QED
    BY <1>1, <2>1, <2>2 DEF ThreadTypes
<1>9. WriterTypes'
  BY <1>1, <1>2 DEF WriterTypes
<1>10. ASSUME NEW w \in Writer PROVE InMethod(w)'
  <2>1. Fits(pc[w], arg[w])
    BY DEF MethodInv, InMethod
  <2> QED
    BY <1>2, <2>1 DEF InMethod, Fits
<1> QED
  BY <1>5, <1>6, <1>8, <1>9, <1>10 DEF MethodInv

(* The keys and the writers of the period.                                 *)
LEMMA PeriodSteps ==
  ASSUME PeriodTypes,
         EndProbe \/ Key(10) \/ Key(-10) \/ (\E p \in Input : SetPeriod(p)) \/ UNCHANGED vars
  PROVE  PeriodTypes'
<1> DEFINE Ranged(q) == q \in 10..10000
<1>1. ASSUME NEW d \in {10, -10}, Key(d) PROVE Ranged(period')
  <2>1. PICK x \in 0..(Word - 1) : x = (period + d) % Word
    BY KeyLedAssumption DEF PeriodTypes
  <2>2. period' = Clamped(x)
    BY <1>1, <2>1 DEF Key
  <2> QED
    BY <2>2 DEF Clamped
<1>2. ASSUME NEW p \in Input, SetPeriod(p) PROVE Ranged(period')
  <2>1. Ranged(p)
    <3>1. p \in Nat
      BY KeyLedAssumption
    <3>2. Ranged(Clamped(p))
      BY <3>1 DEF Clamped
    <3> QED
      BY <1>2, <3>1, <3>2 DEF SetPeriod, Clamped
  <2> HIDE DEF Ranged
  <2> QED
    BY <1>2, <2>1 DEF SetPeriod
<1>3. EndProbe => Ranged(period')
  BY DEF EndProbe
<1>4. Ranged(period') => PeriodTypes'
  BY DEF PeriodTypes, PeriodInRange
<1>5. UNCHANGED vars => PeriodTypes'
  BY PeriodStays DEF vars, perVars
<1>6. (Key(10) => Ranged(period')) /\ (Key(-10) => Ranged(period'))
  BY <1>1
<1> HIDE DEF Ranged
<1> QED
  BY <1>2, <1>3, <1>4, <1>5, <1>6

LEMMA MethodPeriod ==
  ASSUME MethodInv,
         EndProbe \/ Key(10) \/ Key(-10) \/ (\E p \in Input : SetPeriod(p)) \/ UNCHANGED vars
  PROVE  MethodInv'
<1>1. DriverTypes /\ PeriodTypes /\ ThreadTypes /\ WriterTypes
  BY DEF MethodInv
<1>2. UNCHANGED <<lit, ledFlag, taskFlag, task, thread, pc, arg>>
  BY DEF EndProbe, Key, SetPeriod, vars, ledVars
<1>3. phase' = phase \/ (phase = "probing" /\ phase' = "bound")
  BY DEF EndProbe, Key, SetPeriod, vars
<1>4. DriverTypes'
  BY <1>1, <1>2, <1>3 DEF DriverTypes
<1>5. PeriodTypes'
  BY <1>1, PeriodSteps
<1>6. ThreadTypes' /\ WriterTypes'
  BY <1>1, <1>2 DEF ThreadTypes, WriterTypes
<1>7. ASSUME NEW w \in Writer PROVE InMethod(w)'
  <2>1. Fits(pc[w], arg[w])
    BY DEF MethodInv, InMethod
  <2> QED
    BY <1>2, <1>3, <2>1 DEF InMethod, Fits
<1> QED
  BY <1>4, <1>5, <1>6, <1>7 DEF MethodInv

LEMMA MethodNext == MethodInv /\ [Next]_vars => MethodInv'
<1> SUFFICES ASSUME MethodInv, [Next]_vars PROVE MethodInv'
  OBVIOUS
<1>1. ASSUME NEW w \in Writer, Step(w) PROVE MethodInv'
  <2>1. CASE StopTask(w)
    BY <2>1, MethodStop
  <2>2. CASE \E t \in Thread : RunThread(w, t)
    BY <2>2, MethodRun
  <2>3. CASE \/ TestTask(w) \/ WaitTask(w) \/ ClearFlag(w) \/ SetLed(w) \/ RemoveLeds(w)
             \/ Destroy(w) \/ ClearLeds(w) \/ RefuseBlink(w) \/ FailToRun(w) \/ SetFlag(w)
    <3>1. WriterTypes' /\ \A v \in Writer : InMethod(v)'
      BY <2>3, StepsKeepWriters
    <3>2. DriverTypes' /\ PeriodTypes' /\ ThreadTypes'
      BY <2>3, StepsKeepDriver
    <3> QED
      BY <3>1, <3>2 DEF MethodInv
  <2> QED
    BY <1>1, <2>1, <2>2, <2>3 DEF Step
<1> QED
  BY <1>1, MethodCalls, MethodFlash, MethodPeriod DEF Next, Halt

LEMMA MethodInvariant == Spec => []MethodInv
  BY MethodInit, MethodNext, PTL DEF Spec

(* PeriodInRange: however the keys, the writers of the period and probe    *)
(* alternate, with any number of writers, and although a key may count     *)
(* down from 0 or past 10000 in unsigned arithmetic.                       *)
THEOREM PeriodStaysInRange == Spec => []PeriodInRange
<1>1. MethodInv => PeriodInRange
  BY DEF MethodInv, PeriodTypes
<1> QED
  BY <1>1, MethodInvariant, PTL

-----------------------------------------------------------------------------
(* From here on one process writes the attributes.                         *)
OneWriter == \A v, w \in Writer : v = w

(* The flag, the pointer and the thread, step by step of a method.         *)
Tracks(w) ==
  /\ taskFlag => task \in Thread
  /\ pc[w] \in {"idle", "test", "stop", "apply", "destroy", "clearLeds", "ifTask"} =>
       Running = IF taskFlag THEN {task} ELSE {}
  /\ pc[w] = "stop" => taskFlag
  /\ pc[w] \in {"apply", "destroy"} => ~taskFlag
  /\ pc[w] = "setFlag" => ~taskFlag /\ task \in Thread /\ Running = {task}
  /\ pc[w] = "wait" => taskFlag /\ arg[w].thr = task /\ Running \subseteq {task}
  /\ pc[w] = "clearFlag" => taskFlag /\ Running = {}
  /\ phase = "removed" => pc[w] = "idle" /\ ~taskFlag
  /\ \A t \in Running : thread[t].stop => pc[w] = "wait"

(* While a thread blinks its LED is the only one that can be on, and when  *)
(* it has ended none is; without led_flag only a thread switches one on.   *)
Lights(w) ==
  /\ \E l \in Led : lit \subseteq {l}
  /\ \A t \in Running : /\ lit \subseteq {thread[t].led}
                        /\ thread[t].st = "new" => lit = {}
  /\ Running = {} /\ (~ledFlag \/ pc[w] \in {"wait", "clearFlag", "ifTask", "destroy"})
       => lit = {}
  /\ phase = "removed" => lit = {}

BlinkInv == \A w \in Writer : Tracks(w) /\ Lights(w)

LEMMA BlinkInit == Init => BlinkInv
<1> SUFFICES ASSUME Init, NEW w \in Writer PROVE Tracks(w) /\ Lights(w)
  BY DEF BlinkInv
<1>1. /\ phase = "probing" /\ lit = {} /\ taskFlag = FALSE
      /\ pc[w] = "idle" /\ \A t \in Thread : thread[t].st = "none"
  BY ConstantShapes DEF Init
<1>2. Running = {}
  BY <1>1 DEF Running
<1>3. Tracks(w)
  BY <1>1, <1>2 DEF Tracks
<1>4. Lights(w)
  BY <1>1, <1>2, KeyLedAssumption DEF Lights
<1> QED
  BY <1>3, <1>4

(* The writer starts a method, tests the flag, sets or clears it or        *)
(* switches LEDs, and no thread changes.                                   *)
LEMMA BlinkWriter ==
  ASSUME MethodInv, BlinkInv, NEW w \in Writer, OneWriter,
         \/ TestTask(w) \/ WaitTask(w) \/ ClearFlag(w) \/ RemoveLeds(w) \/ Destroy(w)
         \/ ClearLeds(w) \/ RefuseBlink(w) \/ FailToRun(w) \/ SetFlag(w)
         \/ (\E c \in Calls : Store(w, c)) \/ Remove(w)
  PROVE  BlinkInv'
<1>1. UNCHANGED thread /\ Running' = Running
  BY DEF TestTask, WaitTask, ClearFlag, RemoveLeds, Destroy, ClearLeds, RefuseBlink, FailToRun,
     SetFlag, Store, Remove, Running
<1>2. /\ pc \in [Writer -> Places]
      /\ {taskFlag, ledFlag} \subseteq BOOLEAN /\ InMethod(w) /\ Tracks(w) /\ Lights(w)
      /\ Running \subseteq Thread /\ thread \in [Thread -> ThreadType]
      /\ phase \in {"probing", "bound", "removed"}
  BY DEF MethodInv, DriverTypes, ThreadTypes, WriterTypes, BlinkInv, Running
<1> USE <1>2 DEF GoTo, Return, Tracks, Lights
<1>3. CASE (\E c \in Calls : Store(w, c)) \/ Remove(w)
  <2>1. /\ UNCHANGED <<phase, lit, ledFlag, taskFlag, task>> /\ phase # "removed"
        /\ pc[w] = "idle" /\ pc'[w] \in {"test", "clearLeds"}
    BY <1>3 DEF Store, Remove, ledVars
  <2>2. Tracks(w)'
    BY <1>1, <2>1
  <2>3. Lights(w)'
    BY <1>1, <2>1
  <2> QED
    BY <2>2, <2>3 DEF BlinkInv, OneWriter
<1>4. CASE TestTask(w)
  <2>1. /\ UNCHANGED <<phase, lit, ledFlag, taskFlag, task>> /\ phase # "removed" /\ pc[w] = "test"
        /\ \/ pc'[w] = "idle" \/ (taskFlag /\ pc'[w] = "stop") \/ (~taskFlag /\ pc'[w] = "apply")
    BY <1>4 DEF TestTask, ledVars
  <2>2. Tracks(w)'
    BY <1>1, <2>1
  <2>3. Lights(w)'
    BY <1>1, <2>1
  <2> QED
    BY <2>2, <2>3 DEF BlinkInv, OneWriter
<1>5. CASE WaitTask(w)
  <2>1. /\ UNCHANGED <<phase, ledFlag, taskFlag, task>> /\ pc[w] = "wait" /\ pc'[w] = "clearFlag"
        /\ lit' \in {{}, lit} /\ thread[task].st = "none" /\ task \in Thread
    BY <1>5 DEF WaitTask, Stopped
  <2>2. Running = {}
    BY <2>1 DEF Running
  <2>3. Tracks(w)'
    BY <1>1, <2>1, <2>2
  <2>4. Lights(w)'
    BY <1>1, <2>1, <2>2
  <2> QED
    BY <2>3, <2>4 DEF BlinkInv, OneWriter
<1>6. CASE ClearFlag(w)
  <2>1. /\ UNCHANGED <<phase, lit, ledFlag, task>> /\ pc[w] = "clearFlag"
        /\ taskFlag' = FALSE /\ pc'[w] \in {"idle", "apply"}
    BY <1>6 DEF ClearFlag, FlagCleared, ledVars
  <2>2. Tracks(w)'
    BY <1>1, <2>1
  <2>3. Lights(w)'
    BY <1>1, <2>1
  <2> QED
    BY <2>2, <2>3 DEF BlinkInv, OneWriter
<1>7. CASE RemoveLeds(w) \/ ClearLeds(w)
  <2>1. /\ UNCHANGED <<phase, ledFlag, taskFlag, task>> /\ lit' = (IF ledFlag THEN {} ELSE lit)
        /\ \/ pc[w] = "apply" /\ pc'[w] = "destroy"
           \/ pc[w] = "clearLeds" /\ pc'[w] = "ifTask"
    BY <1>7 DEF RemoveLeds, ClearLeds
  <2>2. Tracks(w)'
    BY <1>1, <2>1
  <2>3. Lights(w)'
    BY <1>1, <2>1
  <2> QED
    BY <2>2, <2>3 DEF BlinkInv, OneWriter
<1>8. CASE Destroy(w)
  <2>1. /\ UNCHANGED <<lit, ledFlag, taskFlag, task>> /\ pc[w] = "destroy" /\ pc'[w] = "idle"
        /\ phase' = "removed"
    BY <1>8 DEF Destroy, ledVars
  <2>2. Tracks(w)'
    BY <1>1, <2>1
  <2>3. Lights(w)'
    BY <1>1, <2>1
  <2> QED
    BY <2>2, <2>3 DEF BlinkInv, OneWriter
<1>9. CASE RefuseBlink(w) \/ FailToRun(w)
  <2>1. /\ UNCHANGED <<phase, lit, ledFlag, taskFlag>> /\ pc[w] = "ifTask" /\ pc'[w] = "idle"
        /\ task' = task \/ ~taskFlag
    BY <1>9 DEF RefuseBlink, FailToRun, MayRun, ledVars
  <2>2. Tracks(w)'
    BY <1>1, <2>1
  <2>3. Lights(w)'
    BY <1>1, <2>1
  <2> QED
    BY <2>2, <2>3 DEF BlinkInv, OneWriter
<1>10. CASE SetFlag(w)
  <2>1. /\ UNCHANGED <<phase, lit, ledFlag, task>> /\ pc[w] = "setFlag" /\ pc'[w] = "idle"
        /\ taskFlag' = TRUE
    BY <1>10 DEF SetFlag, ledVars
  <2>2. Tracks(w)'
    BY <1>1, <2>1
  <2>3. Lights(w)'
    BY <1>1, <2>1
  <2> QED
    BY <2>2, <2>3 DEF BlinkInv, OneWriter
<1> QED
  BY <1>3, <1>4, <1>5, <1>6, <1>7, <1>8, <1>9, <1>10

LEMMA BlinkSetLed ==
  ASSUME MethodInv, BlinkInv, NEW w \in Writer, OneWriter, SetLed(w) PROVE BlinkInv'
<1>1. /\ pc[w] = "apply" /\ pc'[w] = "idle" /\ UNCHANGED <<phase, taskFlag, task, thread>>
      /\ arg[w].led \in Led /\ Running' = Running /\ ~taskFlag /\ Running = {}
      /\ phase # "removed" /\ Lights(w) /\ ledFlag \in BOOLEAN
  <2>1. pc[w] = "apply" /\ UNCHANGED <<phase, taskFlag, task, thread>> /\ arg[w].led \in Led
    BY NextPlaces DEF SetLed
  <2>2. pc'[w] = "idle" /\ ledFlag \in BOOLEAN /\ taskFlag \in BOOLEAN
    BY DEF SetLed, Return, GoTo, MethodInv, WriterTypes, DriverTypes
  <2>3. Tracks(w) /\ Lights(w)
    BY DEF BlinkInv
  <2>4. ~taskFlag /\ Running = {} /\ phase # "removed"
    BY <2>1, <2>2, <2>3 DEF Tracks
  <2>5. Running' = Running
    BY <2>1 DEF Running
  <2> QED
    BY <2>1, <2>2, <2>3, <2>4, <2>5
<1>2. Tracks(w)'
  BY <1>1 DEF Tracks
<1>3. lit' \in {LitAfterOn(arg[w].led), lit \ {arg[w].led}, lit}
  BY DEF SetLed
<1>4. \E l \in Led : lit' \subseteq {l}
  BY <1>1, <1>3 DEF LitAfterOn, Lights
<1>5. ~ledFlag' => lit' = {}
  <2> SUFFICES ASSUME ~ledFlag' PROVE lit' = {}
    OBVIOUS
  <2>1. ~ledFlag /\ arg[w].val # "on"
    BY DEF SetLed
  <2>2. lit = {}
    BY <1>1, <2>1 DEF Lights
  <2>3. lit' \in {lit \ {arg[w].led}, lit}
    BY <2>1 DEF SetLed
  <2> QED
    BY <2>2, <2>3
<1>6. Lights(w)'
  BY <1>1, <1>4, <1>5 DEF Lights
<1> QED
  BY <1>2, <1>6 DEF BlinkInv, OneWriter

LEMMA BlinkThreads ==
  ASSUME MethodInv, BlinkInv, NEW w \in Writer, OneWriter,
         StopTask(w) \/ \E t \in Thread : RunThread(w, t)
  PROVE  BlinkInv'
<1>1. /\ thread \in [Thread -> ThreadType] /\ Tracks(w) /\ Lights(w) /\ InMethod(w)
      /\ pc \in [Writer -> Places]
      /\ arg \in [Writer -> ArgType] /\ {taskFlag, ledFlag} \subseteq BOOLEAN
  BY DEF MethodInv, DriverTypes, ThreadTypes, WriterTypes, BlinkInv
<1>2. UNCHANGED <<phase, lit, ledFlag, taskFlag>>
  BY DEF StopTask, RunThread, ledVars
<1>3. CASE StopTask(w)
  <2>1. /\ pc[w] = "stop" /\ pc'[w] = "wait" /\ task' = task /\ arg'[w].thr = task /\ taskFlag
        /\ task \in Thread /\ Running = {task} /\ phase # "removed"
    BY <1>1, <1>3 DEF StopTask, GoTo, Tracks, ArgType
  <2>2. \A t \in Thread : thread'[t].st = thread[t].st /\ thread'[t].led = thread[t].led
    BY <1>1, <1>3 DEF StopTask, ThreadType
  <2>3. Running' = Running
    BY <2>2 DEF Running
  <2>4. Tracks(w)'
    BY <1>2, <2>1, <2>3 DEF Tracks
  <2>5. Lights(w)'
    BY <1>1, <1>2, <2>1, <2>2, <2>3 DEF Lights
  <2> QED
    BY <2>4, <2>5 DEF BlinkInv, OneWriter
<1>4. ASSUME NEW t \in Thread, RunThread(w, t) PROVE BlinkInv'
  <2>1. /\ pc[w] = "ifTask" /\ pc'[w] = "setFlag" /\ task' = t /\ ~taskFlag /\ phase # "removed"
        /\ Running = {} /\ lit = {}
    BY <1>1, <1>4 DEF RunThread, GoTo, MayRun, Tracks, Lights
  <2>2. /\ thread'[t].st = "new" /\ thread'[t].stop = FALSE
        /\ \A s \in Thread : s # t => thread'[s] = thread[s]
    BY <1>1, <1>4 DEF RunThread
  <2>3. Running' = {t}
    BY <2>1, <2>2 DEF Running
  <2>4. Tracks(w)'
    BY <1>2, <2>1, <2>2, <2>3 DEF Tracks
  <2>5. Lights(w)'
    BY <1>2, <2>1, <2>3, KeyLedAssumption DEF Lights
  <2> QED
    BY <2>4, <2>5 DEF BlinkInv, OneWriter
<1> QED
  BY <1>3, <1>4

(* led_flash: it switches its own LED, and leaves it off when it ends.     *)
LEMMA BlinkFlash ==
  ASSUME MethodInv, BlinkInv, NEW t \in Thread, Flash(t) \/ EndFlash(t), NEW w \in Writer
  PROVE  Tracks(w)' /\ Lights(w)'
<1>1. /\ thread \in [Thread -> ThreadType] /\ Tracks(w) /\ Lights(w) /\ t \in Running
      /\ thread[t].led \in Led
      /\ pc \in [Writer -> Places]
  BY DEF MethodInv, ThreadTypes, WriterTypes, BlinkInv, Running, Flash, EndFlash
<1>2. UNCHANGED <<phase, ledFlag, taskFlag, task, pc, arg>>
  BY DEF Flash, EndFlash
<1>3. lit \subseteq {thread[t].led} /\ phase # "removed" /\ \A s \in Running : s = t
  <2>1. lit \subseteq {thread[t].led}
    BY <1>1 DEF Lights
  <2>2. \/ Running = IF taskFlag THEN {task} ELSE {}
        \/ Running \subseteq {task}
    BY <1>1 DEF Tracks, Places
  <2>3. phase # "removed"
    BY <1>1 DEF Tracks
  <2> QED
    BY <1>1, <2>1, <2>2, <2>3
<1>4. CASE Flash(t)
  <2>1. /\ thread'[t].st = "loop" /\ thread'[t].led = thread[t].led
        /\ thread'[t].stop = thread[t].stop
        /\ \A s \in Thread : s # t => thread'[s] = thread[s]
    BY <1>1, <1>4 DEF Flash, ThreadType
  <2>2. Running' = Running
    BY <1>1, <2>1 DEF Running
  <2>3. lit' \subseteq {thread[t].led}
    BY <1>3, <1>4 DEF Flash
  <2>4. Tracks(w)'
    BY <1>1, <1>2, <1>3, <2>1, <2>2 DEF Tracks
  <2>5. Lights(w)'
    BY <1>1, <1>2, <1>3, <2>1, <2>2, <2>3 DEF Lights
  <2> QED
    BY <2>4, <2>5
<1>5. CASE EndFlash(t)
  <2>1. /\ thread'[t].st = "none" /\ thread[t].stop
        /\ \A s \in Thread : s # t => thread'[s] = thread[s]
    BY <1>1, <1>5, ConstantShapes DEF EndFlash, ShouldStop
  <2>2. Running' = {}
    BY <1>3, <2>1 DEF Running
  <2>3. pc[w] = "wait"
    BY <1>1, <2>1 DEF Tracks
  <2>4. lit' = {}
    <3>1. thread[t].st = "new" \/ thread[t].st = "loop"
      BY <1>1 DEF Running, ThreadType
    <3>2. CASE thread[t].st = "new"
      BY <1>1, <1>5, <3>2 DEF EndFlash, DarkAfter, Lights
    <3>3. CASE thread[t].st = "loop"
      BY <1>3, <1>5, <3>3 DEF EndFlash, DarkAfter
    <3> QED
      BY <3>1, <3>2, <3>3
  <2>5. Tracks(w)'
    BY <1>1, <1>2, <2>2, <2>3 DEF Tracks
  <2>6. Lights(w)'
    BY <2>2, <2>4, KeyLedAssumption DEF Lights
  <2> QED
    BY <2>5, <2>6
<1> QED
  BY <1>4, <1>5

LEMMA BlinkNext ==
  ASSUME OneWriter, MethodInv, BlinkInv, [Next]_vars PROVE BlinkInv'
<1>1. ASSUME NEW w \in Writer, (\E c \in Calls : Store(w, c)) \/ Remove(w) \/ Step(w)
      PROVE  BlinkInv'
  BY <1>1, BlinkWriter, BlinkSetLed, BlinkThreads DEF Step
<1>2. ASSUME NEW t \in Thread, Flash(t) \/ EndFlash(t) PROVE BlinkInv'
  BY <1>2, BlinkFlash DEF BlinkInv
<1>3. CASE EndProbe \/ Key(10) \/ Key(-10) \/ (\E p \in Input : SetPeriod(p)) \/ UNCHANGED vars
  <2>1. /\ UNCHANGED <<lit, ledFlag, taskFlag, task, thread, pc, arg>>
        /\ phase' = phase \/ phase' # "removed"
    BY <1>3 DEF EndProbe, Key, SetPeriod, vars, ledVars
  <2>2. Running' = Running
    BY <2>1 DEF Running
  <2> SUFFICES ASSUME NEW w \in Writer PROVE Tracks(w)' /\ Lights(w)'
    BY DEF BlinkInv
  <2>3. Tracks(w)'
    BY <2>1, <2>2 DEF BlinkInv, Tracks
  <2>4. Lights(w)'
    BY <2>1, <2>2 DEF BlinkInv, Lights
  <2> QED
    BY <2>3, <2>4
<1> QED
  BY <1>1, <1>2, <1>3 DEF Next, Halt

LEMMA BlinkInvariant == ASSUME OneWriter PROVE Spec => []BlinkInv
<1>1. MethodInv /\ BlinkInv /\ [Next]_vars => BlinkInv'
  BY BlinkNext
<1> QED
  BY <1>1, BlinkInit, MethodInvariant, PTL DEF Spec

(* ThreadTracked: between the writes of one process task_flag and task     *)
(* tell whether there is a blinking thread, and which.                     *)
THEOREM ThreadStaysTracked == ASSUME OneWriter PROVE Spec => []ThreadTracked
<1>1. BlinkInv => ThreadTracked
  <2> SUFFICES ASSUME BlinkInv, AtRest PROVE Running = IF taskFlag THEN {task} ELSE {}
    BY DEF ThreadTracked
  <2>1. PICK w \in Writer : TRUE
    BY KeyLedAssumption
  <2> QED
    BY <2>1 DEF BlinkInv, Tracks, AtRest
<1> QED
  BY <1>1, BlinkInvariant, PTL

(* AtMostOneLit: the process and the thread together never light two LEDs. *)
THEOREM OneLedAtATime == ASSUME OneWriter PROVE Spec => []AtMostOneLit
<1>1. BlinkInv => AtMostOneLit
  <2> SUFFICES ASSUME BlinkInv PROVE Cardinality(lit) <= 1
    BY DEF AtMostOneLit
  <2>1. PICK l \in Led : lit \subseteq {l}
    BY KeyLedAssumption DEF BlinkInv, Lights
  <2>2. IsFiniteSet({l}) /\ Cardinality({l}) = 1
    BY FS_Singleton
  <2>3. Cardinality(lit) <= Cardinality({l})
    BY <2>1, <2>2, FS_Subset
  <2> QED
    BY <2>2, <2>3
<1> QED
  BY <1>1, BlinkInvariant, PTL

(* NothingAfterRemove: my_remove leaves no thread and no light behind.     *)
THEOREM RemoveLeavesNothing == ASSUME OneWriter PROVE Spec => []NothingAfterRemove
<1>1. BlinkInv => NothingAfterRemove
  <2> SUFFICES ASSUME BlinkInv, phase = "removed" PROVE Running = {} /\ lit = {}
    BY DEF NothingAfterRemove
  <2>1. PICK w \in Writer : TRUE
    BY KeyLedAssumption
  <2> QED
    BY <2>1 DEF BlinkInv, Tracks, Lights
<1> QED
  BY <1>1, BlinkInvariant, PTL
-----------------------------------------------------------------------------
(* The other half of the driver: KeyLedProbe, for any number of LEDs and   *)
(* of loads.                                                               *)
CONSTANTS NLed, MaxLoad

VARIABLES
  bind, loads, left, region, class, device, freed, private, slot, numLeds, irq,
  returned, failures, fault

Probe == INSTANCE KeyLedProbe

Filling == bind \in {"gpio", "private", "slot", "count"}
Ended   == bind \in {"release", "loaded", "unloaded"}

(* The devices of this load.                                               *)
Own == Probe!Counted \cup (IF Filling THEN {numLeds} ELSE {})

ProbeTypes ==
  /\ bind \in {"unloaded", "parse", "gpio", "private", "slot", "count", "bound",
               "release", "loaded", "oops"}
  /\ left \in [Probe!Child -> Nat] /\ numLeds \in Nat /\ failures \in Nat
  /\ class \in BOOLEAN /\ returned \in BOOLEAN /\ IsFiniteSet(device)

(* Each LED that the walk has passed is counted, or is being filled in.    *)
Walk ==
  /\ bind = "parse" => left["led"] + numLeds = NLed
  /\ Filling => left["led"] + numLeds + 1 = NLed
  /\ bind = "bound" => numLeds = NLed

(* priv->num_leds is raised after the slot is filled.                      *)
Slots ==
  /\ Probe!Counted \subseteq slot
  /\ bind = "count" => numLeds \in slot

(* Unless a probe has returned as it was, each failure leaves one device   *)
(* at most, besides those of the load in progress.                         *)
Leftovers ==
  ~returned => /\ Cardinality(device \ Own) <= failures
               /\ Ended => ~class /\ Cardinality(device) <= failures

(* Without a failure nothing is left from one load to the next.            *)
NoFailure ==
  failures = 0 =>
    /\ ~returned /\ freed = {} /\ fault \subseteq {"private"}
    /\ region \subseteq {loads} /\ device \subseteq Own
    /\ Ended => device = {} /\ region = {}

ProbeInv == ProbeTypes /\ Walk /\ Slots /\ Leftovers /\ NoFailure

LEMMA ProbeInit == ASSUME NLed \in Nat, Probe!Init PROVE ProbeInv
<1>1. /\ bind = "unloaded" /\ region = {} /\ class = FALSE /\ device = {} /\ freed = {}
      /\ slot = {} /\ numLeds = 0 /\ returned = FALSE /\ failures = 0 /\ fault = {}
      /\ left = [c \in Probe!Child |-> IF c = "led" THEN NLed ELSE 1]
  BY DEF Probe!Init, Probe!Tree
<1>2. IsFiniteSet({}) /\ Cardinality({}) = 0
  BY FS_EmptySet
<1>3. Probe!Counted = {} /\ Own = {} /\ ~Filling
  BY <1>1 DEF Probe!Counted, Own, Filling
<1>4. ProbeTypes
  BY <1>1, <1>2 DEF ProbeTypes
<1>5. Walk /\ Slots
  BY <1>1, <1>3 DEF Walk, Slots
<1>6. Leftovers /\ NoFailure
  <2>1. device \ Own = {}
    BY <1>1
  <2> QED
    BY <1>1, <1>2, <2>1 DEF Leftovers, NoFailure
<1> QED
  BY <1>4, <1>5, <1>6 DEF ProbeInv

(* The devices of a load are among the first ones.                         *)
LEMMA OwnFacts ==
  ASSUME ProbeTypes
  PROVE  /\ Probe!Counted = 0..(numLeds - 1) /\ numLeds \notin Probe!Counted
         /\ 0..numLeds = Probe!Counted \cup {numLeds}
         /\ ~Filling => Own = Probe!Counted
         /\ Filling => Own = Probe!Counted \cup {numLeds}
  BY DEF ProbeTypes, Probe!Counted, Own

LEMMA Smaller ==
  ASSUME NEW S, NEW T, IsFiniteSet(S), T \subseteq S
  PROVE  IsFiniteSet(T) /\ Cardinality(T) \in Nat /\ Cardinality(T) <= Cardinality(S)
  BY FS_Subset, FS_CardinalityType

(* A module that is not loaded has left nothing behind but devices, and    *)
(* starts again with none of its own.                                      *)
LEMMA ProbeLoad ==
  ASSUME NLed \in Nat, ProbeInv, NEW n \in BOOLEAN, NEW c \in BOOLEAN, Probe!Load(n, c)
  PROVE  ProbeInv'
<1>1. /\ bind = "unloaded" /\ loads' = loads + 1
      /\ region' = IF n THEN region \cup {loads'} ELSE region
      /\ class' = (class \/ c) /\ bind' = (IF c THEN "parse" ELSE "oops")
      /\ slot' = {} /\ numLeds' = 0
      /\ left' = [d \in Probe!Child |-> IF d = "led" THEN NLed ELSE 1]
      /\ UNCHANGED <<device, freed, returned, failures, fault>>
  BY DEF Probe!Load, Probe!Tree
<1>2. Probe!Counted' = {} /\ Own' = {} /\ ~Filling'
  BY <1>1 DEF Probe!Counted, Own, Filling
<1>3. ProbeTypes'
  BY <1>1 DEF ProbeInv, ProbeTypes
<1>4. Walk' /\ Slots'
  BY <1>1, <1>2 DEF Walk, Slots, Probe!Child
<1>5. Leftovers'
  <2>1. device' \ Own' = device
    BY <1>1, <1>2
  <2>2. ~Ended'
    BY <1>1 DEF Ended
  <2> QED
    BY <1>1, <2>1, <2>2 DEF ProbeInv, Leftovers, Ended
<1>6. NoFailure'
  <2>1. ~Ended'
    BY <1>1 DEF Ended
  <2> QED
    BY <1>1, <1>2, <2>1 DEF ProbeInv, NoFailure, Ended
<1> QED
  BY <1>3, <1>4, <1>5, <1>6 DEF ProbeInv

LEMMA ProbeRegister ==
  ASSUME ProbeInv, NEW c \in BOOLEAN, Probe!RegisterLed(c) PROVE ProbeInv'
<1>1. /\ bind = "parse" /\ left["led"] > 0 /\ left' = [left EXCEPT !["led"] = @ - 1]
      /\ device' = IF c THEN device \cup {numLeds} ELSE device
      /\ bind' = (IF c THEN "gpio" ELSE "oops")
      /\ UNCHANGED <<region, class, freed, slot, numLeds, loads, returned, failures, fault>>
  BY DEF Probe!RegisterLed, Probe!Visit, Probe!privVars, Probe!histVars
<1>2. left' \in [Probe!Child -> Nat] /\ left'["led"] = left["led"] - 1 /\ left["led"] \in Nat
  BY <1>1 DEF ProbeInv, ProbeTypes, Probe!Child
<1>3. /\ Probe!Counted' = Probe!Counted /\ ~Ended /\ ~Ended' /\ ~Filling
      /\ Filling' <=> c
  BY <1>1 DEF Probe!Counted, Ended, Filling
<1>4. ProbeTypes'
  <2>1. IsFiniteSet(device')
    BY <1>1, FS_AddElement DEF ProbeInv, ProbeTypes
  <2> QED
    BY <1>1, <1>2, <2>1 DEF ProbeInv, ProbeTypes
<1>5. Walk'
  BY <1>1, <1>2, <1>3 DEF ProbeInv, ProbeTypes, Walk
<1>6. Slots'
  BY <1>1, <1>3 DEF ProbeInv, Slots
<1>7. device' \ Own' \subseteq device \ Own /\ (device \subseteq Own => device' \subseteq Own')
  BY <1>1, <1>3 DEF Own
<1>8. Leftovers'
  <2>1. Cardinality(device' \ Own') <= Cardinality(device \ Own)
    BY <1>7, Smaller, FS_Difference DEF ProbeInv, ProbeTypes
  <2>2. Cardinality(device' \ Own') \in Nat /\ Cardinality(device \ Own) \in Nat
    BY <1>4, FS_Difference, FS_CardinalityType DEF ProbeInv, ProbeTypes
  <2> QED
    BY <1>1, <1>3, <2>1, <2>2 DEF ProbeInv, ProbeTypes, Leftovers
<1>9. NoFailure'
  BY <1>1, <1>3, <1>7 DEF ProbeInv, NoFailure
<1> QED
  BY <1>4, <1>5, <1>6, <1>8, <1>9 DEF ProbeInv

LEMMA ProbeFillIn == ASSUME ProbeInv, Probe!FillIn PROVE ProbeInv'
<1>1. /\ Filling /\ left' = left
      /\ slot' = (IF bind = "slot" THEN slot \cup {numLeds} ELSE slot)
      /\ numLeds' = (IF bind = "count" THEN numLeds + 1 ELSE numLeds)
      /\ bind = "gpio" => bind' = "private"
      /\ bind = "private" => bind' = "slot"
      /\ bind = "slot" => bind' = "count"
      /\ bind = "count" => bind' = "parse"
      /\ UNCHANGED <<region, class, device, freed, loads, returned, failures, fault>>
  BY DEF Probe!FillIn, Probe!NextField, Probe!sysVars, Probe!histVars, Filling
<1>2. numLeds \in Nat /\ left["led"] \in Nat /\ ProbeTypes
  BY DEF ProbeInv, ProbeTypes, Probe!Child
<1>3. /\ bind # "count" => Filling' /\ numLeds' = numLeds /\ bind' # "parse"
      /\ bind = "count" => ~Filling' /\ numLeds' = numLeds + 1 /\ bind' = "parse"
      /\ bind' # "bound" /\ ~Ended /\ ~Ended'
  BY <1>1 DEF Filling, Ended
<1>4. /\ Probe!Counted' = (IF bind = "count" THEN 0..numLeds ELSE Probe!Counted)
      /\ Own' = Own
  <2>1. Probe!Counted' = (IF bind = "count" THEN 0..numLeds ELSE Probe!Counted)
    BY <1>2, <1>3 DEF Probe!Counted
  <2>2. Own = Probe!Counted \cup {numLeds}
    BY <1>1, <1>2, OwnFacts
  <2>3. 0..numLeds = Probe!Counted \cup {numLeds}
    BY <1>2, OwnFacts
  <2> QED
    BY <1>3, <2>1, <2>2, <2>3 DEF Own
<1>5. ProbeTypes'
  BY <1>1, <1>2 DEF ProbeTypes, Filling
<1>6. Walk'
  BY <1>1, <1>2, <1>3 DEF ProbeInv, Walk
<1>7. Slots'
  <2>1. 0..numLeds = Probe!Counted \cup {numLeds}
    BY <1>2, OwnFacts
  <2>2. bind' = "count" => bind = "slot"
    BY <1>1 DEF Filling
  <2> QED
    BY <1>1, <1>4, <2>1, <2>2 DEF ProbeInv, Slots
<1>8. Leftovers' /\ NoFailure'
  BY <1>1, <1>3, <1>4 DEF ProbeInv, Leftovers, NoFailure
<1> QED
  BY <1>5, <1>6, <1>7, <1>8 DEF ProbeInv

(* my_remove, and the error label with what was added for the LED that is  *)
(* given up: at most that one stays.                                       *)
LEMMA ProbeUndo ==
  ASSUME ProbeInv, Probe!ProbeError \/ Probe!Remove PROVE ProbeInv'
<1>1. /\ device' = device \ Probe!Counted /\ class' = FALSE
      /\ region' = (IF numLeds = NLed THEN region \ {loads} ELSE region)
      /\ bind' = "release"
      /\ UNCHANGED <<left, freed, slot, numLeds, loads, returned, fault>>
  BY DEF Probe!ProbeError, Probe!Remove, Probe!Undo, Probe!Destroyed, Probe!privVars
<1>2. \/ bind = "bound" /\ failures' = failures
      \/ bind \in {"gpio", "parse"} /\ failures' = failures + 1
  BY DEF Probe!ProbeError, Probe!Remove
<1>3. ProbeTypes /\ IsFiniteSet(device) /\ failures \in Nat /\ numLeds \in Nat
  BY DEF ProbeInv, ProbeTypes
<1>4. Probe!Counted' = Probe!Counted /\ Own' = Probe!Counted /\ ~Filling' /\ Ended'
  BY <1>1 DEF Probe!Counted, Own, Filling, Ended
<1>5. ProbeTypes'
  <2>1. IsFiniteSet(device')
    BY <1>1, <1>3, FS_Difference
  <2> QED
    <3>1. bind' = "release" /\ class' = FALSE /\ failures' \in Nat
      BY <1>1, <1>2, <1>3
    <3> QED
      BY <1>1, <1>3, <2>1, <3>1 DEF ProbeTypes
<1>6. Walk' /\ Slots'
  BY <1>1, <1>4 DEF ProbeInv, Walk, Slots
<1>7. Leftovers'
  <2> SUFFICES ASSUME ~returned PROVE Cardinality(device') <= failures'
    <3>1. device' \ Own' = device'
      BY <1>1, <1>4
    <3> QED
      BY <1>1, <1>4, <3>1 DEF Leftovers
  <2>1. Cardinality(device \ Own) <= failures
    BY DEF ProbeInv, Leftovers
  <2>2. IsFiniteSet(device \ Own) /\ Cardinality(device \ Own) \in Nat
    BY <1>3, FS_Difference, FS_CardinalityType
  <2>3. CASE bind # "gpio"
    <3>1. device' = device \ Own
      BY <1>1, <1>2, <2>3 DEF Own, Filling
    <3> QED
      BY <1>2, <1>3, <2>1, <2>2, <3>1
  <2>4. CASE bind = "gpio"
    <3>1. device' \subseteq (device \ Own) \cup {numLeds}
      BY <1>1, <2>4 DEF Own, Filling
    <3>2. /\ IsFiniteSet((device \ Own) \cup {numLeds})
          /\ Cardinality((device \ Own) \cup {numLeds}) <= Cardinality(device \ Own) + 1
      BY <2>2, FS_AddElement
    <3>3. Cardinality(device') <= Cardinality((device \ Own) \cup {numLeds})
      BY <3>1, <3>2, Smaller
    <3>4. /\ Cardinality(device') \in Nat
          /\ Cardinality((device \ Own) \cup {numLeds}) \in Nat
      BY <1>5, <3>2, FS_CardinalityType DEF ProbeTypes
    <3> QED
      BY <1>2, <1>3, <2>1, <2>2, <2>4, <3>2, <3>3, <3>4
  <2> QED
    BY <2>3, <2>4
<1>8. NoFailure'
  <2> SUFFICES ASSUME failures' = 0
               PROVE  /\ ~returned /\ freed = {} /\ fault \subseteq {"private"}
                      /\ device' = {} /\ region' = {}
    BY <1>1, <1>4 DEF NoFailure
  <2>1. failures = 0 /\ bind = "bound"
    BY <1>2, <1>3
  <2>2. device \subseteq Probe!Counted /\ numLeds = NLed
    BY <2>1 DEF ProbeInv, NoFailure, Walk, Own, Filling
  <2> QED
    BY <1>1, <2>1, <2>2 DEF ProbeInv, NoFailure
<1> QED
  BY <1>5, <1>6, <1>7, <1>8 DEF ProbeInv

LEMMA ProbeReturns == ASSUME ProbeInv, Probe!ProbeReturn PROVE ProbeInv'
<1>1. /\ failures' = failures + 1 /\ returned' = TRUE /\ bind' = "release" /\ bind = "parse"
      /\ UNCHANGED <<left, slot, numLeds, class, device>>
  BY DEF Probe!ProbeReturn, Probe!privVars, Probe!sysVars
<1>2. failures \in Nat /\ failures' # 0
  BY <1>1 DEF ProbeInv, ProbeTypes
<1>3. ProbeTypes'
  BY <1>1 DEF ProbeInv, ProbeTypes
<1>4. Walk' /\ Slots'
  BY <1>1 DEF ProbeInv, Walk, Slots, Filling, Probe!Counted
<1>5. Leftovers' /\ NoFailure'
  BY <1>1, <1>2 DEF Leftovers, NoFailure
<1> QED
  BY <1>3, <1>4, <1>5 DEF ProbeInv

(* The end of the walk, and what the invariant does not see.               *)
LEMMA ProbeWalks ==
  ASSUME ProbeInv,
         \/ Probe!EndProbe \/ UNCHANGED Probe!vars
         \/ \E k \in {"key1", "key2"} : Probe!RequestIrq(k)
  PROVE  ProbeInv'
<1> DEFINE Rest == UNCHANGED <<region, class, device, freed, slot, numLeds, loads, returned,
                               failures, fault>>
           Onto == \/ bind' = bind
                   \/ bind = "parse" /\ bind' = "bound" /\ left["led"] = 0
           Kept == left' \in [Probe!Child -> Nat] /\ left'["led"] = left["led"]
<1>1. ProbeTypes /\ left \in [Probe!Child -> Nat]
  BY DEF ProbeInv, ProbeTypes
<1>2. Rest /\ Onto /\ Kept
  <2>1. CASE Probe!EndProbe
    <3>1. left' = left /\ Rest /\ bind = "parse" /\ bind' = "bound" /\ left["led"] = 0
      BY <2>1 DEF Probe!EndProbe, Probe!sysVars, Probe!privVars, Probe!histVars, Probe!Child
    <3> QED
      BY <1>1, <3>1
  <2>2. CASE UNCHANGED Probe!vars
    BY <1>1, <2>2 DEF Probe!vars, Probe!sysVars, Probe!privVars, Probe!histVars
  <2>3. ASSUME NEW k \in {"key1", "key2"}, Probe!RequestIrq(k)
        PROVE  Rest /\ Onto /\ Kept
    <3>1. /\ left[k] > 0 /\ left' = [left EXCEPT ![k] = @ - 1]
          /\ bind' = bind /\ Rest
      BY <2>3 DEF Probe!RequestIrq, Probe!Visit, Probe!sysVars, Probe!privVars, Probe!histVars
    <3>2. left[k] \in Nat /\ left[k] - 1 \in Nat
      BY <1>1, <3>1 DEF Probe!Child
    <3> QED
      BY <1>1, <3>1, <3>2 DEF Probe!Child
  <2> QED
    BY <2>1, <2>2, <2>3
<1>3. /\ Probe!Counted' = Probe!Counted /\ Own' = Own
      /\ Filling' <=> Filling
      /\ Ended' <=> Ended
  BY <1>2 DEF Probe!Counted, Filling, Ended, Own
<1>4. ProbeTypes'
  BY <1>1, <1>2 DEF ProbeTypes
<1>5. Walk'
  <2>1. numLeds \in Nat /\ left["led"] \in Nat
    BY <1>1 DEF ProbeTypes, Probe!Child
  <2> HIDE DEF Rest
  <2>2. numLeds' = numLeds
    BY <1>2 DEF Rest
  <2> QED
    BY <1>2, <1>3, <2>1, <2>2 DEF ProbeInv, Walk
<1>6. Slots'
  BY <1>2, <1>3 DEF ProbeInv, Slots
<1>7. Leftovers'
  BY <1>2, <1>3 DEF ProbeInv, Leftovers
<1>8. NoFailure'
  BY <1>2, <1>3 DEF ProbeInv, NoFailure
<1> QED
  BY <1>4, <1>5, <1>6, <1>7, <1>8 DEF ProbeInv

(* Between two loads the devices stay as they are, but may be freed.       *)
LEMMA ProbeBetween ==
  ASSUME ProbeInv, Probe!FailToLoad \/ Probe!DevresRelease \/ Probe!Unload
  PROVE  ProbeInv'
<1>1. /\ UNCHANGED <<left, region, class, device, slot, numLeds, returned, failures, fault>>
      /\ Ended /\ bind' \in {"release", "loaded", "unloaded"}
      /\ freed' = freed \/ freed' = device
  <2>1. CASE Probe!FailToLoad
    BY <2>1 DEF Probe!FailToLoad, Probe!sysVars, Probe!privVars, Ended
  <2>2. CASE Probe!DevresRelease
    BY <2>2 DEF Probe!DevresRelease, Probe!sysVars, Probe!privVars, Probe!histVars, Ended
  <2>3. CASE Probe!Unload
    BY <2>3 DEF Probe!Unload, Probe!sysVars, Probe!privVars, Probe!histVars, Ended
  <2> QED
    BY <2>1, <2>2, <2>3
<1>2. Probe!Counted' = Probe!Counted /\ ~Filling /\ ~Filling' /\ Ended' /\ Own' = Own
  BY <1>1 DEF Probe!Counted, Filling, Ended, Own
<1>3. ProbeTypes'
  BY <1>1 DEF ProbeInv, ProbeTypes
<1>4. Walk' /\ Slots'
  BY <1>1, <1>2 DEF ProbeInv, Walk, Slots
<1>5. Leftovers'
  BY <1>1, <1>2 DEF ProbeInv, Leftovers
<1>6. NoFailure'
  BY <1>1, <1>2 DEF ProbeInv, NoFailure
<1> QED
  BY <1>3, <1>4, <1>5, <1>6 DEF ProbeInv

LEMMA ProbeWrite ==
  ASSUME ProbeInv, NEW d \in device, Probe!Write(d) PROVE ProbeInv'
<1>1. /\ UNCHANGED <<bind, left, region, class, device, freed, slot, numLeds, loads, returned,
                     failures>>
      /\ fault' = fault \cup Probe!Meets(d)
  BY DEF Probe!Write, Probe!sysVars, Probe!privVars
<1>2. /\ Probe!Counted' = Probe!Counted /\ Own' = Own
      /\ Filling' <=> Filling
      /\ Ended' <=> Ended
  BY <1>1 DEF Probe!Counted, Filling, Ended, Own
<1>3. ProbeTypes' /\ Walk' /\ Slots' /\ Leftovers'
  BY <1>1, <1>2 DEF ProbeInv, ProbeTypes, Walk, Slots, Leftovers
<1>4. NoFailure'
  <2>1. failures = 0 => Probe!Meets(d) \subseteq {"private"}
    <3>1. Probe!Counted \ slot = {}
      BY DEF ProbeInv, Slots
    <3>2. failures = 0 => d \notin freed
      BY DEF ProbeInv, NoFailure
    <3> QED
      BY <3>1, <3>2 DEF Probe!Meets
  <2> QED
    BY <1>1, <1>2, <2>1 DEF ProbeInv, NoFailure
<1> QED
  BY <1>3, <1>4 DEF ProbeInv

LEMMA ProbeInvariant == ASSUME NLed \in Nat PROVE Probe!Spec => []ProbeInv
<1>1. ProbeInv /\ [Probe!Next]_Probe!vars => ProbeInv'
  BY ProbeLoad, ProbeRegister, ProbeFillIn, ProbeUndo, ProbeReturns, ProbeWalks,
     ProbeBetween, ProbeWrite
     DEF Probe!Next
<1> QED
  BY <1>1, ProbeInit, PTL DEF Probe!Spec

(* However often the module is loaded and removed, and for any number of   *)
(* LEDs: until a probe fails, a write finds at worst a device whose        *)
(* pointer to priv is not set yet; the loop over the counted LEDs meets no *)
(* empty slot, and no device outlives its led_device.                      *)
THEOREM ProbeWritesSafe == ASSUME NLed \in Nat PROVE Probe!Spec => []Probe!WritesSafe
<1>1. ProbeInv => Probe!WritesSafe
  BY DEF ProbeInv, ProbeTypes, NoFailure, Probe!WritesSafe
<1> QED
  BY <1>1, ProbeInvariant, PTL

(* Between two loads no class is left, at most one device per failed probe *)
(* and no device numbers unless one failed; all this unless one has        *)
(* returned from the middle of the walk.                                   *)
THEOREM ProbeLeftBehind == ASSUME NLed \in Nat PROVE Probe!Spec => []Probe!LeftBehind
<1>1. ProbeInv => Probe!LeftBehind
  <2>0. Probe!Cardinality(device) = Cardinality(device)
    BY DEF Cardinality, Probe!Cardinality
  <2> SUFFICES ASSUME ProbeInv, bind \in {"loaded", "unloaded"}, ~returned
               PROVE  /\ ~class /\ Cardinality(device) <= failures
                      /\ failures > 0 \/ region = {}
    BY <2>0 DEF Probe!LeftBehind
  <2>1. Ended
    BY DEF Ended
  <2>2. ~class /\ Cardinality(device) <= failures
    BY <2>1 DEF ProbeInv, Leftovers
  <2>3. failures > 0 \/ failures = 0
    BY DEF ProbeInv, ProbeTypes
  <2>4. failures = 0 => region = {}
    BY <2>1 DEF ProbeInv, NoFailure
  <2> QED
    BY <2>2, <2>3, <2>4
<1> QED
  BY <1>1, ProbeInvariant, PTL
=============================================================================
