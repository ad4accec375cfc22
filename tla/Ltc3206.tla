------------------------------ MODULE Ltc3206 ------------------------------
(***************************************************************************)
(* i2c_class/i2c_class.c: the LTC3206 LED controller on I2C.               *)
(*                                                                         *)
(* The driver keeps a copy of the chip's three command bytes; an update of *)
(* an LED changes its nibble in the copy and sends all three.  The LED     *)
(* core runs the updates of different LEDs concurrently, the attributes    *)
(* rgb and sub are written by processes, and nothing serialises them: a    *)
(* compound assignment to a byte is a load and a store.                    *)
(*                                                                         *)
(* A byte is the set of its bits, so that & and | are \cap and \cup.       *)
(***************************************************************************)
EXTENDS Integers, Sequences, SequencesExt

CONSTANTS
  Label,      (* the labels in the device tree                             *)
  Brightness, (* the brightness values that users ask for, as sets of bits *)
  MaxCall,    (* bound: updates by users                                   *)
  MaxBind,    (* bound: probes                                             *)
  MaxFault    (* bound: failed transfers                                   *)

ASSUME LtcAssumption ==
  /\ Label \subseteq {"red", "green", "blue", "main", "sub"}
  /\ Brightness \subseteq SUBSET (0..7)
  /\ {MaxCall, MaxBind, MaxFault} \subseteq Nat

VARIABLES
  bind,       (* the driver core: "unbound", "children", "bound", "release"*)
  leds,       (* the registered LEDs, oldest first                         *)
  parsed,     (* the labels that probe has come across                     *)
  group,      (* the attributes exist                                      *)
  drvdata,    (* priv is allocated and attached                            *)
  gone, off,  (* so many LEDs have been unregistered again, newest first;  *)
              (* the next one is being switched off for it                 *)
  command,    (* priv->command                                             *)
  chip,       (* the command bytes of the chip                             *)
  fresh,      (* history: nothing has been sent since probe's first bytes  *)
  cs,         (* the value of the display_cs pin                           *)
  pc, arg, tmp, (* updater a: where it is, its argument, the loaded byte   *)
  want,       (* history: the last brightness that LED l accepted          *)
  calls, faults, binds, overlap  (* history: counts; two updates           *)
                                 (* overlapped                             *)

attrVars == <<parsed, group, drvdata>>
ledVars  == <<leds, gone, off>>
cmdVars  == <<command, chip, fresh, cs>>
updVars  == <<pc, arg, tmp>>
histVars == <<want, calls, faults, overlap>>
vars     == <<bind, binds, attrVars, ledVars, cmdVars, updVars, histVars>>

Bits == 0..7
Select  == {"rgb_select", "sub_select"}
Updater == Label \cup Select

(* The byte of the command, the shift and the mask of each update, as in   *)
(* led_control: "main" is shifted by 4 and masked with 0x0F.               *)
Byte(a)  == CASE a \in {"blue", "green"} -> 1 [] a \in {"main", "sub"} -> 2
              [] OTHER -> 0
Shift(l) == IF l \in {"red", "blue", "main"} THEN 4 ELSE 0
Mask(l)  == IF l \in {"red", "blue"} THEN 4..7 ELSE 0..3
Shifted(l, b) == {i + Shift(l) : i \in b}
EnCs == {2}

(* What "&=" and "|=" put into the byte.                                   *)
ClearsTheOther(a, byte) == byte \cap Mask(a)
ClearsNothing(a, byte) == byte
ClearBits(a, byte) == byte \ Mask(a)
SetBits(a, byte) ==
  byte \cup CASE a = "sub_select" -> EnCs
              [] a = "rgb_select" -> Bits \ EnCs
              [] OTHER -> Shifted(a, arg[a]) \cap Mask(a)

Init ==
  /\ bind = "unbound" /\ leds = <<>> /\ parsed = {}
  /\ group = FALSE /\ drvdata = FALSE /\ gone = 0 /\ off = FALSE
  /\ command = [i \in 0..2 |-> {}] /\ chip = [i \in 0..2 |-> {}]
  /\ fresh = TRUE /\ cs = 1
  /\ pc = [a \in Updater |-> "idle"]
  /\ arg = [a \in Updater |-> {}] /\ tmp = [a \in Updater |-> {}]
  /\ want = [l \in Label |-> {}]
  /\ calls = 0 /\ faults = 0 /\ binds = 0 /\ overlap = FALSE

Rest  == \A a \in Updater : pc[a] \in {"idle", "oops"}
Fault == faults < MaxFault /\ faults' = faults + 1

-----------------------------------------------------------------------------
ProbeBytes == [i \in 0..2 |-> IF i = 1 THEN 4..7 ELSE {}]

(* ltc3206_probe: three bytes are sent that light blue, the private data   *)
(* is allocated with other ones, the attributes are created.               *)
Probe(ok) ==
  /\ bind = "unbound" /\ binds < MaxBind
  /\ IF ok THEN UNCHANGED faults ELSE Fault
  /\ chip' = IF ok THEN ProbeBytes ELSE chip
  /\ ~group
  /\ command' = [i \in 0..2 |-> {}]
  /\ drvdata' = TRUE /\ group' = TRUE /\ cs' = 1
  /\ bind' = "children" /\ binds' = binds + 1 /\ parsed' = {}
  /\ fresh' = TRUE
  /\ UNCHANGED <<ledVars, updVars, want, calls, overlap>>

(* No child, no memory, no pin, or the attributes cannot be created, as    *)
(* when they are still there from a probe before (by then the pin has been *)
(* set): the driver stays unbound.                                         *)
FailToProbe(ok) ==
  /\ bind = "unbound" /\ binds < MaxBind
  /\ IF ok THEN UNCHANGED faults ELSE Fault
  /\ chip' = IF ok THEN ProbeBytes ELSE chip
  /\ binds' = binds + 1 /\ cs' \in {cs, 1}
  /\ UNCHANGED <<bind, attrVars, ledVars, command, fresh, updVars, want,
                 calls, overlap>>

(* One child after the other.  Only for "main" is the result of the        *)
(* registration looked at; for the others a failure goes unnoticed.        *)
RegisterLed(l) ==
  /\ bind = "children" /\ l \in Label \ parsed
  /\ parsed' = parsed \cup {l}
  /\ leds' = Append(leds, l)
  /\ want' = [want EXCEPT ![l] = {}]
  /\ UNCHANGED <<bind, binds, group, drvdata, gone, off, cmdVars, updVars,
                 calls, faults, overlap>>

FailToRegister(l) ==
  /\ bind = "children" /\ l \in Label \ parsed
  /\ parsed' = parsed \cup {l}
  /\ bind' = IF l = "main" THEN "hide" ELSE bind
  /\ UNCHANGED <<binds, group, drvdata, ledVars, cmdVars, updVars,
                 histVars>>

(* Out of memory or a label that the driver does not know: probe returns   *)
(* and leaves the attributes behind.                                       *)
BadChild ==
  /\ bind = "children"
  /\ bind' = "release"
  /\ UNCHANGED <<binds, attrVars, ledVars, cmdVars, updVars, histVars>>

EndProbe ==
  /\ bind = "children" /\ parsed = Label
  /\ bind' = "bound"
  /\ UNCHANGED <<binds, attrVars, ledVars, cmdVars, updVars, histVars>>

(* ltc3206_remove and the err label of probe.  sysfs_remove_group waits    *)
(* for the writes in progress.                                             *)
I2cRemove ==
  /\ bind = "bound"
  /\ bind' = "hide"
  /\ UNCHANGED <<binds, attrVars, ledVars, cmdVars, updVars, histVars>>

RemoveGroup ==
  /\ bind = "hide"
  /\ \A s \in Select : pc[s] = "idle"
  /\ group' = FALSE /\ bind' = "release"
  /\ UNCHANGED <<binds, parsed, drvdata, ledVars, cmdVars, updVars,
                 histVars>>

(* The driver core unregisters the LEDs, newest first, and the LED core    *)
(* switches each one off and waits for that update before.                 *)
Left == SubSeq(leds, 1, Len(leds) - gone)

SwitchOff ==
  LET l == Last(Left) IN
  /\ bind = "release" /\ Left # <<>> /\ ~off
  /\ pc[l] = "idle"
  /\ off' = TRUE
  /\ pc' = [pc EXCEPT ![l] = "clear"] /\ arg' = [arg EXCEPT ![l] = {}]
  /\ want' = [want EXCEPT ![l] = {}]
  /\ overlap' = (overlap \/ ~Rest)
  /\ UNCHANGED <<bind, binds, attrVars, leds, gone, cmdVars, tmp, calls,
                 faults>>

UnregisterLed ==
  /\ bind = "release" /\ off /\ pc[Last(Left)] = "idle"
  /\ off' = FALSE /\ gone' = gone + 1
  /\ UNCHANGED <<bind, binds, attrVars, leds, cmdVars, updVars, histVars>>

Unbound ==
  /\ bind = "release" /\ Left = <<>>
  /\ bind' = "unbound" /\ drvdata' = FALSE
  /\ leds' = <<>> /\ gone' = 0 /\ parsed' = {}
  /\ UNCHANGED <<binds, group, off, cmdVars, updVars, histVars>>

-----------------------------------------------------------------------------
(* A user sets the brightness of an LED: led_control, which refuses what   *)
(* is above 15.                                                            *)
LedControl(l, b) ==
  /\ pc[l] = "idle" /\ l \in ToSet(Left)
  /\ calls < MaxCall /\ ~(off /\ l = Last(Left))
  /\ calls' = calls + 1
  /\ IF b \subseteq 0..3
       THEN /\ pc' = [pc EXCEPT ![l] = "clear"]
            /\ arg' = [arg EXCEPT ![l] = b]
            /\ want' = [want EXCEPT ![l] = b]
            /\ overlap' = (overlap \/ ~Rest)
       ELSE UNCHANGED <<pc, arg, want, overlap>>
  /\ UNCHANGED <<bind, binds, attrVars, ledVars, cmdVars, tmp, faults>>

(* A process writes to rgb or sub; the value is "on", "off" or a bad one.  *)
(* Without private data, after a probe that left the attributes behind, it *)
(* dereferences NULL.                                                      *)
SelectCall(s, v) ==
  /\ pc[s] = "idle" /\ group /\ bind # "hide" /\ calls < MaxCall
  /\ calls' = calls + 1
  /\ pc' = [pc EXCEPT ![s] = IF drvdata THEN "set" ELSE "oops"]
  /\ arg' = [arg EXCEPT ![s] = v]
  /\ overlap' = (overlap \/ ~Rest)
  /\ UNCHANGED <<bind, binds, attrVars, ledVars, cmdVars, tmp, want,
                 faults>>

(* The compound assignments: load, then store.                             *)
Load(a) ==
  /\ pc[a] \in {"clear", "set"}
  /\ tmp' = [tmp EXCEPT ![a] = command[Byte(a)]]
  /\ pc' = [pc EXCEPT ![a] = IF @ = "clear" THEN "clear2" ELSE "set2"]
  /\ UNCHANGED <<bind, binds, attrVars, ledVars, cmdVars, arg, histVars>>

OnlyLedsSend(a) == IF a \in Label THEN "send" ELSE "idle"
AfterSet(a) == "send"

Store(a) ==
  /\ pc[a] \in {"clear2", "set2"}
  /\ command' = [command EXCEPT ![Byte(a)] =
                   IF pc[a] = "clear2" THEN ClearBits(a, tmp[a])
                                       ELSE SetBits(a, tmp[a])]
  /\ tmp' = [tmp EXCEPT ![a] = {}]
  /\ pc' = [pc EXCEPT ![a] = IF @ = "clear2" THEN "set" ELSE AfterSet(a)]
  /\ UNCHANGED <<bind, binds, attrVars, ledVars, chip, fresh, cs, arg,
                 histVars>>

(* ltc3206_led_write sends the bytes as they are now.                      *)
Send(a, ok) ==
  /\ pc[a] = "send"
  /\ IF ok THEN UNCHANGED faults ELSE Fault
  /\ chip' = IF ok THEN command ELSE chip
  /\ IF a \in Label \/ arg[a] = "bad"
       THEN pc' = [pc EXCEPT ![a] = "idle"] /\ arg' = [arg EXCEPT ![a] = {}]
       ELSE pc' = [pc EXCEPT ![a] = "pulse"] /\ arg' = arg
  /\ fresh' = (fresh /\ ~ok)
  /\ UNCHANGED <<bind, binds, attrVars, ledVars, command, cs, tmp, want,
                 calls, overlap>>

(* The pin is driven to one level and, after a sleep, to the other.        *)
Level(v) == IF v = "on" THEN 1 ELSE 0

Pulse(s) ==
  /\ pc[s] \in {"pulse", "pulse2"}
  /\ cs' = IF pc[s] = "pulse" THEN Level(arg[s]) ELSE 1 - Level(arg[s])
  /\ pc' = [pc EXCEPT ![s] = IF @ = "pulse" THEN "pulse2" ELSE "idle"]
  /\ arg' = [arg EXCEPT ![s] = IF pc[s] = "pulse" THEN @ ELSE {}]
  /\ UNCHANGED <<bind, binds, attrVars, ledVars, command, chip, fresh, tmp,
                 histVars>>

-----------------------------------------------------------------------------
Core ==
  \/ BadChild \/ EndProbe \/ RemoveGroup
  \/ SwitchOff \/ UnregisterLed \/ Unbound
  \/ \E l \in Label : RegisterLed(l) \/ FailToRegister(l)

Update(a) ==
  Load(a) \/ Store(a) \/ Pulse(a) \/ \E ok \in BOOLEAN : Send(a, ok)

Next ==
  \/ \E ok \in BOOLEAN : Probe(ok) \/ FailToProbe(ok)
  \/ I2cRemove \/ Core
  \/ \E l \in Label, b \in Brightness : LedControl(l, b)
  \/ \E s \in Select, v \in {"on", "off", "bad"} : SelectCall(s, v)
  \/ \E a \in Updater : Update(a)

Spec == Init /\ [][Next]_vars

-----------------------------------------------------------------------------
(* ChipShowsCommand: whenever no update is in progress and no transfer has *)
(* failed, the chip holds what the copy says, however the updates of the   *)
(* LEDs and of the attributes overlapped; only after probe, which sends    *)
(* other bytes than it copies, and before the first update it does not.    *)
ChipShowsCommand ==
  Rest /\ faults = 0 /\ drvdata /\ ~fresh => chip = command

(* ColoursAsAsked: as long as no two updates overlapped, the nibble of     *)
(* each of green and blue in the copy is the last brightness that was      *)
(* accepted for it, whatever the other LEDs and the attributes did in      *)
(* between.  (It does not hold for red, which rgb_select sets to full, nor *)
(* for main and sub, which share the lower nibble of their byte.)          *)
ColoursAsAsked ==
  Rest /\ ~overlap /\ drvdata =>
    \A l \in Label \cap {"green", "blue"} :
      command[1] \cap Mask(l) = Shifted(l, want[l])

(* DarkAfterRemove: as long as no two updates overlapped and no transfer   *)
(* failed, removing the driver leaves none of its LEDs on, whatever was    *)
(* set before, in whatever order the LEDs go; provided that no attribute   *)
(* was left behind.                                                        *)
DarkAfterRemove ==
  [][bind = "release" /\ bind' = "unbound" /\ ~overlap /\ faults = 0
       /\ ~group =>
       \A l \in ToSet(leds) : Shifted(l, 0..3) \cap chip[Byte(l)] = {}]_vars
=============================================================================
