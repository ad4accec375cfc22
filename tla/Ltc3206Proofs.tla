--------------------------- MODULE Ltc3206Proofs ---------------------------
(***************************************************************************)
(* Proofs about Ltc3206, for any set of LEDs and brightness values and any *)
(* number of updates, probes and failed transfers.                         *)
(***************************************************************************)
EXTENDS Ltc3206, TLAPS

(* Between its first load and its transfer an update has not shown the     *)
(* chip yet what it does to the copy.                                      *)
Busy(a) == pc[a] \in {"clear", "clear2", "set", "set2", "send"}

(* The control state of an updater is one of the modelled ones, and the    *)
(* driver has private data only while it is not unbound: a probe that      *)
(* fails may then overwrite the chip.                                      *)
Control ==
  /\ pc \in [Updater -> {"idle", "oops", "clear", "clear2", "set", "set2",
                         "send", "pulse", "pulse2"}]
  /\ faults \in Nat
  /\ bind = "unbound" => ~drvdata

(* Chip and copy differ only while somebody is about to send.              *)
Pending ==
  faults = 0 /\ drvdata /\ ~fresh => chip = command \/ \E a \in Updater : Busy(a)

IInv == Control /\ Pending

LEMMA InitIInv == Init => IInv
  BY DEF Init, IInv, Control, Pending

(* Actions of the driver core that leave copy, chip and updaters alone.    *)
LEMMA CoreKeeps ==
  ASSUME IInv,
         \/ \E ok \in BOOLEAN : Probe(ok) \/ FailToProbe(ok)
         \/ I2cRemove \/ BadChild \/ EndProbe \/ RemoveGroup \/ UnregisterLed
         \/ Unbound \/ \E l \in Label : RegisterLed(l) \/ FailToRegister(l)
  PROVE  IInv'
<1>1. ASSUME NEW ok \in BOOLEAN, Probe(ok) PROVE IInv'
  BY <1>1, LtcAssumption DEF IInv, Control, Pending, Probe, Fault, updVars
<1>2. ASSUME NEW ok \in BOOLEAN, FailToProbe(ok) PROVE IInv'
  BY <1>2, LtcAssumption DEF IInv, Control, Pending, FailToProbe, Fault,
     updVars, attrVars
<1>3. CASE I2cRemove \/ BadChild \/ EndProbe \/ RemoveGroup \/ UnregisterLed
  BY <1>3 DEF IInv, Control, Pending, Busy, I2cRemove, BadChild, EndProbe,
     RemoveGroup, UnregisterLed, updVars, attrVars, cmdVars, histVars
<1>4. CASE Unbound
  BY <1>4 DEF IInv, Control, Pending, Unbound, updVars, histVars
<1>5. ASSUME NEW l \in Label, RegisterLed(l) \/ FailToRegister(l) PROVE IInv'
  BY <1>5 DEF IInv, Control, Pending, Busy, RegisterLed, FailToRegister,
     updVars, cmdVars, histVars
<1>6. QED
  BY <1>1, <1>2, <1>3, <1>4, <1>5

(* An updater that starts was idle, so whoever was about to send still is. *)
LEMMA StartKeeps ==
  ASSUME IInv, NEW a \in Updater, NEW p \in {"clear", "set", "oops"},
         pc[a] = "idle", pc' = [pc EXCEPT ![a] = p],
         UNCHANGED <<bind, attrVars, cmdVars, faults>>
  PROVE  IInv'
<1>1. Control'
  BY DEF IInv, Control, attrVars
<1>2. \A b \in Updater : Busy(b) => Busy(b)'
  BY DEF IInv, Control, Busy
<1>3. QED
  BY <1>1, <1>2 DEF IInv, Pending, attrVars, cmdVars

(* The steps of an update: it stays busy until the transfer, and the       *)
(* transfer makes chip and copy equal or counts as a failure.              *)
LEMMA UpdateKeeps ==
  ASSUME IInv, NEW a \in Updater, Update(a)
  PROVE  IInv'
<1>1. CASE Load(a)
  <2>1. Control'
    BY <1>1 DEF IInv, Control, Load, attrVars, histVars
  <2>2. Busy(a)'
    BY <1>1 DEF IInv, Control, Busy, Load
  <2>3. QED
    BY <2>1, <2>2 DEF IInv, Pending
<1>2. CASE Store(a)
  <2>1. Control'
    BY <1>2 DEF IInv, Control, Store, AfterSet, attrVars, histVars
  <2>2. Busy(a)'
    BY <1>2 DEF IInv, Control, Busy, Store, AfterSet
  <2>3. QED
    BY <2>1, <2>2 DEF IInv, Pending
<1>3. CASE Pulse(a)
  <2>1. Control'
    BY <1>3 DEF IInv, Control, Pulse, attrVars, histVars
  <2>2. \A b \in Updater : Busy(b) => Busy(b)'
    BY <1>3 DEF IInv, Control, Busy, Pulse
  <2>3. QED
    BY <1>3, <2>1, <2>2 DEF IInv, Pending, Pulse, attrVars, histVars
<1>4. ASSUME NEW ok \in BOOLEAN, Send(a, ok) PROVE IInv'
  <2>1. faults' \in Nat /\ (~ok => faults' # 0)
    BY <1>4 DEF IInv, Control, Send, Fault
  <2>2. Control'
    BY <1>4, <2>1 DEF IInv, Control, Send, attrVars
  <2>3. ok => chip' = command'
    BY <1>4 DEF Send
  <2>4. QED
    BY <2>1, <2>2, <2>3 DEF IInv, Pending
<1>5. QED
  BY <1>1, <1>2, <1>3, <1>4 DEF Update

LEMMA NextKeeps == IInv /\ [Next]_vars => IInv'
<1> SUFFICES ASSUME IInv, [Next]_vars PROVE IInv'
  OBVIOUS
<1>1. ASSUME NEW l \in Label, NEW b \in Brightness, LedControl(l, b)
      PROVE  IInv'
  <2>1. CASE b \subseteq 0..3
    BY <1>1, <2>1, StartKeeps DEF LedControl, Updater
  <2>2. CASE ~(b \subseteq 0..3)
    BY <1>1, <2>2 DEF LedControl, IInv, Control, Pending, Busy, attrVars,
       cmdVars
  <2>3. QED
    BY <2>1, <2>2
<1>2. ASSUME NEW s \in Select, NEW v \in {"on", "off", "bad"},
             SelectCall(s, v)
      PROVE  IInv'
  BY <1>2, StartKeeps DEF SelectCall, Updater
<1>3. CASE SwitchOff
  <2>1. CASE Last(Left) \in Updater
    BY <1>3, <2>1, StartKeeps DEF SwitchOff
  <2>2. CASE Last(Left) \notin Updater
    <3>1. pc' = pc
      BY <1>3, <2>2 DEF SwitchOff, IInv, Control
    <3>2. QED
      BY <1>3, <3>1 DEF SwitchOff, IInv, Control, Pending, Busy, attrVars,
         cmdVars
  <2>3. QED
    BY <2>1, <2>2
<1>4. ASSUME NEW a \in Updater, Update(a) PROVE IInv'
  BY <1>4, UpdateKeeps
<1>5. CASE UNCHANGED vars
  BY <1>5 DEF vars, IInv, Control, Pending, Busy, attrVars, cmdVars, updVars,
     histVars
<1>6. QED
  BY <1>1, <1>2, <1>3, <1>4, <1>5, CoreKeeps DEF Next, Core

(* ChipIsInStep: in every state in which no update is in progress and no   *)
(* transfer has failed, the chip shows the driver's copy of its command    *)
(* bytes, however updates overlapped before (ltc3206_led_write is always   *)
(* the last thing an update does to either).                               *)
THEOREM ChipIsInStep == Spec => []ChipShowsCommand
<1>1. IInv => ChipShowsCommand
  BY DEF IInv, Pending, Busy, ChipShowsCommand, Rest
<1>2. QED
  BY <1>1, InitIInv, NextKeeps, PTL DEF Spec

-----------------------------------------------------------------------------
(* ColoursAsAsked and DarkAfterRemove.                                     *)
(* The registered LEDs are distinct; leds[Top] is the newest that has not  *)
(* been unregistered yet.                                                  *)
Top == Len(leds) - gone

Registry ==
  /\ bind \in {"unbound", "children", "bound", "hide", "release"}
  /\ leds \in Seq(Label) /\ gone \in Nat /\ gone <= Len(leds)
  /\ off \in BOOLEAN /\ drvdata \in BOOLEAN /\ group \in BOOLEAN
  /\ \A i \in 1..Len(leds) : leds[i] \in parsed
  /\ \A i, j \in 1..Len(leds) : leds[i] = leds[j] => i = j
  /\ bind # "release" => gone = 0 /\ ~off
  /\ drvdata <=> bind # "unbound"
  /\ bind = "unbound" => Len(leds) = 0
  /\ off => gone < Len(leds)

Live(l)    == \E i \in 1..Top : leds[i] = l
Leaving(l) == off /\ l = leds[Top]
Gone(l)    == \E i \in 1..Len(leds) : i > Top /\ leds[i] = l

Active(a) == pc[a] \notin {"idle", "oops"}

(* Only a registered LED is updated, with the brightness that it accepted. *)
(* One that is leaving has accepted 0.                                     *)
Updates ==
  /\ command \in [0..2 -> SUBSET Bits] /\ chip \in [0..2 -> SUBSET Bits]
  /\ tmp \in [Updater -> SUBSET Bits] /\ want \in [Label -> SUBSET (0..3)]
  /\ pc \in [Updater -> {"idle", "oops", "clear", "clear2", "set", "set2", "send",
                         "pulse", "pulse2"}]
  /\ DOMAIN arg = Updater /\ arg = [a \in Updater |-> arg[a]]
  /\ faults \in Nat /\ overlap \in BOOLEAN
  /\ \A l \in Label : /\ pc[l] \in {"idle", "clear", "clear2", "set", "set2", "send"}
                      /\ pc[l] # "idle" => Live(l)
                      /\ pc[l] \in {"clear", "clear2", "set", "set2"} => arg[l] = want[l]
                      /\ want[l] # {} => Live(l) /\ ~Leaving(l)
  /\ \A s \in Select : pc[s] \notin {"clear", "clear2"} /\ (~group => pc[s] = "idle")

(* Without overlaps there is one update at a time, and what it has loaded  *)
(* is still there.                                                         *)
Serial ==
  ~overlap =>
    /\ \A a, b \in Updater : Active(a) /\ Active(b) => a = b
    /\ \A a \in Updater : pc[a] \in {"clear2", "set2"} => tmp[a] = command[Byte(a)]

(* main, masked after its shift, never sets a bit; sub only the lower ones. *)
LowNibble ==
  /\ command[2] \subseteq 0..3 /\ chip[2] \subseteq 0..3
  /\ \A l \in Label : Byte(l) = 2 => tmp[l] \subseteq 0..3

Colours ==
  ~overlap /\ drvdata =>
    \A l \in Label \cap {"green", "blue"} :
      /\ pc[l] \in {"idle", "send"} => command[1] \cap Mask(l) = Shifted(l, want[l])
      /\ pc[l] \in {"set", "set2"} => command[1] \cap Mask(l) = {}

(* An LED is dark in the copy from the first half of its last update on,   *)
(* and on the chip from the end of it.                                     *)
Dark(l, bytes) == Shifted(l, 0..3) \cap bytes[Byte(l)] = {}

Leavers ==
  ~overlap /\ faults = 0 /\ ~group /\ bind = "release" =>
    \A l \in Label :
      /\ Gone(l) => Dark(l, command) /\ Dark(l, chip)
      /\ Leaving(l) => /\ pc[l] \in {"set", "set2", "send", "idle"} => Dark(l, command)
                       /\ pc[l] = "idle" => Dark(l, chip)

ColourInv == Registry /\ Updates /\ Serial /\ LowNibble /\ Colours /\ Leavers

LEMMA LabelFacts ==
  /\ Label \cap Select = {} /\ Label \subseteq Updater /\ Select \subseteq Updater
  /\ \A a \in Updater : Byte(a) \in 0..2
  /\ \A s \in Select : Byte(s) = 0
  /\ \A l \in Label : Byte(l) = 1 <=> l \in {"green", "blue"}
  /\ \A l \in Label : Byte(l) = 2 <=> l \in {"main", "sub"}
  BY LtcAssumption DEF Select, Updater, Byte

LEMMA ShiftFacts ==
  ASSUME NEW l \in Label
  PROVE  /\ Shifted(l, 0..3) = (IF l \in {"red", "blue", "main"} THEN 4..7 ELSE 0..3)
         /\ Shifted(l, {}) = {}
         /\ \A b \in SUBSET (0..3) : Shifted(l, b) \subseteq Shifted(l, 0..3)
         /\ l \in {"green", "blue"} => Mask(l) = Shifted(l, 0..3)
         /\ l # "main" => Mask(l) = Shifted(l, 0..3)
         /\ l = "main" => Mask(l) = 0..3
         /\ l \in {"main", "sub"} => Mask(l) = 0..3
<1>1. Shifted(l, 0..3) = (IF l \in {"red", "blue", "main"} THEN 4..7 ELSE 0..3)
  <2>1. CASE l \in {"red", "blue", "main"}
    <3>1. Shifted(l, 0..3) = {i + 4 : i \in 0..3}
      BY <2>1 DEF Shifted, Shift
    <3>2. {i + 4 : i \in 0..3} = 4..7
      <4>1. ASSUME NEW j \in 4..7 PROVE j \in {i + 4 : i \in 0..3}
        <5>1. j - 4 \in 0..3 /\ j = (j - 4) + 4
          OBVIOUS
        <5> QED
          BY <5>1
      <4> QED
        BY <4>1
    <3> QED
      BY <2>1, <3>1, <3>2
  <2>2. CASE l \notin {"red", "blue", "main"}
    <3>1. Shifted(l, 0..3) = {i + 0 : i \in 0..3}
      BY <2>2 DEF Shifted, Shift
    <3>2. {i + 0 : i \in 0..3} = 0..3
      OBVIOUS
    <3> QED
      BY <2>2, <3>1, <3>2
  <2> QED
    BY <2>1, <2>2
<1>2. Shifted(l, {}) = {}
  BY DEF Shifted
<1>3. \A b \in SUBSET (0..3) : Shifted(l, b) \subseteq Shifted(l, 0..3)
  BY DEF Shifted
<1>4. Mask(l) = (IF l \in {"red", "blue"} THEN 4..7 ELSE 0..3)
  BY DEF Mask
<1>5. l \in {"red", "green", "blue", "main", "sub"}
  BY LtcAssumption
<1>6. l # "main" => Mask(l) = Shifted(l, 0..3)
  BY <1>1, <1>4, <1>5
<1> QED
  BY <1>1, <1>2, <1>3, <1>4, <1>6

(* What the two assignments do to the nibble of a colour: its own update   *)
(* clears it and puts in the brightness, another one leaves it alone.      *)
LEMMA NibbleFacts ==
  ASSUME NEW l \in Label \cap {"green", "blue"}, NEW byte \in SUBSET Bits
  PROVE  /\ ClearBits(l, byte) \cap Mask(l) = {}
         /\ arg[l] \in SUBSET (0..3) /\ byte \cap Mask(l) = {} =>
              SetBits(l, byte) \cap Mask(l) = Shifted(l, arg[l])
         /\ \A a \in Label \cap {"green", "blue"} : a # l =>
              /\ ClearBits(a, byte) \cap Mask(l) = byte \cap Mask(l)
              /\ SetBits(a, byte) \cap Mask(l) = byte \cap Mask(l)
<1>1. \A a \in Label \cap {"green", "blue"} :
        SetBits(a, byte) = byte \cup (Shifted(a, arg[a]) \cap Mask(a))
  BY DEF SetBits
<1>2. Mask(l) = (IF l = "blue" THEN 4..7 ELSE 0..3)
  BY DEF Mask
<1>3. arg[l] \in SUBSET (0..3) => Shifted(l, arg[l]) \subseteq Mask(l)
  BY ShiftFacts
<1>4. ASSUME NEW a \in Label \cap {"green", "blue"}, a # l PROVE Mask(a) \cap Mask(l) = {}
  <2>1. \/ Mask(a) = 4..7 /\ Mask(l) = 0..3
        \/ Mask(a) = 0..3 /\ Mask(l) = 4..7
    BY <1>4 DEF Mask
  <2> QED
    BY <2>1
<1>5. ClearBits(l, byte) \cap Mask(l) = {}
  BY DEF ClearBits
<1>6. arg[l] \in SUBSET (0..3) /\ byte \cap Mask(l) = {} =>
        SetBits(l, byte) \cap Mask(l) = Shifted(l, arg[l])
  BY <1>1, <1>3
<1>7. ASSUME NEW a \in Label \cap {"green", "blue"}, a # l
      PROVE  /\ ClearBits(a, byte) \cap Mask(l) = byte \cap Mask(l)
             /\ SetBits(a, byte) \cap Mask(l) = byte \cap Mask(l)
  BY <1>1, <1>4, <1>7 DEF ClearBits
<1> QED
  BY <1>5, <1>6, <1>7

(* What has no bit in common with a byte has none with a part of it.       *)
LEMMA Disjoint ==
  \A A, B, C : A \cap B = {} /\ C \subseteq B => A \cap C = {}
  OBVIOUS

(* What they do to an LED that is dark: nothing, as long as it is the      *)
(* brightness of another LED that is set, or its own brightness is 0.      *)
LEMMA DarkFacts ==
  ASSUME NEW l \in Label, NEW byte \in SUBSET Bits
  PROVE  /\ (l # "main" \/ byte \subseteq 0..3) =>
              Shifted(l, 0..3) \cap ClearBits(l, byte) = {}
         /\ \A a \in Label : Shifted(l, 0..3) \cap byte = {} =>
              Shifted(l, 0..3) \cap ClearBits(a, byte) = {}
         /\ arg[l] = {} => SetBits(l, byte) = byte
         /\ \A a \in Label : a # l /\ Byte(a) = Byte(l) /\ arg[a] \in SUBSET (0..3) =>
              Shifted(l, 0..3) \cap SetBits(a, byte) = Shifted(l, 0..3) \cap byte
<1>1. \A a \in Label : SetBits(a, byte) = byte \cup (Shifted(a, arg[a]) \cap Mask(a))
  BY LtcAssumption DEF SetBits
<1>2. (l # "main" \/ byte \subseteq 0..3) => Shifted(l, 0..3) \cap ClearBits(l, byte) = {}
  <2>1. CASE l # "main"
    BY <2>1, ShiftFacts DEF ClearBits
  <2>2. CASE l = "main" /\ byte \subseteq 0..3
    <3>1. Shifted(l, 0..3) = 4..7
      BY <2>2, ShiftFacts
    <3> QED
      BY <2>2, <3>1 DEF ClearBits
  <2> QED
    BY <2>1, <2>2
<1>3. \A a \in Label : Shifted(l, 0..3) \cap byte = {} =>
        Shifted(l, 0..3) \cap ClearBits(a, byte) = {}
  <2>1. \A a \in Label : ClearBits(a, byte) \subseteq byte
    BY DEF ClearBits
  <2> QED
    BY <2>1, Disjoint, Zenon
<1>4. ASSUME arg[l] = {} PROVE SetBits(l, byte) = byte
  <2>1. Shifted(l, {}) = {}
    BY DEF Shifted
  <2>2. SetBits(l, byte) = byte \cup (Shifted(l, {}) \cap Mask(l))
    BY <1>1, <1>4
  <2> QED
    BY <2>1, <2>2
<1>5. ASSUME NEW a \in Label, a # l, Byte(a) = Byte(l), arg[a] \in SUBSET (0..3)
      PROVE  Shifted(l, 0..3) \cap SetBits(a, byte) = Shifted(l, 0..3) \cap byte
  <2>1. \/ l = "green" /\ a = "blue"
        \/ l = "blue" /\ a = "green"
        \/ l = "main" /\ a = "sub"
        \/ l = "sub" /\ a = "main"
    <3>1. \A x \in Label : /\ x \in {"red", "green", "blue", "main", "sub"}
                           /\ x = "red" => Byte(x) = 0
      BY LtcAssumption DEF Byte
    <3> QED
      BY <1>5, <3>1, LabelFacts
  <2>2. /\ Shifted(l, 0..3) = (IF l \in {"red", "blue", "main"} THEN 4..7 ELSE 0..3)
        /\ Shifted(a, arg[a]) \subseteq (IF a \in {"red", "blue", "main"} THEN 4..7 ELSE 0..3)
    BY <1>5, ShiftFacts
  <2>3. Shifted(l, 0..3) \cap (Shifted(a, arg[a]) \cap Mask(a)) = {}
    <3>1. CASE l = "green" /\ a = "blue"
      BY <2>2, <3>1
    <3>2. CASE l = "blue" /\ a = "green"
      BY <2>2, <3>2
    <3>3. CASE l = "main" /\ a = "sub"
      BY <2>2, <3>3
    <3>4. CASE l = "sub" /\ a = "main"
      <4>1. Mask(a) = 0..3 /\ Shifted(a, arg[a]) \subseteq 4..7
        BY <2>2, <3>4 DEF Mask
      <4> QED
        BY <4>1
    <3> QED
      BY <2>1, <3>1, <3>2, <3>3, <3>4
  <2> QED
    BY <1>1, <2>3
<1> QED
  BY <1>2, <1>3, <1>4, <1>5

LEMMA LeftFacts ==
  ASSUME Registry
  PROVE  /\ Top \in 0..Len(leds) /\ Len(leds) \in Nat /\ (off => Top > 0)
         /\ Left # <<>> <=> Top > 0
         /\ Top > 0 => Last(Left) = leds[Top]
         /\ \A l \in ToSet(Left) : Live(l)
<1>1. /\ Len(leds) \in Nat /\ Top \in 0..Len(leds) /\ leds \in Seq(Label) /\ (off => Top > 0)
  BY DEF Registry, Top
<1>2. Left = SubSeq(leds, 1, Top)
  BY DEF Left, Top
<1>3. PICK n \in 0..Len(leds) : n = Top
  BY <1>1
<1>4. /\ Left \in Seq(Label) /\ Len(Left) = n /\ DOMAIN Left = 1..n
      /\ \A i \in 1..n : Left[i] = leds[i]
  BY <1>1, <1>2, <1>3
<1>5. Left # <<>> <=> n > 0
  <2>1. \A t \in Seq(Label) : t = <<>> <=> Len(t) = 0
    OBVIOUS
  <2> QED
    BY <1>1, <1>3, <1>4, <2>1
<1>6. n > 0 => Last(Left) = leds[n]
  BY <1>1, <1>3, <1>4 DEF Last
<1>7. ASSUME NEW l \in ToSet(Left) PROVE Live(l)
  BY <1>3, <1>4 DEF ToSet, Live
<1> QED
  BY <1>1, <1>3, <1>5, <1>6, <1>7

LEMMA ColourInit == Init => ColourInv
<1> SUFFICES ASSUME Init PROVE ColourInv
  OBVIOUS
<1>1. /\ bind = "unbound" /\ leds = <<>> /\ gone = 0 /\ off = FALSE /\ drvdata = FALSE
      /\ group = FALSE /\ overlap = FALSE /\ faults = 0
      /\ \A a \in Updater : pc[a] = "idle"
      /\ \A i \in 0..2 : command[i] = {} /\ chip[i] = {}
      /\ \A a \in Updater : tmp[a] = {}
      /\ \A l \in Label : want[l] = {}
  BY DEF Init
<1>2. Registry
  <2>1. leds \in Seq(Label) /\ Len(leds) = 0
    BY <1>1
  <2> QED
    <3>1. off \in BOOLEAN /\ drvdata \in BOOLEAN /\ group \in BOOLEAN
      BY <1>1
    <3>2. gone \in Nat /\ gone <= Len(leds) /\ \A i \in 1..Len(leds) : FALSE
      BY <1>1, <2>1
    <3> QED
      BY <1>1, <2>1, <3>1, <3>2 DEF Registry
<1>3. Updates
  <2>1. /\ command \in [0..2 -> SUBSET Bits] /\ chip \in [0..2 -> SUBSET Bits]
        /\ tmp \in [Updater -> SUBSET Bits] /\ want \in [Label -> SUBSET (0..3)]
        /\ pc \in [Updater -> {"idle", "oops", "clear", "clear2", "set", "set2", "send",
                               "pulse", "pulse2"}]
        /\ DOMAIN arg = Updater /\ arg = [a \in Updater |-> arg[a]]
    BY DEF Init
  <2>2. faults \in Nat /\ overlap \in BOOLEAN
    BY <1>1
  <2> QED
    BY <1>1, <2>1, <2>2, LabelFacts DEF Updates
<1>4. Serial /\ Colours /\ Leavers
  BY <1>1 DEF Serial, Colours, Leavers, Active
<1>5. LowNibble
  BY <1>1, LabelFacts DEF LowNibble
<1> QED
  BY <1>2, <1>3, <1>4, <1>5 DEF ColourInv

(* Steps of the driver core that leave the LEDs, the bytes and the updates *)
(* alone.                                                                  *)
LEMMA ColourCore ==
  ASSUME ColourInv,
         \/ I2cRemove \/ BadChild \/ EndProbe \/ RemoveGroup \/ UNCHANGED vars
         \/ \E l \in Label : FailToRegister(l)
  PROVE  ColourInv'
<1>1. /\ UNCHANGED <<leds, gone, off, drvdata, command, chip, tmp, pc, arg, want, faults, overlap>>
      /\ parsed \subseteq parsed'
  BY DEF I2cRemove, BadChild, EndProbe, RemoveGroup, vars, FailToRegister, attrVars, ledVars,
     cmdVars, updVars, histVars
<1>2. /\ \/ bind' = bind
         \/ bind # "release" /\ bind # "unbound" /\ bind' \in {"bound", "hide", "release"}
      /\ bind' = bind \/ bind # "release"
  BY DEF I2cRemove, BadChild, EndProbe, RemoveGroup, vars, FailToRegister
<1>3. /\ group' \in BOOLEAN
      /\ group' = group \/ (bind = "hide" /\ group' = FALSE /\ \A s \in Select : pc[s] = "idle")
  BY DEF I2cRemove, BadChild, EndProbe, RemoveGroup, vars, FailToRegister, attrVars,
     ColourInv, Registry
<1>4. Top' = Top /\ \A l \in Label : /\ Live(l)' <=> Live(l) 
                                     /\ Leaving(l)' <=> Leaving(l)
                                     /\ Gone(l)' <=> Gone(l)
  BY <1>1 DEF Top, Live, Leaving, Gone
<1>5. Registry'
  BY <1>1, <1>2, <1>3 DEF ColourInv, Registry
<1>6. Updates'
  <2>1. \A s \in Select : pc[s] \notin {"clear", "clear2"} /\ (~group' => pc[s] = "idle")
    BY <1>3 DEF ColourInv, Updates
  <2>2. \A l \in Label : /\ pc[l] # "idle" => Live(l)'
                         /\ want[l] # {} => Live(l)' /\ ~Leaving(l)'
    BY <1>4 DEF ColourInv, Updates
  <2> QED
    BY <1>1, <2>1, <2>2 DEF ColourInv, Updates
<1>7. Serial' /\ LowNibble' /\ Colours'
  BY <1>1 DEF ColourInv, Serial, LowNibble, Colours, Active
<1>8. Leavers'
  <2>1. CASE bind' = bind /\ group' = group
    BY <1>1, <1>4, <2>1 DEF ColourInv, Leavers, Dark
  <2>2. CASE ~(bind' = bind /\ group' = group)
    <3>1. gone = 0 /\ ~off /\ Top = Len(leds)
      BY <1>2, <1>3, <2>2 DEF ColourInv, Registry, Top
    <3>2. \A l \in Label : ~Gone(l) /\ ~Leaving(l)
      BY <3>1 DEF Gone, Leaving
    <3> QED
      BY <1>4, <3>2 DEF Leavers
  <2> QED
    BY <2>1, <2>2
<1> QED
  BY <1>5, <1>6, <1>7, <1>8 DEF ColourInv

LEMMA ColourProbe ==
  ASSUME ColourInv, NEW ok \in BOOLEAN, Probe(ok) \/ FailToProbe(ok) PROVE ColourInv'
<1>1. /\ UNCHANGED <<leds, gone, off, tmp, pc, arg, want, overlap>>
      /\ bind = "unbound" /\ bind' \in {"unbound", "children"} /\ faults' \in {faults, faults + 1}
      /\ chip' = chip \/ chip' = ProbeBytes
  BY DEF Probe, FailToProbe, ledVars, updVars, Fault
<1>2. \/ /\ bind' = "children" /\ drvdata' = TRUE /\ command' = [i \in 0..2 |-> {}] /\ group' = TRUE
      \/ /\ UNCHANGED <<bind, drvdata, command, group>>
  BY DEF Probe, FailToProbe, attrVars
<1>3. Len(leds) = 0 /\ gone = 0 /\ ~off /\ Top = 0 /\ Top' = 0 /\ ~drvdata
  BY <1>1 DEF ColourInv, Registry, Top
<1>4. \A l \in Label : ~Live(l) /\ ~Live(l)'
  BY <1>3 DEF Live
<1>5. \A l \in Label : pc[l] = "idle" /\ want[l] = {}
  BY <1>4 DEF ColourInv, Updates
<1>6. Registry'
  <2>1. \A i \in 1..Len(leds) : FALSE
    BY <1>3
  <2>2. /\ group' \in BOOLEAN /\ drvdata' \in BOOLEAN
        /\ drvdata' <=> bind' # "unbound"
    <3>1. CASE /\ bind' = "children" /\ drvdata' = TRUE /\ group' = TRUE
      BY <3>1
    <3>2. CASE UNCHANGED <<bind, drvdata, group>>
      BY <3>2 DEF ColourInv, Registry
    <3> QED
      BY <1>2, <3>1, <3>2
  <2> QED
    BY <1>1, <1>3, <2>1, <2>2 DEF ColourInv, Registry
<1>7. /\ command' \in [0..2 -> SUBSET Bits] /\ chip' \in [0..2 -> SUBSET Bits]
      /\ command'[2] \subseteq 0..3 /\ chip'[2] \subseteq 0..3
  BY <1>1, <1>2 DEF ColourInv, Updates, LowNibble, ProbeBytes, Bits
<1>8. Updates'
  BY <1>1, <1>2, <1>5, <1>7 DEF ColourInv, Updates
<1>9. Serial'
  <2>1. \A a \in Updater : pc[a] \in {"clear2", "set2"} => a \in Select /\ pc[a] = "set2"
    BY <1>5 DEF Updater, ColourInv, Updates
  <2>2. group' = TRUE => command' = [i \in 0..2 |-> {}] \/ command' = command
    BY <1>2
  <2>3. CASE command' = command
    BY <1>1, <2>3 DEF ColourInv, Serial, Active
  <2>4. CASE command' # command
    <3>1. ~group
      BY <1>2, <2>4 DEF Probe, FailToProbe
    <3>2. \A a \in Updater : pc[a] \notin {"clear2", "set2"}
      BY <2>1, <3>1 DEF ColourInv, Updates
    <3> QED
      BY <1>1, <3>2 DEF ColourInv, Serial, Active
  <2> QED
    BY <2>3, <2>4
<1>10. LowNibble'
  BY <1>1, <1>7 DEF ColourInv, LowNibble
<1>11. Colours'
  <2>1. CASE ~drvdata'
    BY <2>1 DEF Colours
  <2>2. CASE command' = [i \in 0..2 |-> {}]
    <3>1. command'[1] = {} /\ \A l \in Label : pc'[l] = "idle" /\ want'[l] = {}
      BY <1>1, <1>5, <2>2
    <3>2. \A l \in Label : Shifted(l, want[l])' = {}
      BY <3>1 DEF Shifted
    <3> QED
      BY <3>1, <3>2 DEF Colours
  <2> QED
    BY <1>2, <1>3, <2>1, <2>2
<1>12. Leavers'
  BY <1>1 DEF Leavers
<1> QED
  BY <1>6, <1>8, <1>9, <1>10, <1>11, <1>12 DEF ColourInv

LEMMA ColourRegister ==
  ASSUME ColourInv, NEW l \in Label, RegisterLed(l) PROVE ColourInv'
<1>1. /\ bind = "children" /\ l \notin parsed /\ parsed' = parsed \cup {l}
      /\ leds' = Append(leds, l) /\ want' = [want EXCEPT ![l] = {}]
      /\ UNCHANGED <<bind, group, drvdata, gone, off, command, chip, tmp, pc, arg, faults, overlap>>
  BY DEF RegisterLed, cmdVars, updVars
<1>2. /\ leds \in Seq(Label) /\ gone = 0 /\ ~off
      /\ \A i \in 1..Len(leds) : leds[i] \in parsed
  BY <1>1 DEF ColourInv, Registry
<1>3. PICK n \in Nat : n = Len(leds)
  BY <1>2
<1>4. /\ leds' \in Seq(Label) /\ Len(leds') = n + 1 /\ leds'[n + 1] = l
      /\ \A i \in 1..n : leds'[i] = leds[i]
  BY <1>1, <1>2, <1>3
<1>5. Top = n /\ Top' = n + 1
  BY <1>1, <1>2, <1>3, <1>4 DEF Top
<1>6. ~Live(l) /\ \A m \in Label : Live(m) => Live(m)'
  BY <1>1, <1>2, <1>3, <1>4, <1>5 DEF Live
<1>7. pc[l] = "idle" /\ want' = want
  BY <1>1, <1>6 DEF ColourInv, Updates
<1>8. Registry'
  <2>1. \A i \in 1..(n + 1) : i \in 1..n \/ i = n + 1
    OBVIOUS
  <2>2. \A i \in 1..(n + 1) : leds'[i] \in parsed'
    BY <1>1, <1>2, <1>3, <1>4, <2>1
  <2>3. \A i, j \in 1..(n + 1) : leds'[i] = leds'[j] => i = j
    BY <1>1, <1>2, <1>3, <1>4, <2>1 DEF ColourInv, Registry
  <2> QED
    BY <1>1, <1>2, <1>4, <2>2, <2>3 DEF ColourInv, Registry
<1>9. Updates'
  BY <1>1, <1>2, <1>6, <1>7 DEF ColourInv, Updates, Leaving
<1>10. Serial' /\ LowNibble' /\ Colours'
  BY <1>1, <1>7 DEF ColourInv, Serial, LowNibble, Colours, Active
<1>11. Leavers'
  BY <1>1 DEF Leavers
<1> QED
  BY <1>8, <1>9, <1>10, <1>11 DEF ColourInv

(* An update starts.  If it overlaps with none, all others are at rest.    *)
LEMMA SerialStart ==
  ASSUME ColourInv, NEW a \in Updater, NEW p \in {"clear", "set", "oops"}, pc[a] = "idle",
         pc' = [pc EXCEPT ![a] = p], overlap' = (overlap \/ ~Rest), UNCHANGED <<tmp, command>>
  PROVE  Serial'
<1>1. pc'[a] = p /\ \A b \in Updater : b # a => pc'[b] = pc[b]
  BY DEF ColourInv, Updates
<1>2. ~overlap' => ~overlap /\ \A b \in Updater : pc[b] \in {"idle", "oops"}
  BY DEF Rest
<1> QED
  BY <1>1, <1>2 DEF Serial, Active

LEMMA ColourSwitchOff == ASSUME ColourInv, SwitchOff PROVE ColourInv'
<1>1. Registry
  BY DEF ColourInv
<1>2. PICK l \in Label : l = leds[Top] /\ l = Last(Left) /\ Live(l) /\ Top > 0
  <2>1. Top > 0 /\ Top \in 1..Len(leds) /\ leds \in Seq(Label) /\ Last(Left) = leds[Top]
    BY <1>1, LeftFacts DEF SwitchOff, Registry
  <2> QED
    BY <2>1 DEF Live
<1>3. /\ bind = "release" /\ ~off /\ pc[l] = "idle" /\ off' = TRUE
      /\ pc' = [pc EXCEPT ![l] = "clear"] /\ arg' = [arg EXCEPT ![l] = {}]
      /\ want' = [want EXCEPT ![l] = {}] /\ overlap' = (overlap \/ ~Rest)
      /\ UNCHANGED <<bind, parsed, group, drvdata, leds, gone, command, chip, tmp, faults>>
  BY <1>2 DEF SwitchOff, attrVars, cmdVars
<1>4. l \in Updater /\ l \notin Select
  BY LabelFacts
<1>5. /\ pc'[l] = "clear" /\ arg'[l] = {} /\ want'[l] = {}
      /\ \A a \in Updater : a # l => pc'[a] = pc[a] /\ arg'[a] = arg[a]
      /\ \A m \in Label : m # l => want'[m] = want[m]
      /\ pc' \in [Updater -> {"idle", "oops", "clear", "clear2", "set", "set2", "send",
                              "pulse", "pulse2"}]
      /\ want' \in [Label -> SUBSET (0..3)]
      /\ DOMAIN arg' = Updater /\ arg' = [a \in Updater |-> arg'[a]]
  BY <1>3, <1>4 DEF ColourInv, Updates
<1>6. /\ Top' = Top /\ \A m \in Label : /\ Live(m)' <=> Live(m)
                                        /\ Leaving(m)' <=> m = l
                                        /\ Gone(m)' <=> Gone(m)
  BY <1>2, <1>3 DEF Top, Live, Leaving, Gone
<1>7. Registry'
  BY <1>1, <1>2, <1>3 DEF Registry, Top
<1>8. Updates'
  <2>1. overlap' \in BOOLEAN
    BY <1>3
  <2>2. \A m \in Label : m \in Updater
    BY LabelFacts
  <2>3. \A s \in Select : s \in Updater /\ s # l
    BY <1>4, LabelFacts
  <2>4. \A s \in Select : pc'[s] \notin {"clear", "clear2"} /\ (~group' => pc'[s] = "idle")
    BY <1>3, <1>5, <2>3 DEF ColourInv, Updates
  <2>5. \A m \in Label :
          /\ pc'[m] \in {"idle", "clear", "clear2", "set", "set2", "send"}
          /\ pc'[m] # "idle" => Live(m)'
          /\ pc'[m] \in {"clear", "clear2", "set", "set2"} => arg'[m] = want'[m]
          /\ want'[m] # {} => Live(m)' /\ ~Leaving(m)'
    <3> TAKE m \in Label
    <3>1. CASE m = l
      BY <1>2, <1>5, <1>6, <3>1
    <3>2. CASE m # l
      BY <1>5, <1>6, <2>2, <3>2 DEF ColourInv, Updates
    <3> QED
      BY <3>1, <3>2
  <2>6. /\ command' \in [0..2 -> SUBSET Bits] /\ chip' \in [0..2 -> SUBSET Bits]
        /\ tmp' \in [Updater -> SUBSET Bits] /\ faults' \in Nat
    BY <1>3 DEF ColourInv, Updates
  <2> QED
    BY <1>5, <2>1, <2>4, <2>5, <2>6 DEF Updates
<1>9. Serial'
  BY <1>3, <1>4, SerialStart
<1>10. LowNibble'
  BY <1>3 DEF ColourInv, LowNibble
<1>11. Colours'
  <2>1. ~overlap' => ~overlap
    BY <1>3
  <2>2. ASSUME NEW m \in Label, m # l PROVE Shifted(m, want[m])' = Shifted(m, want[m])
    BY <1>5, <2>2 DEF Shifted
  <2> QED
    BY <1>3, <1>5, <2>1, <2>2, LabelFacts DEF ColourInv, Colours
<1>12. Leavers'
  <2>1. ~overlap' => ~overlap
    BY <1>3
  <2> QED
    BY <1>3, <1>5, <1>6, <2>1 DEF ColourInv, Leavers, Dark
<1> QED
  BY <1>7, <1>8, <1>9, <1>10, <1>11, <1>12 DEF ColourInv

LEMMA ColourUnregister == ASSUME ColourInv, UnregisterLed PROVE ColourInv'
<1>1. Registry
  BY DEF ColourInv
<1>2. /\ Top \in 1..Len(leds) /\ leds \in Seq(Label) /\ Last(Left) = leds[Top] /\ off
      /\ gone \in Nat /\ Len(leds) \in Nat
  BY <1>1, LeftFacts DEF UnregisterLed, Registry
<1>3. PICK l \in Label : l = leds[Top]
  BY <1>2
<1>4. /\ bind = "release" /\ pc[l] = "idle" /\ off' = FALSE /\ gone' = gone + 1
      /\ UNCHANGED <<bind, parsed, group, drvdata, leds, command, chip, tmp, pc, arg, want,
                     faults, overlap>>
  BY <1>2, <1>3 DEF UnregisterLed, attrVars, cmdVars, updVars, histVars
<1>5. PICK n \in 1..Len(leds) : n = Top
  BY <1>2
<1>6. Top' = n - 1
  BY <1>2, <1>4, <1>5 DEF Top
<1>7. /\ \A m \in Label : /\ Live(m) /\ m # l => Live(m)'
                          /\ Gone(m)' => Gone(m) \/ m = l
                          /\ ~Leaving(m)'
  <2>1. ASSUME NEW m \in Label, Live(m), m # l PROVE Live(m)'
    <3>1. PICK i \in 1..n : leds[i] = m
      BY <1>5, <2>1 DEF Live
    <3>2. i \in 1..(n - 1)
      BY <1>3, <1>5, <2>1, <3>1
    <3> QED
      BY <1>4, <1>6, <3>1, <3>2 DEF Live
  <2>2. ASSUME NEW m \in Label, Gone(m)' PROVE Gone(m) \/ m = l
    <3>1. PICK i \in 1..Len(leds) : i > n - 1 /\ leds[i] = m
      BY <1>4, <1>6, <2>2 DEF Gone
    <3>2. i = n \/ i > n
      BY <3>1
    <3> QED
      BY <1>3, <1>5, <3>1, <3>2 DEF Gone
  <2>3. ASSUME NEW m \in Label PROVE ~Leaving(m)'
    BY <1>4 DEF Leaving
  <2> QED
    BY <2>1, <2>2, <2>3
<1>8. Leaving(l) /\ want[l] = {}
  BY <1>2, <1>3 DEF Leaving, ColourInv, Updates
<1>9. Registry'
  <2>1. gone' \in Nat /\ gone' <= Len(leds)
    BY <1>1, <1>2, <1>4 DEF Registry
  <2>2. off' \in BOOLEAN
    BY <1>4
  <2> QED
    BY <1>1, <1>4, <2>1, <2>2 DEF Registry
<1>10. Updates'
  BY <1>4, <1>7, <1>8 DEF ColourInv, Updates
<1>11. Serial' /\ LowNibble' /\ Colours'
  BY <1>4 DEF ColourInv, Serial, LowNibble, Colours, Active
<1>12. Leavers'
  BY <1>4, <1>7, <1>8 DEF ColourInv, Leavers, Dark
<1> QED
  BY <1>9, <1>10, <1>11, <1>12 DEF ColourInv

LEMMA ColourUnbound == ASSUME ColourInv, Unbound PROVE ColourInv'
<1>1. Registry
  BY DEF ColourInv
<1>2. /\ bind = "release" /\ bind' = "unbound" /\ drvdata' = FALSE /\ leds' = <<>> /\ gone' = 0
      /\ Left = <<>>
      /\ UNCHANGED <<group, off, command, chip, tmp, pc, arg, want, faults, overlap>>
  BY DEF Unbound, cmdVars, updVars, histVars
<1>3. Top = 0 /\ ~off
  BY <1>1, <1>2, LeftFacts
<1>4. Len(leds') = 0 /\ leds' \in Seq(Label)
  BY <1>2
<1>5. \A l \in Label : ~Live(l)
  BY <1>3 DEF Live
<1>6. \A l \in Label : pc[l] = "idle" /\ want[l] = {}
  BY <1>5 DEF ColourInv, Updates
<1>7. Registry'
  <2>1. /\ gone' \in Nat /\ gone' <= Len(leds')
        /\ \A i \in 1..Len(leds') : FALSE
    BY <1>2, <1>4
  <2>2. drvdata' \in BOOLEAN
    BY <1>2
  <2> QED
    BY <1>1, <1>2, <1>3, <1>4, <2>1, <2>2 DEF Registry
<1>8. Updates'
  BY <1>2, <1>6 DEF ColourInv, Updates
<1>9. Serial' /\ LowNibble'
  BY <1>2 DEF ColourInv, Serial, LowNibble, Active
<1>10. Colours' /\ Leavers'
  BY <1>2 DEF Colours, Leavers
<1> QED
  BY <1>7, <1>8, <1>9, <1>10 DEF ColourInv

(* Nothing that an update does concerns the registration of the LEDs.      *)
LEMMA SameRegistry ==
  ASSUME Registry, UNCHANGED <<bind, parsed, group, drvdata, leds, gone, off>>
  PROVE  /\ Registry' /\ Top' = Top
         /\ \A l \in Label : /\ Live(l)' <=> Live(l)
                             /\ Leaving(l)' <=> Leaving(l)
                             /\ Gone(l)' <=> Gone(l)
  BY DEF Registry, Top, Live, Leaving, Gone

LEMMA ColourLedControl ==
  ASSUME ColourInv, NEW l \in Label, NEW b \in Brightness, LedControl(l, b) PROVE ColourInv'
<1>1. /\ UNCHANGED <<bind, parsed, group, drvdata, leds, gone, off, command, chip, tmp, faults>>
      /\ pc[l] = "idle" /\ l \in ToSet(Left) /\ ~(off /\ l = Last(Left))
  BY DEF LedControl, attrVars, ledVars, cmdVars
<1>2. Registry /\ Live(l) /\ ~Leaving(l)
  <2>1. Registry
    BY DEF ColourInv
  <2> QED
    BY <1>1, <2>1, LeftFacts DEF Leaving
<1>3. /\ Registry' /\ \A m \in Label : /\ Live(m)' <=> Live(m)
                                       /\ Leaving(m)' <=> Leaving(m)
                                       /\ Gone(m)' <=> Gone(m)
  BY <1>1, <1>2, SameRegistry
<1>4. CASE b \subseteq 0..3
  <2>1. /\ pc' = [pc EXCEPT ![l] = "clear"] /\ arg' = [arg EXCEPT ![l] = b]
        /\ want' = [want EXCEPT ![l] = b] /\ overlap' = (overlap \/ ~Rest)
    BY <1>4 DEF LedControl
  <2>2. l \in Updater /\ l \notin Select
    BY LabelFacts
  <2>3. /\ pc'[l] = "clear" /\ arg'[l] = b /\ want'[l] = b
        /\ \A a \in Updater : a # l => pc'[a] = pc[a] /\ arg'[a] = arg[a]
        /\ \A m \in Label : m # l => want'[m] = want[m]
        /\ pc' \in [Updater -> {"idle", "oops", "clear", "clear2", "set", "set2", "send",
                                "pulse", "pulse2"}]
        /\ want' \in [Label -> SUBSET (0..3)]
        /\ DOMAIN arg' = Updater /\ arg' = [a \in Updater |-> arg'[a]]
    BY <1>4, <2>1, <2>2 DEF ColourInv, Updates
  <2>4. Updates'
    <3>1. overlap' \in BOOLEAN
      BY <2>1
    <3>2. \A m \in Label : m \in Updater
      BY LabelFacts
    <3>3. \A s \in Select : s \in Updater /\ s # l
      BY <2>2, LabelFacts
    <3>4. \A s \in Select : pc'[s] \notin {"clear", "clear2"} /\ (~group' => pc'[s] = "idle")
      BY <1>1, <2>3, <3>3 DEF ColourInv, Updates
    <3>5. \A m \in Label :
            /\ pc'[m] \in {"idle", "clear", "clear2", "set", "set2", "send"}
            /\ pc'[m] # "idle" => Live(m)'
            /\ pc'[m] \in {"clear", "clear2", "set", "set2"} => arg'[m] = want'[m]
            /\ want'[m] # {} => Live(m)' /\ ~Leaving(m)'
      <4> TAKE m \in Label
      <4>1. CASE m = l
        BY <1>2, <1>3, <2>3, <4>1
      <4>2. CASE m # l
        BY <1>3, <2>3, <3>2, <4>2 DEF ColourInv, Updates
      <4> QED
        BY <4>1, <4>2
    <3>6. /\ command' \in [0..2 -> SUBSET Bits] /\ chip' \in [0..2 -> SUBSET Bits]
          /\ tmp' \in [Updater -> SUBSET Bits] /\ faults' \in Nat
      BY <1>1 DEF ColourInv, Updates
    <3> QED
      BY <2>3, <3>1, <3>4, <3>5, <3>6 DEF Updates
  <2>5. Serial'
    BY <1>1, <2>1, <2>2, SerialStart
  <2>6. LowNibble'
    BY <1>1 DEF ColourInv, LowNibble
  <2>7. ~overlap' => ~overlap
    BY <2>1
  <2>8. Colours'
    <3>1. ASSUME NEW m \in Label, m # l PROVE Shifted(m, want[m])' = Shifted(m, want[m])
      BY <2>3, <3>1 DEF Shifted
    <3> QED
      BY <1>1, <2>3, <2>7, <3>1, LabelFacts DEF ColourInv, Colours
  <2>9. Leavers'
    <3>1. \A m \in Label : Leaving(m) => pc'[m] = pc[m]
      BY <1>2, <2>3, LabelFacts
    <3> QED
      BY <1>1, <1>3, <2>7, <3>1 DEF ColourInv, Leavers, Dark
  <2> QED
    BY <1>3, <2>4, <2>5, <2>6, <2>8, <2>9 DEF ColourInv
<1>5. CASE ~(b \subseteq 0..3)
  <2>1. UNCHANGED <<pc, arg, want, overlap>>
    BY <1>5 DEF LedControl
  <2>2. Updates'
    BY <1>1, <1>3, <2>1 DEF ColourInv, Updates
  <2>3. Serial' /\ LowNibble' /\ Colours'
    BY <1>1, <2>1 DEF ColourInv, Serial, LowNibble, Colours, Active
  <2>4. Leavers'
    BY <1>1, <1>3, <2>1 DEF ColourInv, Leavers, Dark
  <2> QED
    BY <1>3, <2>2, <2>3, <2>4 DEF ColourInv
<1> QED
  BY <1>4, <1>5

(* A step of one updater that leaves the bytes alone.                      *)
LEMMA ColourSelect ==
  ASSUME ColourInv, NEW s \in Select, NEW v \in {"on", "off", "bad"}, SelectCall(s, v)
  PROVE  ColourInv'
<1>1. /\ UNCHANGED <<bind, parsed, group, drvdata, leds, gone, off, command, chip, tmp, want, faults>>
      /\ pc[s] = "idle" /\ group /\ arg' = [arg EXCEPT ![s] = v] /\ overlap' = (overlap \/ ~Rest)
      /\ pc' = [pc EXCEPT ![s] = IF drvdata THEN "set" ELSE "oops"]
  BY DEF SelectCall, attrVars, ledVars, cmdVars
<1>2. PICK p \in {"set", "oops"} : pc' = [pc EXCEPT ![s] = p]
  BY <1>1
<1>3. s \in Updater /\ s \notin Label
  BY LabelFacts
<1>4. /\ pc'[s] = p
      /\ \A a \in Updater : a # s => pc'[a] = pc[a] /\ arg'[a] = arg[a]
      /\ pc' \in [Updater -> {"idle", "oops", "clear", "clear2", "set", "set2", "send",
                              "pulse", "pulse2"}]
      /\ DOMAIN arg' = Updater /\ arg' = [a \in Updater |-> arg'[a]]
  BY <1>1, <1>2, <1>3 DEF ColourInv, Updates
<1>5. \A l \in Label : l \in Updater /\ pc'[l] = pc[l] /\ arg'[l] = arg[l]
  BY <1>3, <1>4, LabelFacts
<1>6. /\ Registry' /\ \A m \in Label : /\ Live(m)' <=> Live(m)
                                       /\ Leaving(m)' <=> Leaving(m)
                                       /\ Gone(m)' <=> Gone(m)
  BY <1>1, SameRegistry DEF ColourInv
<1>7. Updates'
  <2>1. overlap' \in BOOLEAN
    BY <1>1
  <2>2. \A r \in Select : pc'[r] \notin {"clear", "clear2"} /\ (~group' => pc'[r] = "idle")
    <3>1. \A r \in Select : r \in Updater
      BY LabelFacts
    <3> QED
      BY <1>1, <1>4, <3>1 DEF ColourInv, Updates
  <2> QED
    BY <1>1, <1>4, <1>5, <1>6, <2>1, <2>2 DEF ColourInv, Updates
<1>8. Serial'
  BY <1>1, <1>2, <1>3, SerialStart
<1>9. ~overlap' => ~overlap
  BY <1>1
<1>10. LowNibble' /\ Colours'
  BY <1>1, <1>5, <1>9 DEF ColourInv, LowNibble, Colours
<1>11. Leavers'
  BY <1>1, <1>5, <1>6, <1>9 DEF ColourInv, Leavers, Dark
<1> QED
  BY <1>6, <1>7, <1>8, <1>10, <1>11 DEF ColourInv

LEMMA ColourLoadPulse ==
  ASSUME ColourInv, NEW a \in Updater, Load(a) \/ Pulse(a) PROVE ColourInv'
<1>1. /\ UNCHANGED <<bind, parsed, group, drvdata, leds, gone, off, command, chip, want, faults,
                     overlap>>
      /\ Active(a)
  BY DEF Load, Pulse, attrVars, ledVars, cmdVars, histVars, Active
<1>2. /\ Registry' /\ \A m \in Label : /\ Live(m)' <=> Live(m)
                                       /\ Leaving(m)' <=> Leaving(m)
                                       /\ Gone(m)' <=> Gone(m)
  BY <1>1, SameRegistry DEF ColourInv
<1>3. /\ pc \in [Updater -> {"idle", "oops", "clear", "clear2", "set", "set2", "send",
                             "pulse", "pulse2"}]
      /\ tmp \in [Updater -> SUBSET Bits] /\ command \in [0..2 -> SUBSET Bits]
      /\ DOMAIN arg = Updater /\ arg = [b \in Updater |-> arg[b]]
  BY DEF ColourInv, Updates
<1>4. CASE Load(a)
  <2>1. /\ pc[a] \in {"clear", "set"} /\ arg' = arg
        /\ pc'[a] = (IF pc[a] = "clear" THEN "clear2" ELSE "set2")
        /\ tmp'[a] = command[Byte(a)] /\ command[Byte(a)] \subseteq Bits
        /\ \A b \in Updater : b # a => pc'[b] = pc[b] /\ tmp'[b] = tmp[b]
        /\ pc' \in [Updater -> {"idle", "oops", "clear", "clear2", "set", "set2", "send",
                                "pulse", "pulse2"}]
        /\ tmp' \in [Updater -> SUBSET Bits]
    BY <1>3, <1>4, LabelFacts DEF Load
  <2>2. Updates'
    <3>1. \A l \in Label : l \in Updater
      BY LabelFacts
    <3>2. \A s \in Select : s \in Updater
      BY LabelFacts
    <3> QED
      BY <1>1, <1>2, <1>3, <2>1, <3>1, <3>2 DEF ColourInv, Updates
  <2>3. Serial'
    BY <1>1, <2>1 DEF ColourInv, Serial, Active
  <2>4. LowNibble'
    BY <1>1, <2>1, LabelFacts DEF ColourInv, LowNibble
  <2>5. Colours'
    BY <1>1, <2>1, LabelFacts DEF ColourInv, Colours
  <2>6. Leavers'
    BY <1>1, <1>2, <2>1, LabelFacts DEF ColourInv, Leavers, Dark
  <2> QED
    BY <1>2, <2>2, <2>3, <2>4, <2>5, <2>6 DEF ColourInv
<1>5. CASE Pulse(a)
  <2>1. /\ pc[a] \in {"pulse", "pulse2"} /\ tmp' = tmp
        /\ pc'[a] \in {"pulse2", "idle"}
        /\ \A b \in Updater : b # a => pc'[b] = pc[b] /\ arg'[b] = arg[b]
        /\ pc' \in [Updater -> {"idle", "oops", "clear", "clear2", "set", "set2", "send",
                                "pulse", "pulse2"}]
        /\ DOMAIN arg' = Updater /\ arg' = [b \in Updater |-> arg'[b]]
    BY <1>3, <1>5 DEF Pulse
  <2>2. a \notin Label
    BY <2>1 DEF ColourInv, Updates
  <2>3. \A l \in Label : l \in Updater /\ pc'[l] = pc[l] /\ arg'[l] = arg[l]
    BY <2>1, <2>2, LabelFacts
  <2>4. \A s \in Select : pc'[s] \notin {"clear", "clear2"} /\ (~group' => pc'[s] = "idle")
    <3>1. \A s \in Select : s \in Updater
      BY LabelFacts
    <3> QED
      BY <1>1, <2>1, <3>1 DEF ColourInv, Updates
  <2>5. Updates'
    BY <1>1, <1>2, <2>1, <2>3, <2>4 DEF ColourInv, Updates
  <2>6. Serial'
    BY <1>1, <2>1 DEF ColourInv, Serial, Active
  <2>7. LowNibble' /\ Colours'
    BY <1>1, <2>1, <2>3 DEF ColourInv, LowNibble, Colours
  <2>8. Leavers'
    BY <1>1, <1>2, <2>3 DEF ColourInv, Leavers, Dark
  <2> QED
    BY <1>2, <2>5, <2>6, <2>7, <2>8 DEF ColourInv
<1> QED
  BY <1>4, <1>5

LEMMA ColourSend ==
  ASSUME ColourInv, NEW a \in Updater, NEW ok \in BOOLEAN, Send(a, ok) PROVE ColourInv'
<1>1. /\ UNCHANGED <<bind, parsed, group, drvdata, leds, gone, off, command, tmp, want, overlap>>
      /\ pc[a] = "send" /\ chip' = (IF ok THEN command ELSE chip)
  BY DEF Send, attrVars, ledVars
<1>2. /\ Registry' /\ \A m \in Label : /\ Live(m)' <=> Live(m)
                                       /\ Leaving(m)' <=> Leaving(m)
                                       /\ Gone(m)' <=> Gone(m)
  BY <1>1, SameRegistry DEF ColourInv
<1>3. faults \in Nat /\ faults' \in Nat /\ (faults' = 0 => faults = 0 /\ chip' = command)
  BY <1>1 DEF Send, Fault, ColourInv, Updates
<1>4. /\ pc'[a] \in {"idle", "pulse"} /\ (a \in Label => pc'[a] = "idle")
      /\ \A b \in Updater : b # a => pc'[b] = pc[b] /\ arg'[b] = arg[b]
      /\ pc' \in [Updater -> {"idle", "oops", "clear", "clear2", "set", "set2", "send",
                              "pulse", "pulse2"}]
      /\ DOMAIN arg' = Updater /\ arg' = [b \in Updater |-> arg'[b]]
  BY DEF Send, ColourInv, Updates
<1>5. \A l \in Label : /\ l \in Updater
                       /\ l # a => pc'[l] = pc[l] /\ arg'[l] = arg[l]
                       /\ l = a => pc'[l] = "idle" /\ pc[l] = "send"
  BY <1>1, <1>4, LabelFacts
<1>6. Updates'
  <2>1. chip' \in [0..2 -> SUBSET Bits]
    BY <1>1 DEF ColourInv, Updates
  <2>2. \A s \in Select : pc'[s] \notin {"clear", "clear2"} /\ (~group' => pc'[s] = "idle")
    <3>1. \A s \in Select : s \in Updater
      BY LabelFacts
    <3> QED
      BY <1>1, <1>4, <3>1 DEF ColourInv, Updates
  <2> QED
    BY <1>1, <1>2, <1>3, <1>4, <1>5, <2>1, <2>2 DEF ColourInv, Updates
<1>7. Serial'
  BY <1>1, <1>4 DEF ColourInv, Serial, Active
<1>8. LowNibble'
  BY <1>1 DEF ColourInv, LowNibble
<1>9. Colours'
  BY <1>1, <1>5 DEF ColourInv, Colours
<1>10. Leavers'
  <2> SUFFICES ASSUME ~overlap, faults' = 0, ~group, bind = "release", NEW l \in Label
               PROVE  /\ Gone(l) => Dark(l, command) /\ Dark(l, command)
                      /\ Leaving(l) => /\ pc'[l] \in {"set", "set2", "send", "idle"} =>
                                            Dark(l, command)
                                       /\ pc'[l] = "idle" => Dark(l, command)
    BY <1>1, <1>2, <1>3 DEF Leavers, Dark
  <2>1. pc'[l] \in {"set", "set2", "send", "idle"} => pc[l] \in {"set", "set2", "send", "idle"}
    BY <1>5
  <2> QED
    BY <1>3, <2>1 DEF ColourInv, Leavers
<1> QED
  BY <1>2, <1>6, <1>7, <1>8, <1>9, <1>10 DEF ColourInv

LEMMA ColourStore ==
  ASSUME ColourInv, NEW a \in Updater, Store(a) PROVE ColourInv'
<1> DEFINE new == IF pc[a] = "clear2" THEN ClearBits(a, tmp[a]) ELSE SetBits(a, tmp[a])
<1>1. /\ UNCHANGED <<bind, parsed, group, drvdata, leds, gone, off, chip, arg, want, faults, overlap>>
      /\ pc[a] \in {"clear2", "set2"} /\ Active(a)
      /\ command' = [command EXCEPT ![Byte(a)] = new]
  BY DEF Store, attrVars, ledVars, histVars, Active
<1>2. /\ Registry' /\ \A m \in Label : /\ Live(m)' <=> Live(m)
                                       /\ Leaving(m)' <=> Leaving(m)
                                       /\ Gone(m)' <=> Gone(m)
  BY <1>1, SameRegistry DEF ColourInv
<1>3. /\ pc'[a] = (IF pc[a] = "clear2" THEN "set" ELSE "send") /\ tmp'[a] = {}
      /\ \A b \in Updater : b # a => pc'[b] = pc[b] /\ tmp'[b] = tmp[b]
      /\ pc' \in [Updater -> {"idle", "oops", "clear", "clear2", "set", "set2", "send",
                              "pulse", "pulse2"}]
      /\ tmp' \in [Updater -> SUBSET Bits]
  BY DEF Store, AfterSet, ColourInv, Updates
<1>4. tmp[a] \in SUBSET Bits /\ command \in [0..2 -> SUBSET Bits] /\ Byte(a) \in 0..2
  BY LabelFacts DEF ColourInv, Updates
<1>5. new \in SUBSET Bits /\ (a \in Label /\ Byte(a) = 2 => new \subseteq 0..3)
  <2>1. Mask(a) \subseteq Bits /\ (Byte(a) = 2 => Mask(a) = 0..3)
    BY DEF Mask, Bits, Byte
  <2>2. a \in Label => SetBits(a, tmp[a]) = tmp[a] \cup (Shifted(a, arg[a]) \cap Mask(a))
    BY LtcAssumption DEF SetBits
  <2>3. SetBits(a, tmp[a]) \subseteq Bits
    <3>1. CASE a \in Label
      BY <1>4, <2>1, <2>2, <3>1
    <3>2. CASE a \in Select
      <4>1. EnCs \subseteq Bits
        BY DEF EnCs, Bits
      <4> QED
        BY <1>4, <3>2, <4>1 DEF SetBits, Select
    <3> QED
      BY <3>1, <3>2 DEF Updater
  <2>4. ClearBits(a, tmp[a]) \subseteq tmp[a]
    BY DEF ClearBits
  <2>5. a \in Label /\ Byte(a) = 2 => tmp[a] \subseteq 0..3
    BY DEF ColourInv, LowNibble
  <2>6. CASE pc[a] = "clear2"
    BY <1>4, <2>4, <2>5, <2>6
  <2>7. CASE pc[a] # "clear2"
    BY <2>1, <2>2, <2>3, <2>5, <2>7
  <2> QED
    BY <2>6, <2>7
<1>6. /\ command' \in [0..2 -> SUBSET Bits] /\ command'[Byte(a)] = new
      /\ \A i \in 0..2 : i # Byte(a) => command'[i] = command[i]
  BY <1>1, <1>4, <1>5
<1> HIDE DEF new
<1>7. Updates'
  <2>1. \A l \in Label : l \in Updater
    BY LabelFacts
  <2>2. \A s \in Select : s \in Updater
    BY LabelFacts
  <2>3. \A m \in Updater : /\ pc'[m] = "idle" <=> pc[m] = "idle"
                           /\ pc'[m] \in {"clear", "clear2"} => pc[m] = pc'[m]
                           /\ pc'[m] = pc[m] \/ pc'[m] \in {"set", "send"}
                           /\ pc'[m] \in {"set", "set2"} => pc[m] \in {"clear2", "set", "set2"}
    BY <1>1, <1>3
  <2>4. \A l \in Label : pc[l] \in {"idle", "clear", "clear2", "set", "set2", "send"}
    BY DEF ColourInv, Updates
  <2>5. \A l \in Label : pc'[l] \in {"idle", "clear", "clear2", "set", "set2", "send"}
    BY <2>1, <2>3, <2>4
  <2>6. \A l \in Label : /\ pc'[l] # "idle" => Live(l)'
                         /\ pc'[l] \in {"clear", "clear2", "set", "set2"} => arg'[l] = want'[l]
                         /\ want'[l] # {} => Live(l)' /\ ~Leaving(l)'
    <3> SUFFICES ASSUME NEW l \in Label
                 PROVE  /\ pc'[l] # "idle" => Live(l)
                        /\ pc'[l] \in {"clear", "clear2", "set", "set2"} => arg[l] = want[l]
                        /\ want[l] # {} => Live(l) /\ ~Leaving(l)
      BY <1>1, <1>2
    <3>1. /\ pc[l] # "idle" => Live(l)
          /\ pc[l] \in {"clear", "clear2", "set", "set2"} => arg[l] = want[l]
          /\ want[l] # {} => Live(l) /\ ~Leaving(l)
      BY DEF ColourInv, Updates
    <3> QED
      BY <2>1, <2>3, <3>1
  <2>7. \A s \in Select : pc'[s] \notin {"clear", "clear2"} /\ (~group' => pc'[s] = "idle")
    <3>1. \A s \in Select : pc[s] \notin {"clear", "clear2"} /\ (~group => pc[s] = "idle")
      BY DEF ColourInv, Updates
    <3> QED
      BY <1>1, <2>2, <2>3, <3>1
  <2>8. /\ chip' \in [0..2 -> SUBSET Bits] /\ want' \in [Label -> SUBSET (0..3)]
        /\ DOMAIN arg' = Updater /\ arg' = [b \in Updater |-> arg'[b]]
        /\ faults' \in Nat /\ overlap' \in BOOLEAN
    BY <1>1 DEF ColourInv, Updates
  <2> QED
    BY <1>3, <1>6, <2>5, <2>6, <2>7, <2>8 DEF Updates
<1>8. Serial'
  BY <1>1, <1>3 DEF ColourInv, Serial, Active
<1>9. LowNibble'
  <2>1. command'[2] \subseteq 0..3
    <3>1. Byte(a) = 2 => a \in Label
      BY LabelFacts DEF Updater
    <3> QED
      BY <1>5, <1>6, <3>1 DEF ColourInv, LowNibble
  <2> QED
    BY <1>1, <1>3, <2>1, LabelFacts DEF ColourInv, LowNibble
<1>10. ~overlap => /\ tmp[a] = command[Byte(a)]
                   /\ \A b \in Updater : b # a => pc[b] \in {"idle", "oops"}
  BY <1>1 DEF ColourInv, Serial, Active
<1>11. Colours'
  <2> SUFFICES ASSUME ~overlap, drvdata, NEW l \in Label \cap {"green", "blue"}
               PROVE  /\ pc'[l] \in {"idle", "send"} => command'[1] \cap Mask(l) = Shifted(l, want[l])
                      /\ pc'[l] \in {"set", "set2"} => command'[1] \cap Mask(l) = {}
    BY <1>1 DEF Colours, Shifted
  <2>1. Byte(a) = 1 => a \in Label \cap {"green", "blue"}
    BY LabelFacts DEF Updater
  <2>2. CASE l # a
    <3>1. pc'[l] = pc[l] /\ pc[l] = "idle"
      BY <1>3, <1>10, <2>2, LabelFacts DEF ColourInv, Updates
    <3>2. command'[1] \cap Mask(l) = command[1] \cap Mask(l)
      <4>1. CASE Byte(a) = 1
        BY <1>4, <1>6, <1>10, <2>1, <2>2, <4>1, NibbleFacts DEF new
      <4>2. CASE Byte(a) # 1
        BY <1>6, <4>2
      <4> QED
        BY <4>1, <4>2
    <3> QED
      BY <3>1, <3>2 DEF ColourInv, Colours
  <2>3. CASE l = a
    <3>1. Byte(a) = 1 /\ tmp[a] = command[1] /\ command'[1] = new
      BY <1>6, <1>10, <2>3, LabelFacts
    <3>2. arg[l] = want[l] /\ want[l] \in SUBSET (0..3)
      BY <1>1, <2>3 DEF ColourInv, Updates
    <3>3. CASE pc[a] = "clear2"
      <4>1. pc'[l] = "set" /\ new = ClearBits(l, tmp[a])
        BY <1>3, <2>3, <3>3 DEF new
      <4> QED
        BY <1>4, <3>1, <4>1, NibbleFacts
    <3>4. CASE pc[a] = "set2"
      <4>1. pc'[l] = "send" /\ new = SetBits(l, tmp[a]) /\ command[1] \cap Mask(l) = {}
        BY <1>3, <2>3, <3>4 DEF new, ColourInv, Colours
      <4> QED
        BY <1>4, <3>1, <3>2, <4>1, NibbleFacts
    <3> QED
      BY <1>1, <3>3, <3>4
  <2> QED
    BY <2>2, <2>3
<1>12. Leavers'
  <2> SUFFICES ASSUME ~overlap, faults = 0, ~group, bind = "release", NEW l \in Label
               PROVE  /\ Gone(l) => Dark(l, command') /\ Dark(l, chip)
                      /\ Leaving(l) => /\ pc'[l] \in {"set", "set2", "send", "idle"} =>
                                            Dark(l, command')
                                       /\ pc'[l] = "idle" => Dark(l, chip)
    BY <1>1, <1>2 DEF Leavers, Dark
  <2>1. a \in Label
    BY <1>1 DEF Updater, ColourInv, Updates
  <2>2. Live(a) /\ arg[a] = want[a] /\ want[a] \in SUBSET (0..3) /\ Byte(l) \in 0..2
    BY <1>1, <2>1, LabelFacts DEF ColourInv, Updates
  <2>3. ASSUME l # a, Dark(l, command) PROVE Dark(l, command')
    <3>1. CASE Byte(l) # Byte(a)
      BY <1>6, <2>2, <2>3, <3>1 DEF Dark
    <3>2. CASE Byte(l) = Byte(a)
      <4>1. Shifted(l, 0..3) \cap tmp[a] = {}
        BY <1>10, <2>3, <3>2 DEF Dark
      <4>2. Shifted(l, 0..3) \cap ClearBits(a, tmp[a]) = {}
        BY <1>4, <2>1, <4>1, DarkFacts
      <4>3. Shifted(l, 0..3) \cap SetBits(a, tmp[a]) = {}
        BY <1>4, <2>1, <2>2, <2>3, <3>2, <4>1, DarkFacts
      <4> QED
        BY <1>6, <3>2, <4>2, <4>3 DEF Dark, new
    <3> QED
      BY <3>1, <3>2
  <2>4. l # a => pc'[l] = pc[l] /\ pc[l] = "idle"
    BY <1>3, <1>10, <2>1, LabelFacts DEF ColourInv, Updates
  <2>5. Gone(l) => l # a
    BY <2>2 DEF Gone, Live, ColourInv, Registry, Top
  <2>6. ASSUME Leaving(l), l = a PROVE Dark(l, command')
    <3>1. arg[l] = {} /\ tmp[a] = command[Byte(l)] /\ command'[Byte(l)] = new
      BY <1>6, <1>10, <2>2, <2>6 DEF ColourInv, Updates
    <3>2. CASE pc[a] = "clear2"
      <4>1. l # "main" \/ tmp[a] \subseteq 0..3
        BY <2>6, LabelFacts DEF ColourInv, LowNibble
      <4>2. Shifted(l, 0..3) \cap ClearBits(l, tmp[a]) = {}
        BY <1>4, <4>1, DarkFacts
      <4> QED
        BY <2>6, <3>1, <3>2, <4>2 DEF Dark, new
    <3>3. CASE pc[a] = "set2"
      <4>1. SetBits(l, tmp[a]) = tmp[a]
        BY <1>4, <3>1, DarkFacts
      <4>2. Dark(l, command)
        BY <2>6, <3>3 DEF ColourInv, Leavers
      <4> QED
        BY <2>6, <3>1, <3>3, <4>1, <4>2 DEF Dark, new
    <3> QED
      BY <1>1, <3>2, <3>3
  <2>7. l = a => pc'[l] # "idle"
    BY <1>3
  <2>8. ASSUME Gone(l) PROVE Dark(l, command') /\ Dark(l, chip)
    BY <2>3, <2>5, <2>8 DEF ColourInv, Leavers
  <2>9. ASSUME Leaving(l), l # a PROVE Dark(l, command') /\ Dark(l, chip)
    BY <2>3, <2>4, <2>9 DEF ColourInv, Leavers
  <2> QED
    BY <2>6, <2>7, <2>8, <2>9
<1> QED
  BY <1>2, <1>7, <1>8, <1>9, <1>11, <1>12 DEF ColourInv

LEMMA ColourNext == ColourInv /\ [Next]_vars => ColourInv'
<1> SUFFICES ASSUME ColourInv, [Next]_vars PROVE ColourInv'
  OBVIOUS
<1>1. CASE Core
  BY <1>1, ColourCore, ColourRegister, ColourSwitchOff, ColourUnregister, ColourUnbound DEF Core
<1>2. ASSUME NEW a \in Updater, Update(a) PROVE ColourInv'
  BY <1>2, ColourLoadPulse, ColourSend, ColourStore DEF Update
<1> QED
  BY <1>1, <1>2, ColourCore, ColourProbe, ColourLedControl, ColourSelect DEF Next

LEMMA ColourInvariant == Spec => []ColourInv
  BY ColourInit, ColourNext, PTL DEF Spec

(* ColoursAsAsked: as long as no two updates overlapped, the copy holds    *)
(* for green and blue the brightness that they accepted last.              *)
THEOREM ColoursStayAsAsked == Spec => []ColoursAsAsked
<1>1. ColourInv => ColoursAsAsked
  BY LabelFacts DEF ColourInv, Colours, Updates, ColoursAsAsked, Rest
<1> QED
  BY <1>1, ColourInvariant, PTL

(* DarkAfterRemove: a removal that no update overlapped, with no failed    *)
(* transfer and no attribute left behind, leaves every LED dark.           *)
THEOREM RemovalLeavesDark == Spec => DarkAfterRemove
<1> DEFINE Leaves == bind = "release" /\ bind' = "unbound" /\ ~overlap /\ faults = 0 /\ ~group
                       => \A l \in ToSet(leds) : Shifted(l, 0..3) \cap chip[Byte(l)] = {}
<1>1. ColourInv /\ [Next]_vars => [Leaves]_vars
  <2> SUFFICES ASSUME ColourInv, Next, bind = "release", bind' = "unbound", ~overlap,
                      faults = 0, ~group, NEW l \in ToSet(leds)
               PROVE  Shifted(l, 0..3) \cap chip[Byte(l)] = {}
    OBVIOUS
  <2>1. Unbound
    BY DEF Next, Core, Probe, FailToProbe, I2cRemove, BadChild, EndProbe, RemoveGroup,
       SwitchOff, UnregisterLed, RegisterLed, FailToRegister, LedControl, SelectCall, Update,
       Load, Store, Pulse, Send
  <2>2. Registry /\ Left = <<>>
    BY <2>1 DEF Unbound, ColourInv
  <2>3. Top = 0 /\ leds \in Seq(Label)
    BY <2>2, LeftFacts DEF Registry
  <2>4. l \in Label /\ Gone(l)
    BY <2>3 DEF ToSet, Gone
  <2> QED
    BY <2>4 DEF ColourInv, Leavers, Dark
<1>2. Spec => [][Leaves]_vars
  BY <1>1, ColourInvariant, PTL DEF Spec
<1> QED
  BY <1>2 DEF DarkAfterRemove
=============================================================================
