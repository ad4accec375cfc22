---------------------------- MODULE KeyLedProbe -----------------------------
(***************************************************************************)
(* keyled/keyled_rpi_class.c: how the devices of the LEDs come and go.     *)
(*                                                                         *)
(* my_probe walks over the children of the device-tree node.  Each LED     *)
(* becomes a device whose attributes users can write to at once, while     *)
(* probe is still filling in the structures behind it.  Some of its exits  *)
(* undo what was done, some do not.  What the attributes do to the LEDs is *)
(* the subject of KeyLed; here a write only follows the pointers.          *)
(***************************************************************************)
EXTENDS Integers, FiniteSets

CONSTANTS
  NLed,      (* the LEDs in the device tree                                *)
  MaxLoad    (* bound: how often the module is loaded                      *)

ASSUME ProbeAssumption == {NLed, MaxLoad} \subseteq Nat \ {0}

VARIABLES
  bind,      (* the module is "unloaded", in my_probe ("parse", "gpio",    *)
             (* "private", "slot", "count"), "bound", "release" (the       *)
             (* driver core frees what is managed), "loaded" without a     *)
             (* device, or probe has crashed ("oops")                      *)
  loads,     (* history: how often the module was loaded                   *)
  left,      (* the children that the walk has not reached yet             *)
  region,    (* the majors that are reserved, the n-th load asks for n     *)
  class,     (* a class of the driver's name exists                        *)
  device,    (* the devices of the class, by minor; also their names       *)
  freed,     (* those of them whose led_device was freed                   *)
  private,   (* those whose pointer to priv is set                         *)
  slot,      (* the indices of priv->leds that are filled                  *)
  numLeds,   (* priv->num_leds                                             *)
  irq,       (* the requested interrupts                                   *)
  returned,  (* history: a probe has failed and returned as it was         *)
  failures,  (* history: how many probes have failed                       *)
  fault      (* history: what writes ran into                              *)

privVars == <<private, slot, numLeds>>
sysVars  == <<region, class, device>>
histVars == <<loads, returned, failures, fault>>
vars     == <<bind, left, sysVars, freed, privVars, irq, histVars>>

Child == {"led", "key1", "key2"}
Tree  == [c \in Child |-> IF c = "led" THEN NLed ELSE 1]

Init ==
  /\ bind = "unloaded" /\ loads = 0 /\ left = Tree
  /\ region = {} /\ class = FALSE /\ device = {} /\ freed = {}
  /\ private = {} /\ slot = {} /\ numLeds = 0 /\ irq = {}
  /\ returned = FALSE /\ failures = 0 /\ fault = {}

-----------------------------------------------------------------------------
(* my_probe up to the loop.  That no device numbers are left goes          *)
(* unnoticed.  A class that is still there from a load before, or no       *)
(* memory, yields an error pointer, which is tested for NULL and then      *)
(* written through.                                                        *)
Load(numbers, created) ==
  /\ bind = "unloaded" /\ loads < MaxLoad
  /\ loads' = loads + 1 /\ left' = Tree
  /\ region' = IF numbers THEN region \cup {loads'} ELSE region
  /\ created => ~class
  /\ class' = (class \/ created)
  /\ bind' = IF created THEN "parse" ELSE "oops"
  /\ private' = {} /\ slot' = {} /\ numLeds' = 0 /\ irq' = {}
  /\ UNCHANGED <<device, freed, returned, failures, fault>>

(* No child or no memory: nothing has been done yet.                       *)
FailToLoad ==
  /\ bind = "unloaded" /\ loads < MaxLoad
  /\ loads' = loads + 1
  /\ bind' = "loaded"
  /\ UNCHANGED <<left, sysVars, freed, privVars, irq, returned, failures,
                 fault>>

Visit(c) ==
  /\ bind = "parse" /\ left[c] > 0
  /\ left' = [left EXCEPT ![c] = @ - 1]

(* led_device_register: from device_create on users see the attributes.    *)
(* Its result is an error pointer when the name is taken or memory is      *)
(* short; probe tests for NULL, so that the exit below that test is never  *)
(* taken, and writes through the pointer.                                  *)
RegisterLed(created) ==
  /\ Visit("led")
  /\ created => numLeds \notin device
  /\ device' = IF created THEN device \cup {numLeds} ELSE device
  /\ bind' = IF created THEN "gpio" ELSE "oops"
  /\ UNCHANGED <<region, class, freed, privVars, irq, histVars>>

(* new_led->private, priv->leds[] and priv->num_leds, in this order.       *)
CountFirst == [gpio |-> "private", private |-> "count", count |-> "slot",
               slot |-> "parse"]
NextField == [gpio |-> "private", private |-> "slot", slot |-> "count",
              count |-> "parse"]

FillIn ==
  /\ bind \in {"gpio", "private", "slot", "count"}
  /\ bind' = NextField[bind]
  /\ private' = IF bind = "private" THEN private \cup {numLeds} ELSE private
  /\ slot' = IF bind = "slot" THEN slot \cup {numLeds} ELSE slot
  /\ numLeds' = IF bind = "count" THEN numLeds + 1 ELSE numLeds
  /\ UNCHANGED <<left, sysVars, freed, irq, histVars>>

RequestIrq(k) ==
  /\ Visit(k)
  /\ irq' = irq \cup {k}
  /\ UNCHANGED <<bind, sysVars, freed, privVars, histVars>>

EndProbe ==
  /\ bind = "parse" /\ \A c \in Child : left[c] = 0
  /\ bind' = "bound"
  /\ UNCHANGED <<left, sysVars, freed, privVars, irq, histVars>>

-----------------------------------------------------------------------------
(* What the error label and my_remove undo: the devices that are counted,  *)
(* the class, and the device numbers if as many are given back as were     *)
(* reserved.                                                               *)
Counted == 0..(numLeds - 1)
AllButLast == 0..(numLeds - 2)
Destroyed == Counted

Undo ==
  /\ device' = device \ Destroyed
  /\ class' = FALSE
  /\ region' = IF numLeds = NLed THEN region \ {loads} ELSE region
  /\ bind' = "release"
  /\ UNCHANGED <<left, freed, privVars, irq, loads, returned, fault>>

(* The pin of a new LED cannot be had, the second interrupt cannot be      *)
(* requested, or the label is unknown.                                     *)
ProbeError ==
  /\ \/ bind = "gpio"
     \/ bind = "parse" /\ \E c \in Child : left[c] > 0
  /\ failures' = failures + 1
  /\ Undo

(* The trigger of a key is unknown, it has no interrupt, or the first one  *)
(* cannot be requested: probe returns as it is.                            *)
ProbeReturn ==
  /\ bind = "parse" /\ \E k \in {"key1", "key2"} : left[k] > 0
  /\ failures' = failures + 1 /\ returned' = TRUE
  /\ bind' = "release"
  /\ UNCHANGED <<left, sysVars, freed, privVars, irq, loads, fault>>

Remove ==
  /\ bind = "bound"
  /\ failures' = failures
  /\ Undo

(* The driver core frees the interrupts and then priv and the led_devices. *)
DevresRelease ==
  /\ bind = "release"
  /\ bind' = "loaded"
  /\ irq' = {} /\ freed' = device
  /\ UNCHANGED <<left, sysVars, privVars, histVars>>

(* my_probe is __init code: only loading the module again runs it again.   *)
Unload ==
  /\ bind = "loaded"
  /\ bind' = "unloaded"
  /\ UNCHANGED <<left, sysVars, freed, privVars, irq, histVars>>

-----------------------------------------------------------------------------
(* A user writes to an attribute of LED d: the method follows the device's *)
(* pointer to priv and loops over the LEDs that priv counts.               *)
Meets(d) ==
  CASE d \in freed      -> {"freed"}
    [] d \notin private -> {"private"}
    [] Counted \ slot # {} -> {"slot"}
    [] OTHER -> {}

Write(d) ==
  /\ d \in device
  /\ fault' = fault \cup Meets(d)
  /\ UNCHANGED <<bind, left, sysVars, freed, privVars, irq, loads, returned,
                 failures>>

Next ==
  \/ \E n, c \in BOOLEAN : Load(n, c)
  \/ \E c \in BOOLEAN : RegisterLed(c)
  \/ FailToLoad \/ FillIn
  \/ \E k \in {"key1", "key2"} : RequestIrq(k)
  \/ EndProbe \/ ProbeError \/ ProbeReturn
  \/ Remove \/ DevresRelease \/ Unload
  \/ \E d \in device : Write(d)

Spec == Init /\ [][Next]_vars

-----------------------------------------------------------------------------
(* WritesSafe: unless a probe failed, the only thing that a write can run  *)
(* into is a device whose pointer to priv is not set yet: it never meets   *)
(* a counted LED whose slot is empty, nor memory that was freed, however   *)
(* often the module is loaded and removed.                                 *)
WritesSafe == fault \subseteq {"private"} \/ failures > 0

(* LeftBehind: between two loads no class is left, and at most one device  *)
(* per probe that failed, unless a probe returned from the middle of the   *)
(* walk.  Device numbers are lost only if a probe failed.  (What the error *)
(* label misses is the device whose pin could not be had, and the numbers. *)
(* Each such device makes the next probe crash that comes to its LED.)     *)
LeftBehind ==
  bind \in {"loaded", "unloaded"} /\ ~returned =>
    /\ ~class
    /\ Cardinality(device) <= failures
    /\ failures > 0 \/ region = {}
=============================================================================
