------------------------------- MODULE Accel -------------------------------
(***************************************************************************)
(* accel/spi_accel.c: the ADXL345 accelerometer on SPI.                    *)
(*                                                                         *)
(* Actors: the driver core, which probes and removes the driver (bind);    *)
(* the threaded interrupt handler (irq); the users of the attributes       *)
(* rate, position and read (pc); and the chip, which detects taps and      *)
(* takes samples.  Nothing in the driver serialises them.  The managed     *)
(* resources are released in the opposite order of their acquisition when  *)
(* probe fails or after remove.  Any transfer may fail; the driver ignores *)
(* the result of every one.                                                *)
(*                                                                         *)
(* All axes report BTN_TOUCH, so of the tap status only counts whether it  *)
(* names an axis.  A sample is the same number on each axis: a position    *)
(* with two numbers in it mixes two samples.                               *)
(***************************************************************************)
EXTENDS Integers, Sequences, FiniteSets, SequencesExt

CONSTANTS
  User,      (* processes that use the attributes                          *)
  Rates,     (* numbers that users write to rate                           *)
  Full,      (* full scale: accelerations reach from -Full to Full - 1     *)
  MaxTap,    (* bound: taps                                                *)
  MaxFault,  (* bound: failed transfers                                    *)
  MaxCall,   (* bound: calls of the attributes                             *)
  MaxBind    (* bound: probes                                              *)

ASSUME AccelAssumption ==
  /\ User # {}
  /\ Rates \subseteq Nat
  /\ Full \in 1..4096
  /\ {MaxTap, MaxFault, MaxCall, MaxBind} \subseteq Nat

VARIABLES
  bind, at,       (* the driver core: where it is, step of probe           *)
  devres,         (* the managed resources, oldest first                   *)
  sysfs,          (* the attributes exist                                  *)
  drvdata,        (* spi_set_drvdata has been called                       *)
  regs,           (* the registers that hold what probe writes to them     *)
  bwRate,         (* the chip's BW_RATE                                    *)
  int,            (* SINGLE_TAP in the chip's INT_SOURCE                   *)
  dataRate,       (* ac->pdata.data_rate                                   *)
  saved,          (* ac->saved                                             *)
  irq, stat,      (* the handler: where it is, and tap_stat names an axis  *)
  listening,      (* the input device is registered                        *)
  key,            (* BTN_TOUCH is down for the input core                  *)
  frame, heard,   (* events not synchronised yet; events that listeners    *)
                  (* of the present registration got                       *)
  pc, val,        (* user u: where it is, and the number it works with     *)
  overlap,        (* history: two calls have overlapped                    *)
  taps, presses, faults, calls, binds   (* history: counts                 *)

coreVars == <<bind, at, devres, sysfs, drvdata, binds>>
chipVars == <<regs, bwRate, int, taps>>
inputVars == <<listening, key, frame, heard, presses>>
userVars == <<dataRate, saved, pc, val, overlap, calls>>
irqVars  == <<irq, stat>>
vars == <<coreVars, chipVars, inputVars, userVars, irqVars, faults>>

Axis == <<"x", "y", "z">>
Samples == {-Full, Full - 1}

Fault == faults < MaxFault /\ faults' = faults + 1

(* RATE, and the two's complement of the data registers: 16 bits on the    *)
(* bus, of which the driver extends bit 12.                                *)
Rate(x) == x % 16
Le16(v) == v % 65536
SignExtend32(w) == LET m == w % 8192 IN IF m >= 4096 THEN m - 8192 ELSE m

-----------------------------------------------------------------------------
(* adxl345_probe.  Each step of Acquire can fail; "id" is the test of     *)
(* DEVID, which acquires nothing.  Of the nine registers that are written  *)
(* at the end, the four matter that decide whether the chip measures at a  *)
(* rate, detects taps and interrupts.                                      *)
IrqFirst == <<"ac", "id", "gpio", "irq", "input", "sysfs", "register">>
Steps == <<"ac", "input", "id", "gpio", "irq", "sysfs", "register">>
InitWrites == <<"TAP_AXES", "BW_RATE", "INT_ENABLE", "POWER_CTL">>

Init ==
  /\ bind = "unbound" /\ at = 1 /\ devres = <<>>
  /\ sysfs = FALSE /\ drvdata = FALSE
  /\ regs = {} /\ bwRate = 10 /\ int = FALSE
  /\ dataRate = 0 /\ saved = [a \in ToSet(Axis) |-> 0]
  /\ irq = "idle" /\ stat = FALSE
  /\ listening = FALSE /\ key = FALSE /\ frame = <<>> /\ heard = <<>>
  /\ pc = [u \in User |-> "idle"] /\ val = [u \in User |-> 0]
  /\ overlap = FALSE
  /\ taps = 0 /\ presses = 0 /\ faults = 0 /\ calls = 0 /\ binds = 0

Probe ==
  /\ bind = "unbound" /\ binds < MaxBind
  /\ bind' = "probe" /\ at' = 1 /\ binds' = binds + 1
  /\ UNCHANGED <<devres, sysfs, drvdata, chipVars, inputVars, userVars,
                 irqVars, faults>>

(* devm_kzalloc clears the private data and adxl345_default_init is copied *)
(* into it, of which the rate can change later.                            *)
(* devm_input_allocate_device clears the input device.                     *)
DefaultRate == 8
Managed == {"ac", "input", "gpio", "irq", "register"}

Acquire ==
  LET s == Steps[at] IN
  /\ bind = "probe"
  /\ devres' = IF s \in Managed THEN Append(devres, s) ELSE devres
  /\ sysfs' = (sysfs \/ s = "sysfs")
  /\ dataRate' = IF s = "ac" THEN DefaultRate ELSE dataRate
  /\ saved' = IF s = "ac" THEN [a \in ToSet(Axis) |-> 0] ELSE saved
  /\ key' = (key /\ s # "input")
  /\ frame' = IF s = "input" THEN <<>> ELSE frame
  /\ listening' = (s = "register")
  /\ heard' = IF s = "register" THEN <<>> ELSE heard
  /\ IF at = Len(Steps)
       THEN bind' = "write" /\ at' = 1
       ELSE bind' = "probe" /\ at' = at + 1
  /\ UNCHANGED <<drvdata, binds, chipVars, presses, pc, val, overlap, calls,
                 irqVars, faults>>

(* A failure leaves the attributes to err_remove_attr, if they exist, and  *)
(* the rest to the driver core.                                            *)
AfterFailure == IF Steps[at] = "register" THEN "hide" ELSE "release"

FailToAcquire ==
  /\ bind = "probe"
  /\ bind' = AfterFailure
  /\ at' = 1
  /\ UNCHANGED <<devres, sysfs, drvdata, binds, chipVars, inputVars, userVars,
                 irqVars, faults>>

(* The registers are written one by one.                                   *)
InitWrite(ok) ==
  LET r == InitWrites[at] IN
  /\ bind = "write"
  /\ IF ok THEN UNCHANGED faults ELSE Fault
  /\ regs' = IF ok THEN regs \cup {r} ELSE regs
  /\ bwRate' = IF ok /\ r = "BW_RATE" THEN Rate(dataRate) ELSE bwRate
  /\ IF at = Len(InitWrites)
       THEN bind' = "attach" /\ at' = 1
       ELSE bind' = "write" /\ at' = at + 1
  /\ UNCHANGED <<devres, sysfs, drvdata, binds, int, taps, inputVars,
                 userVars, irqVars>>

(* adxl345_spi_probe attaches the private data last.                       *)
Attach ==
  /\ bind = "attach"
  /\ bind' = "bound" /\ drvdata' = TRUE
  /\ UNCHANGED <<at, devres, sysfs, binds, chipVars, inputVars, userVars,
                 irqVars, faults>>

-----------------------------------------------------------------------------
(* adxl345_spi_remove.  sysfs_remove_group waits for the calls in progress *)
(* (at = 2), input_unregister_device releases a key that is down for the   *)
(* listeners and forgets the newest managed resource, the registration,    *)
(* then the chip is put to standby.                                        *)
SpiRemove ==
  /\ bind = "bound"
  /\ bind' = "hide" /\ at' = 1
  /\ UNCHANGED <<devres, sysfs, drvdata, binds, chipVars, inputVars, userVars,
                 irqVars, faults>>

Hide ==
  /\ bind = "hide" /\ at = 1
  /\ sysfs' = FALSE /\ at' = 2
  /\ UNCHANGED <<bind, devres, drvdata, binds, chipVars, inputVars, userVars,
                 irqVars, faults>>

Drained == \A u \in User : pc[u] = "idle"

Drain ==
  /\ bind = "hide" /\ at = 2
  /\ Drained
  /\ bind' = IF drvdata THEN "unregister" ELSE "release"
  /\ at' = 1
  /\ UNCHANGED <<devres, sysfs, drvdata, binds, chipVars, inputVars, userVars,
                 irqVars, faults>>

KeysReleased == IF key THEN Append(heard, 0) ELSE heard

Unregister ==
  /\ bind = "unregister"
  /\ listening' = FALSE /\ key' = FALSE
  /\ heard' = KeysReleased
  /\ devres' = Front(devres)
  /\ bind' = "standby"
  /\ UNCHANGED <<at, sysfs, drvdata, binds, chipVars, frame, presses, userVars,
                 irqVars, faults>>

Standby(ok) ==
  /\ bind = "standby"
  /\ IF ok THEN UNCHANGED faults ELSE Fault
  /\ regs' = IF ok THEN regs \ {"POWER_CTL"} ELSE regs
  /\ bind' = "release"
  /\ UNCHANGED <<at, devres, sysfs, drvdata, binds, bwRate, int, taps,
                 inputVars, userVars, irqVars>>

(* devres_release_all.  Freeing the interrupt waits for its handler.       *)
Released == Last(devres)

DevresRelease ==
  /\ bind = "release" /\ devres # <<>>
  /\ Released = "irq" => irq = "idle"
  /\ devres' = Front(devres)
  /\ UNCHANGED <<bind, at, sysfs, drvdata, binds, chipVars, inputVars,
                 userVars, irqVars, faults>>

Unbound ==
  /\ bind = "release" /\ devres = <<>>
  /\ bind' = "unbound" /\ drvdata' = FALSE
  /\ UNCHANGED <<at, devres, sysfs, binds, chipVars, inputVars, userVars,
                 irqVars, faults>>

-----------------------------------------------------------------------------
(* The chip.  While it measures, a tap on an enabled axis sets INT_SOURCE, *)
(* which raises the line until INT_SOURCE is read.                         *)
Tap ==
  /\ taps < MaxTap /\ {"TAP_AXES", "INT_ENABLE", "POWER_CTL"} \subseteq regs
  /\ int' = TRUE /\ taps' = taps + 1
  /\ UNCHANGED <<coreVars, regs, bwRate, inputVars, userVars, irqVars,
                 faults>>

-----------------------------------------------------------------------------
(* adxl345_irq.  The line is masked until the handler returns.             *)
Fire ==
  /\ irq = "idle" /\ int /\ "irq" \in ToSet(devres)
  /\ irq' = "status"
  /\ UNCHANGED <<coreVars, chipVars, inputVars, userVars, stat, faults>>

(* A failed read returns a negative number, whose bits are taken for those *)
(* of the register: bits is whether they include the one asked for.        *)
ReadStatus(ok, bits) ==
  /\ irq = "status"
  /\ IF ok THEN UNCHANGED faults ELSE Fault
  /\ stat' = (ok \/ bits)
  /\ irq' = "source"
  /\ UNCHANGED <<coreVars, chipVars, inputVars, userVars>>

NotCleared(ok) == int
ClearedByRead(ok) == int /\ ~ok

ReadSource(ok, bits) ==
  /\ irq = "source"
  /\ IF ok THEN UNCHANGED faults ELSE Fault
  /\ int' = ClearedByRead(ok)
  /\ irq' = IF (IF ok THEN int ELSE bits) THEN "press" ELSE "lastSync"
  /\ UNCHANGED <<coreVars, regs, bwRate, taps, inputVars, userVars, stat>>

(* input_report_key: a value that the key has already is dropped, and so   *)
(* is an event of a device that is not registered.                         *)
ReportKey(down) ==
  LET new == stat /\ key # down IN
  /\ key' = IF new THEN down ELSE key
  /\ frame' = IF new /\ listening THEN Append(frame, IF down THEN 1 ELSE 0)
                                  ELSE frame

InputSync ==
  /\ heard' = IF listening THEN heard \o frame ELSE heard
  /\ presses' = IF listening
                  THEN presses + Cardinality({i \in DOMAIN frame : frame[i] = 1})
                  ELSE presses
  /\ frame' = <<>>

(* adxl345_do_tap: send_key_events, input_sync, send_key_events; the last  *)
(* input_sync is the handler's.                                            *)
SendKeyEvents(down) ==
  /\ irq = IF down THEN "press" ELSE "release"
  /\ ReportKey(down)
  /\ irq' = IF down THEN "sync" ELSE "lastSync"
  /\ UNCHANGED <<coreVars, chipVars, listening, heard, presses, userVars, stat,
                 faults>>

SkipsRelease == "idle"
AfterSync == IF irq = "sync" THEN "release" ELSE "idle"

Sync ==
  /\ irq \in {"sync", "lastSync"}
  /\ InputSync
  /\ irq' = AfterSync
  /\ stat' = (stat /\ irq' # "idle")
  /\ UNCHANGED <<coreVars, chipVars, listening, key, userVars, faults>>

-----------------------------------------------------------------------------
(* The attributes.  They exist before spi_set_drvdata: a call before it    *)
(* dereferences NULL and never returns.                                    *)
Call(u, attr, v) ==
  /\ pc[u] = "idle" /\ sysfs /\ calls < MaxCall
  /\ calls' = calls + 1
  /\ pc' = [pc EXCEPT ![u] = IF drvdata THEN attr ELSE "oops"]
  /\ val' = [val EXCEPT ![u] = IF drvdata THEN v ELSE 0]
  /\ overlap' = (overlap \/ \E w \in User : pc[w] # "idle")
  /\ UNCHANGED <<coreVars, chipVars, inputVars, dataRate, saved, irqVars,
                 faults>>

Return(u) == pc' = [pc EXCEPT ![u] = "idle"] /\ val' = [val EXCEPT ![u] = 0]

(* adxl345_rate_store: the copy of the rate, then the register, with the   *)
(* byte that was just stored (no call comes between the store and its      *)
(* use).  kstrtou8 refuses what is not one byte.  low_power_mode is never  *)
(* set.                                                                    *)
RefuseRate(u) ==
  /\ pc[u] = "rate" /\ val[u] > 255
  /\ Return(u)
  /\ UNCHANGED <<coreVars, chipVars, inputVars, dataRate, saved, overlap, calls,
                 irqVars, faults>>

RateStore(u) ==
  /\ pc[u] = "rate" /\ val[u] <= 255
  /\ dataRate' = Rate(val[u])
  /\ pc' = [pc EXCEPT ![u] = "bwRate"]
  /\ UNCHANGED <<coreVars, chipVars, inputVars, saved, val, overlap, calls,
                 irqVars, faults>>

UnmaskedRate(u) == val[u]
RateToWrite(u) == Rate(val[u])

RateWrite(u, ok) ==
  /\ pc[u] = "bwRate"
  /\ IF ok THEN UNCHANGED faults ELSE Fault
  /\ bwRate' = IF ok THEN RateToWrite(u) ELSE bwRate
  /\ Return(u)
  /\ UNCHANGED <<coreVars, regs, int, taps, inputVars, dataRate, saved, overlap,
                 calls, irqVars>>

(* adxl345_position_read and adxl345_get_triple: one block read of what    *)
(* the chip has measured last, then the three axes are saved one after the *)
(* other.  After a failed block read the buffer holds anything.            *)
ReadBlock(u, v, ok) ==
  /\ pc[u] = "read"
  /\ IF ok THEN UNCHANGED faults ELSE Fault
  /\ val' = [val EXCEPT ![u] = SignExtend32(Le16(v))]
  /\ pc' = [pc EXCEPT ![u] = "x"]
  /\ UNCHANGED <<coreVars, chipVars, inputVars, dataRate, saved, overlap, calls,
                 irqVars>>

SaveAxis(u) ==
  /\ pc[u] \in ToSet(Axis)
  /\ saved' = [saved EXCEPT ![pc[u]] = val[u]]
  /\ IF pc[u] = "z"
       THEN Return(u)
       ELSE pc' = [pc EXCEPT ![u] = IF @ = "x" THEN "y" ELSE "z"] /\ val' = val
  /\ UNCHANGED <<coreVars, chipVars, inputVars, dataRate, overlap, calls,
                 irqVars, faults>>

-----------------------------------------------------------------------------
CoreStep ==
  \/ Acquire \/ FailToAcquire \/ (\E ok \in BOOLEAN : InitWrite(ok)) \/ Attach
  \/ Hide \/ Drain \/ Unregister \/ (\E ok \in BOOLEAN : Standby(ok))
  \/ DevresRelease \/ Unbound

Irq ==
  \/ Fire \/ Sync
  \/ \E ok, bits \in BOOLEAN : ReadStatus(ok, bits) \/ ReadSource(ok, bits)
  \/ \E down \in BOOLEAN : SendKeyEvents(down)

UserStep(u) ==
  \/ RefuseRate(u) \/ RateStore(u) \/ SaveAxis(u)
  \/ \E ok \in BOOLEAN : \/ RateWrite(u, ok)
                          \/ \E v \in Samples : ReadBlock(u, v, ok)

Next ==
  \/ Probe \/ SpiRemove \/ CoreStep \/ Tap \/ Irq
  \/ \E u \in User : \/ Call(u, "read", 0)
                     \/ \E r \in Rates : Call(u, "rate", r)
                     \/ UserStep(u)

Spec == Init /\ [][Next]_vars

(* The driver core, the interrupt thread and every process that is in a    *)
(* call are scheduled again and again.                                     *)
FairSpec ==
  /\ Spec /\ WF_vars(CoreStep) /\ WF_vars(Irq)
  /\ \A u \in User : WF_vars(UserStep(u))

-----------------------------------------------------------------------------
(* NoUseAfterFree: the handler and the calls of the attributes use the     *)
(* private data and the input device only while they are allocated, also   *)
(* when probe fails half way or the driver is removed while they run: it   *)
(* depends on the order in which adxl345_probe acquires its resources and  *)
(* on sysfs_remove_group waiting for the calls.                            *)
InCall(u) == pc[u] \notin {"idle", "oops"}

NoUseAfterFree ==
  /\ irq # "idle" => {"ac", "input"} \subseteq ToSet(devres)
  /\ (\E u \in User : InCall(u)) => "ac" \in ToSet(devres)

(* TouchMeansTap: listeners of the input device never get two presses in a *)
(* row and are left with the button up whenever the handler rests, even if *)
(* a late tap runs the handler while the device is being registered again; *)
(* and they get no more presses than the chip detected taps, as long as no *)
(* transfer failed (a failed read is taken for a tap if its error code has *)
(* the bits).                                                              *)
ButtonUp == heard = <<>> \/ Last(heard) = 0

TouchMeansTap ==
  /\ \A i \in 1..(Len(heard) - 1) : heard[i] = 1 => heard[i + 1] = 0
  /\ irq = "idle" /\ listening => ButtonUp
  /\ faults = 0 => presses <= taps

(* SerialCallsAgree: as long as no two calls overlapped and no transfer    *)
(* failed, between the calls the chip's rate is the one that rate_show     *)
(* reports, and the saved position is one sample, with its sign, and not a *)
(* mixture of two.                                                         *)
SerialCallsAgree ==
  ~overlap /\ faults = 0 /\ bind = "bound" /\ Drained =>
    /\ bwRate = dataRate
    /\ saved["x"] \in Samples \cup {0}
    /\ \A a \in ToSet(Axis) : saved[a] = saved["x"]

(* RemoveEnds: a removal and a failed probe come to an end, and the line   *)
(* of a tap is lowered as long as the handler is there.  A process that    *)
(* died in an attribute because it called it before probe was over lets    *)
(* the removal wait forever.                                               *)
Oops == \E u \in User : pc[u] = "oops"

RemoveEnds ==
  /\ (bind \in {"hide", "release"}) ~> (bind = "unbound" \/ Oops)
  /\ (int /\ irq # "idle") ~> (~int \/ bind = "unbound")
=============================================================================
