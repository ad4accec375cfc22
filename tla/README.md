# Verification of the Raspberry Pi kernel modules

The repository is a collection of Linux device drivers: small exercises, and a
few drivers with real concurrency: the `snull` pair of loopback network
interfaces, a virtual wireless card, an LED driver with a blinking thread, a key
driver with a sleeping reader, DMA and sensor drivers. This directory holds
TLA+ models of the drivers whose correctness depends on interleavings, the TLC
configurations that check them, and TLAPS proofs about eight of the ten models.

## 1. Inventory

| component | source | state | operations | what is hard |
|---|---|---|---|---|
| snull, interrupt mode | `snull/snull_anuz.c` | per interface: buffer pool, receive queue, status word, remembered skb, statistics, queue state, spinlock | open, release, transmit, simulated RX/TX interrupt, buffer release, watchdog | interrupts are plain calls, so both contexts run the handlers of both interfaces; the status word is updated without the lock; TX interrupts get lost on purpose; the watchdog races with late releases |
| snull, NAPI mode | `snull/snull_3dec2020.c` | the same, `rx_int_enabled`, NAPI state; the pool is replaced by the watchdog | load, open, close, unload, transmit, NAPI interrupt, poll, watchdog with pool teardown | poll on one CPU against transmit and teardown on another; a lock that is not released on one path; frames that meet a closed or freed interface |
| virtual wireless driver | `dummy_wifi/virtualwifi.c` | context: semaphore, scan request, SSID, three work items | load, scan, connect, disconnect, three work routines, unload | work items against the next call; unload against everything; unwinding of a load that fails half way |
| key and LED driver | `keyled/keyled_module.c` | LEDs, `led_flag`, `task_flag`, `task`, `period` | four sysfs attributes, two key interrupts, blinking thread, remove | check-then-act on `task_flag` without a lock, `kthread_stop`, unsigned arithmetic at the limits |
| key and LED driver, second version | `keyled/keyled_rpi_class.c` | class, devices, device numbers, `num_leds`, `leds[]` | load, probe with many exits, remove, attribute calls | devices that users see before they are filled in; exits that undo a part; error pointers tested for NULL |
| key event ring | `wait_int_dev/sleep_module.c` | ring of 256 characters, two indices, wait queue | probe, interrupt handler, `read`, remove | no lock at all: lost wake-up, overrun, order of the two stores; a wait queue that is freed under a sleeper |
| DMA, several buffers | `dma/dma_sg.c` | eight buffers in physical memory, a completion, the channel | probe, write (two transactions), callback, remove | everything is shared by all writers; a completion left over or taken by another; copies that run past a buffer |
| other DMA drivers | `dma/dma_m2m.c`, `dma/dma_mmap.c` | buffers, completion | write or ioctl, callback, mmap | the same; buffers that each ioctl frees |
| circular list | `linkedlist/linkedlist_platform.c` | ring of blocks, offsets, counters | read, write | offsets across block ends |
| timer LED | `timer_module/timer_module.c` | timer, period | period attribute, callback, remove | a callback that rearms itself while it is deleted |
| LTC3206 | `i2c_class/i2c_class.c` | a copy of three command bytes, the chip, a pin | probe, brightness of each LED, two attributes, remove | bytes shared by several LEDs and changed without a lock; failing transfers; LEDs switched off one by one on removal |
| ADXL345 | `accel/spi_accel.c` | chip registers, copies of rate and position, input device, managed resources | probe, interrupt thread, attributes, remove | every order of handler, callers, failing probe and removal; results of transfers that nobody looks at |
| LED, misc, class, I/O expander and introductory modules | the remaining directories | a register or nothing | register and unregister a device | nothing that a model would show |

`PROJECT.json` lists every component with its status, and under `hazards` the
lines where these drivers can go wrong. The components do not call each other:
each is a kernel module of its own, and what connects it to the rest of the
system is the kernel (network stack, cfg80211, sysfs, workqueue, interrupts).
That environment is modelled by the actions that call into the driver.

What makes each of them correct:

* snull: no packet buffer is lost, doubled or linked into a foreign list; frames
  are carried at most once and unaltered; each socket buffer is freed once; a
  stopped queue restarts.
* wireless: one report per accepted request, no driver that stays busy, nothing
  left after a failed load or after unload.
* LEDs: at most one LED on, a blinking thread is known to the driver, the period
  stays in its range, writes return, nothing survives removal.
* DMA: a wait is ended by the transaction it is for, a write that reports
  success has copied, and every write returns.
* key ring: no lost wake-up, events in order, also across a new probe.
* LTC3206: the chip shows what the driver remembers, an LED keeps its brightness
  when others change, and is dark after removal.
* accelerometer: no use of freed memory, a press and a release per tap, copies
  that agree with the chip, removal that ends.

## 2. Modules

| module | models | checked by |
|---|---|---|
| `LossyLink` | abstract: a link that carries accepted frames at most once, unaltered, in any order, with losses | refined by the next two |
| `Snull` | `snull_anuz.c`, default mode | `MCSnull` with three configurations |
| `SnullProofs` | theorems about `Snull` | TLAPS |
| `SnullNapi` | `snull_3dec2020.c`, one direction, step by step | one configuration |
| `SnullNapiProofs` | theorems about `SnullNapi` | TLAPS |
| `SnullLife` | `snull_3dec2020.c`, both interfaces from load to unload, call by call | one configuration |
| `SnullLifeProofs` | theorems about `SnullLife` | TLAPS |
| `Navifly` | `virtualwifi.c` | one configuration |
| `NaviflyProofs` | theorems about `Navifly` | TLAPS |
| `KeyLed` | `keyled_module.c` | one configuration |
| `KeyLedProofs` | theorems about `KeyLed` and `KeyLedProbe` | TLAPS |
| `KeyLedProbe` | probe and remove of `keyled_rpi_class.c` | one configuration |
| `SleepRing` | `sleep_module.c` | one configuration |
| `SleepRingProofs` | theorems about `SleepRing` and `DmaSg` | TLAPS |
| `DmaSg` | `dma_sg.c` | `MCDmaSg` with one configuration |
| `Accel` | `spi_accel.c` | one configuration |
| `AccelProofs` | theorems about `Accel` | TLAPS |
| `Ltc3206` | `i2c_class.c` | one configuration |
| `Ltc3206Proofs` | theorems about `Ltc3206` | TLAPS |

`PROJECT.json` maps every definition to the lines it models. Common conventions:

* A section under one lock is one step; every unlocked access to shared memory
  is a step of its own. Memory is sequentially consistent, except where a module
  says that two stores may be exchanged (`SleepRing`).
* A definition that models a decision of the code (`LosesTx`, `NotBusy`,
  `MayRun`, ...) has its own name. The definition before it, with a name that
  tells the mistake (`LosesTxTooEarly`, `NeverBusy`, `RunAnyway`), is a
  plausible wrong version that some property must refute. It is used nowhere
  else.
* History variables are marked; no guard of an action that models code reads
  them, apart from bounds. Several properties name in their hypothesis the one
  thing that breaks them (`missed`, `emptyStart`, `failures`, `overlap`, `late`,
  `clean`): they say that nothing else does.
* Failure of an allocation or of `copy_to_user` is a choice of the environment.

### Snull

One context per interface, because the kernel serialises `snull_tx` and
`snull_tx_timeout` of one interface under its transmit lock; the two contexts
run on two CPUs. `Xmit`, `GetTxBuffer`, `EnqueueBuf`, `LoadRxStatus`,
`StoreRxStatus`, `LoadTxStatus`, `StoreTxStatus` and `LockupOrInterrupt` are
`snull_tx` and `snull_hw_tx` in order; `TakeInterrupt` and `ServeInterrupt` are
the two halves of the locked section of `snull_regular_interrupt` (two, because
writers of the status word ignore the lock); `ReleaseBuffer`, `TestStopped`,
`TestNext`, `WakeOwner` are `snull_release_buffer`, whose tests come after the
unlock; `TxTimeout` and `EndTimeout` are `snull_tx_timeout`. A NULL dereference
is the program point `oops`, after which nothing runs. A frame is its number,
which is what `data` holds of it.

### SnullNapi

The transmit context of `Src` against the poll of `Dst`. The status words are
touched by the transmit context only, so interrupts are one step here.
`srcLockLeaked` records the early return of `snull_get_tx_buffer` that keeps the
spinlock. `ResetPool(n)` is teardown and setup with as many buffers as `kmalloc`
yields; reading `pkt->next` of a freed buffer yields either outcome.

### SnullLife

The same file seen from outside: module, registration and queue state of both
interfaces, with frames both ways. Pool and receive queue are counts, because a
buffer in the queue of one interface always belongs to the other. A transmission
and a poll are one step each (their inside is the subject of `SnullNapi`).
`Load`, `Allocate`, `Register` are `snull_init_module`, `Unload` and `Cleanup`
are `snull_cleanup`, one interface after the other; `Close` and `EndClose` are
the two halves of `snull_release`, between which `napi_disable` waits. The
kernel ends a scheduled poll that used up its budget when `napi_disable` waits.
`Spin` is a context that waits for a leaked lock.

### Navifly

cfg80211 calls one operation at a time (it holds the RTNL). The operation is two
steps, the section under the semaphore and `schedule_work` after it. A work item
can be pending and running at once, but never runs twice at once. In the scan
routine the report and the clearing of the request are two steps under the
semaphore. `Acquire` and `FailToAcquire` are the five acquisitions of
`navifly_create_context` and their unwinding; `Exit` is `virtual_wifi_exit`.

### KeyLed

Each writer is a process inside a store method or inside `my_remove`; the steps
between which another writer can intervene are separate. A blinking thread is
`new`, in its `loop`, or gone. `Word` is the modulus of the unsigned period;
TLC's integers do not hold 2^32, so the runs use 2^16, and the assumption is
only that it is larger than every period plus 10.

### KeyLedProbe

Each exit of `my_probe` is its own action: `ProbeError` goes to the error label,
`ProbeReturn` returns from the middle of the walk, `FailToLoad` comes before
anything was done; a crash (an error pointer that is written through) is the
state `oops`. The children of the device-tree node are visited in any order.
`FillIn` assigns the three fields behind a new device one by one, `Write` is a
user's call of an attribute at any moment in between. Probe is `__init` code, so
each further probe is a load of the module.

### SleepRing

`Probe`, `MiscRegister`, `Remove` and `DevresRelease` bind and unbind the driver;
the ring stays, the wait queue goes, and a process that still has the file open
goes astray where it touches the freed private data (`OrAstray`). `StoreChar`
and `StoreIndex` happen in either order. The wait of
`wait_event_interruptible` is modelled from its use: test, join the wait queue,
test again, sleep. `clean` records that the ring was never overrun and no read
fell between the handler's stores; the driver does not defend itself against
either, and `EventsInOrder` is stated for clean behaviours.

### DmaSg

Physical memory is a row of blocks; `Layouts` says where the allocators may put
the buffers. `Write` to `CheckSecond` are `sdma_write` in order, both
transactions through the same actions with `round` telling them apart. The DMA
engine is external: it executes transactions in order (`Transfer`, which may
fail without notice) and then runs the callback. The completion is modelled as
the kernel's: a counter and a wait list, which `init_completion` forgets and
`reinit_completion` does not. A write is a first byte and a rest, because the
driver compares first bytes only. A write to a device whose probe has not
finished, or has failed, ends in `oops`; after removal nothing is modelled.

### Accel

`Acquire` and `FailToAcquire` walk through the acquisitions of `adxl345_probe`
in order (`Steps`), `InitWrite` through the register writes at its end;
`DevresRelease` frees the managed resources, newest first, and waits for the
handler when it frees the interrupt. The handler reads the status, reads and
clears the source, and reports press, sync, release, sync. A failed read yields
bits that may or may not look like a tap. The input core drops events that
change nothing and those of an unregistered device. An attribute call before
`spi_set_drvdata` ends in `oops`. The data registers are 16 bits in two's
complement, of which the driver extends bit 12.

### Ltc3206

A byte is the set of its bits. `Load` and `Store` are one compound assignment,
an update is two of them (`clear`, then `set`) or one (the attributes, which
only set bits), then `Send`, then for the attributes the two levels of the pin.
Masks and shifts are those of the code, the ones of `main` included, which make
it clear the nibble of `sub` and set nothing. `SwitchOff` and `UnregisterLed`
are the LED core, which sets the brightness to 0 before an LED goes.

## 3. Runs

| run | bounds | what it shows |
|---|---|---|
| `snull_twoway` | pools of 2 and 1, 2 frames each way, every 2nd TX interrupt lost, one interface closed and opened; 1.5 million states | buffers are conserved, the link fields agree with the lists, frame counts add up and the pair implements `LossyLink`, for every interleaving, the racing ones included |
| `snull_oneway` | 5 frames one way | without a racing peer nothing panics, each skb is freed once, every lost interrupt is repaired and counted once, and every frame completes |
| `snull_skb_race` | 2 frames each way, no lockup | a violation: the unlocked update of the status word makes the driver free one skb twice |
| `napi_poll` | pool 2, budget 2, 3 frames, 2 watchdog expirations | allocated buffers are in one place each and freed ones in none, although the watchdog replaces the pool; interrupts are masked exactly while a poll is due; polls end |
| `snull_life` | pool 2, budget 2, 5 frames, 1 watchdog expiration, 3 opens, 2 loads; 586 000 states | an interface goes deaf only by a frame that met it with NAPI disabled; the lock is leaked only after a queue was started with an empty pool; only the second interface ever touches freed memory; unload frees every buffer unless a frame met an interface with NAPI disabled |
| `navifly_ops` | 3 scans, 3 connects or disconnects | nothing is left after a failed load, and after unload only if an operation came in between; scans are reported once and complete; results match requests |
| `keyled_onewriter` | 3 LEDs, 1 process, 2 key presses, periods at both limits | at most one LED on, the thread is tracked, the period is in range, writes return, removal is clean |
| `keyled_probe` | 3 LEDs, 4 loads; 119 000 states | without a failed probe a write meets at most a device whose pointer is not set yet; a failed probe leaves at most one device, and no class |
| `dma_onewriter` | 1 process, 3 writes of 4 values, three layouts | each wait is ended by its own transaction, with nothing left over; success implies that the first byte arrived although transactions may fail; writes return |
| `ring_wrap` | ring of 3, 5 edges, 6 reads, 2 probes; 1.4 million states | no lost wake-up; order and contents of the ring across its end and across a new probe |
| `accel_rebind` | 2 processes, 2 taps, 2 calls, 1 failed transfer, 2 probes; rates above 15 and above 255, samples at full scale; 556 000 states | handler and calls use only what is allocated; presses and releases alternate and are no more than the taps; copies agree with the chip after calls that do not overlap; removal ends and a tap's line is lowered |
| `ltc3206_updates` | 3 LEDs that share bytes, 2 updates, 1 failed transfer, 2 probes, a brightness of 5 and one of 16; 2.5 million states | the chip shows the driver's copy whenever nobody updates; green and blue keep what was asked for; LEDs are dark after removal |

Why the bounds are enough. In `Snull` the interesting cases need an interface
whose pool runs empty (size 1 does at every frame), one whose pool does not
(size 2), a second frame that meets the first, and a lost interrupt; all of them
happen with two frames each way, and five frames one way add two complete
cycles of loss and repair. In `SnullNapi` two replacements of the pool and a
budget that three frames exceed. In `Navifly` a third request is needed to meet
one that is reported and one that is not cleared. In `SnullLife` five frames fill
a budget twice, and three opens allow one interface to be opened again while the
other is up. In `KeyLedProbe` four loads meet what three earlier ones left. In
`Accel` and `Ltc3206` two calls are what it takes to overlap, and the second
probe meets what the first binding left in the chip. In `KeyLed` the key presses
start at each limit of the range. In `DmaSg` a third write meets
what two earlier ones left, one of which failed. In `SleepRing` five edges go around a
ring of three and overrun it, and the second probe meets unread events.

### Fairness

Only runs with liveness properties use a fair specification, and only weak
fairness: a context that runs keeps running (it has a CPU; the spinlocks of the
kernel are fair); the watchdog timer of a stopped queue expires; the softirq
calls a scheduled poll; the driver core goes on with a probe or a removal it has
begun and an interrupt thread runs; the workqueue runs what was scheduled; a process inside
a system call and a thread that was asked to stop are scheduled; an interrupt
handler runs to its end. No fairness is assumed of users, of the network stack
or of failures.

`CHECK_DEADLOCK FALSE` is used where the bounds let the system come to rest, and
where the code itself stops it (a crash in probe, a leaked lock).

### Findings

The violation run `snull_skb_race` has an entry under `findings`. Further
behaviours that a reader of the code should know of are reachable in the models;
the properties are stated so that they say exactly what leads there:

* With traffic both ways the panic in `snull_get_tx_buffer` of `snull_anuz.c`
  (`oops`), because the watchdog and `open` start the queue without looking at
  the pool; `NoPanic` is stated for one direction.
* In `snull_3dec2020.c`: the leaked lock (`LockKept`); a frame that is left in
  the queue when it arrives between the last test of the poll and the unmasking
  of interrupts, against the comment in line 332; an interface that is deaf after
  a frame met it closed (`HearsWhileUp`); the second interface writing to the
  freed first one (`FirstStaysClear`).
* In `virtualwifi.c` an operation during unload schedules a work item after it
  was cancelled (`late` in `NothingLeftBehind`).
* In `keyled_module.c` two writers start two threads, one of which nobody stops:
  `ThreadTracked` holds for one writer and fails for two.
* In `keyled_rpi_class.c` a write between `device_create` and the assignment of
  `private` follows NULL, and what a failed probe leaves crashes the next one.
* In `dma_sg.c` `WaitsForOwn` holds for one writer and fails for two, and the
  second and third buffer are copied only if they happen to be adjacent.
* In `sleep_module.c` a reader that sleeps or keeps its file open over a removal
  uses the freed wait queue (`astray`).
* In `spi_accel.c` an attribute call before `spi_set_drvdata` crashes and lets
  removal wait for ever (`Oops` in `RemoveEnds`); overlapping calls leave the
  copies of rate and position inconsistent (`overlap` in `SerialCallsAgree`).
* In `i2c_class.c` the LED `main` cannot be lit and clears `sub`; writing to
  `rgb` sets every bit of its byte but the one that it says it clears; attributes
  left behind by a failed probe crash when they are used.

## 4. Proofs

Eight modules hold theorems. Each theorem states `Spec => []P` for a property `P`
that a run checks (or `Spec => P` for an action property and for the
refinements), for every value of the constants: the bounds of the runs are
constants too, so a theorem holds for any number of frames, calls, probes and
failures. The assumptions are the named `ASSUME`s of the component modules, which
TLC evaluates in the runs. `KeyLedProbe` and `DmaSg` are instantiated, as `Probe`
in `KeyLedProofs` and as `Dma` in `SleepRingProofs`, and what is assumed of their
constants is a hypothesis of the theorems. Every invariant below was
model-checked with the run's configuration before it was proved. Together the
theorems cover every invariant, every action property and both refinements that
the passing runs check; what is left is liveness.

| theorem | states | inductive invariant |
|---|---|---|
| `SnullProofs`: `TypeCorrect`, `BuffersConserved` | `TypeOK`, `BufferConservation` | `IInv` |
| `ListsStayLinked`, `FramesStayAccounted` | `LinksMatchLists`, `FramesAccounted` | `IInv` with the property itself |
| `DriverImplementsLink` | `ImplementsLink` | `RInv` |
| `OneWayNoPanic`, `OneWayFreesOnce`, `OneWayRestIsClean`, for one sender | `NoPanic`, `SkbFreedOnce`, `RestIsClean` | `IInv` with `OneWayInv` |
| `SnullNapiProofs`: `BuffersStayInPlace`, `MaskFollowsPoll` | `LiveInOnePlace`, `MaskedWhilePolling` | `NapiInv` |
| `NapiImplementsLink` | `ImplementsLink` | `LinkInv` |
| `SnullLifeProofs`: `NeverDeaf`, `LockLeaksOnlyEmpty`, `FirstNeverStrays`, `UnloadLosesNothing` | `HearsWhileUp`, `LockKept`, `FirstStaysClear`, `UnloadFreesAll` | `LifeInv` |
| `NaviflyProofs`: `UnloadIsClean`, `ScansAreReportedOnce`, `ConnectsAreAnswered` | `NothingLeftBehind`, `ScanReportedOnce`, `ConnectsAnswered` | `NaviInv` |
| `KeyLedProofs`: `PeriodStaysInRange` | `PeriodInRange` | `MethodInv` |
| `ThreadStaysTracked`, `OneLedAtATime`, `RemoveLeavesNothing`, for one writer | `ThreadTracked`, `AtMostOneLit`, `NothingAfterRemove` | `MethodInv`, `BlinkInv` |
| `ProbeWritesSafe`, `ProbeLeftBehind` | `WritesSafe`, `LeftBehind` of `KeyLedProbe` | `ProbeInv` |
| `SleepRingProofs`: `SleeperIsWoken` | `NoLostWakeup` | `WakeInv` |
| `EventsKeepOrder` | `EventsInOrder` | `OrderInv` |
| `DmaWaitsForOwn`, `DmaEchoes`, for one writer | `WaitsForOwn`, `FirstByteEchoed` of `DmaSg` | `DmaInv` |
| `AccelProofs`: `NothingFreedIsUsed` | `NoUseAfterFree` | `CoreInv` |
| `PressesAreTaps` | `TouchMeansTap` | `CoreInv`, `TouchInv` |
| `SerialCallsStayConsistent` | `SerialCallsAgree` | `CoreInv`, `AgreeInv` |
| `Ltc3206Proofs`: `ChipIsInStep` | `ChipShowsCommand` | `IInv` |
| `ColoursStayAsAsked`, `RemovalLeavesDark` | `ColoursAsAsked`, `DarkAfterRemove` | `ColourInv` |

### Snull

`TypeOK` says besides shapes that a context that is about to follow `pkt->dev`
or `pkt->next` has a buffer. `BufferConservation` is not inductive: nothing in it
says that the buffer a context is about to link into the peer's queue is its own,
and a foreign one would end in the wrong list. `EnqueuesOwn` adds that, and
`IInv == TypeOK /\ BufferConservation /\ EnqueuesOwn` is inductive. Four actions
move a buffer: `GetTxBuffer`, `EnqueueBuf`, `ServeInterrupt`, `ReleaseBuffer`;
each has a lemma. The others leave the lists alone and only move a context to a
point where it holds nothing (`QuietMove`).

`LinksMatchLists` follows from conservation: the next field that a step rewrites
is that of a buffer in hand, which is in no list. `FramesAccounted` is a balance;
`Moves` gives the change of each of its terms, and every step changes both sides
alike. The refinement maps `inFlight` to the frames of the queue and the one that
is being handed over. That a frame leaves the set when its buffer leaves the
queue needs that no two queued buffers carry the same frame (`FramesDistinct`);
that queueing a frame is a stutter needs that the buffer carries the frame handed
over last (`CopiesFrame`).

`NoPanic`, `SkbFreedOnce` and `RestIsClean` have the hypothesis `OneWay(s)`: only
`s` transmits and it is not taken down. It is what the run `Snull_oneway` checks,
and it is needed: with traffic in both directions the model panics and frees a
frame twice (see Findings). `OneWayInv(s)` follows one frame through the driver.
`Path` says where `s` is (nothing else of the pair moves: `Others`), `Flow` when
its queue is stopped and how long pool and receive queue are, `Word` what the two
status words are at every point, so that a TX bit that a handler finds is always
that of the pending frame, and `Counts` that the completed frames are exactly the
first ones. That `txErrors` is `txPackets \div Lockup` needs the arithmetic of
`Lost`: it grows by one exactly when the interrupt is lost (`LostStep`).

Assumptions: `DevAssumption` (the peer relation pairs different interfaces),
`ParamAssumption` (pool sizes positive, the others natural numbers), and
`NoneAssumption` (`None` is neither an interface nor a buffer).

### SnullNapi

`OnePlace` is conservation with the hands of the two contexts as places of their
own. Replacing the pool needs that new buffers are new: `live \subseteq
1..LastBuf` in `NapiTypes`, because the pool of the n-th expiration is numbered
after all earlier ones. The refinement is that of `Snull` (`FramesApart`), with
the replacement of the pool as one more stutter: it frees pool buffers only, and
those carry no frame that is under way.

### SnullLife

`Stages` says where loading and unloading stand in terms of the two interfaces:
the first goes before the second, and while one is registered the other has been
allocated. From that, the first interface never meets a freed second one
(`FirstStaysClear`). `Armed` extends `HearsWhileUp` to closed interfaces, which
must be found armed by the next open, and says that frames wait only for a poll.
`NoneWaiting` then makes unloading free everything. The proof showed that an
earlier form of `UnloadFreesAll` was weaker than it had to be: it also excused
losses when the second interface used the freed first one, which is never the
reason. It is stated without that excuse now.

### Navifly

`ScanOwned` says who owns `scan_request`: the operation that is about to schedule
the work, the pending work, or the running work, of which there is one at a time;
a new request is accepted only when none does. `Resources` ties what is held to
the step of load, `Cancelled` says which work items are gone at each step of
unload, and `Answered` is the balance of connects.

### KeyLed

`PeriodInRange` holds for any number of writers; that probe is over before
removal is the one thing to add (`InMethod`). The other three theorems have the
hypothesis `OneWriter`: the driver has no lock, and for two writers the
properties are false (see Findings). `Tracks` follows `task_flag`, `task` and the
thread through every program point of a method, the ones included at which flag
and thread disagree; `Lights` says that only the LED of the thread, or the one of
the last write, can be on.

### KeyLedProbe

`Own` is what the load in progress has made: the devices that are counted and the
one that is being filled in. `Walk` says that every LED the walk has passed is
counted or being filled in, so that the count is that of the device tree when
probe ends; `Slots`, that a counted LED has its slot, which is why the order of
the last two stores matters. For `LeftBehind` the devices besides `Own` are at
most as many as the failures (`Leftovers`): the error label adds one at most,
the device that is being filled in. `NoFailure` says that without a failure
nothing at all is left, so that nothing freed can be written through. The number
of LEDs and of loads is arbitrary.

### SleepRing

A sleeper is on the wait queue and has its file open: with that `NoLostWakeup` is
inductive. For `EventsInOrder` the invariant counts events as recorded,
published, stored and consumed; both indices are these counts modulo the size of
the ring (`Placed`, which holds always), and as long as the behaviour is clean
the characters between them are the events between the counts, also between the
two stores of the handler in either order and between the halves of a read
(`InOrder`).

### DmaSg

For one writer (`OneUser`): nothing keeps two from taking each other's completion.
`Turns` says that a transaction is queued or called back only while the writer
waits for it, that the completion is 0 except between callback and wake-up, and
that the transaction waited for is the last one issued; a completion left over
from the first round or from a write that failed would contradict it. `Bytes`
says that the source keeps what the user wrote from `copy_from_user` to the
verdict. For that the first transaction, which copies three blocks from the
address of the first buffer on whatever is there, must not run over the source of
the second: `Apart` assumes of the layouts that it does not (the source is a
coherent buffer from another allocator), besides that buffers differ.

### Accel

`devres` is a prefix of the acquisition order, and its length follows from where
probe or release stand (`Holds`); the attributes exist only while the private data
does (`Attributes`). For `TouchMeansTap`, whoever has the button down is going to
be told its release (`Told`), and every press under way and every tap not yet
read has a tap of its own (`TapsCounted`). For `SerialCallsAgree`, a call that is
half way has stored what it carries (`RateKept`, `PositionKept`); the lemma
`BitsKeepTheValue` says that masking keeps a rate and that splitting a sample
into bytes and extending bit 12 gives the sample back, for every value.

### Ltc3206

`ChipShowsCommand` speaks of states in which nobody updates; `Pending` extends it:
chip and copy differ only while some updater is between its first load and its
transfer. A new update starts from idle, an update stays pending until it sends,
and sending makes chip and copy equal whatever the others stored in between.
For the colours `Serial` says that without overlaps there is one update at a time
and what it has loaded is still there, `LowNibble` that `main` never sets a bit,
`Colours` what the nibble of a colour is at each point of an update. `Leavers`
says that an LED that is leaving is dark in the copy from the first half of its
last update on, and on the chip from its end; `DarkAfterRemove` follows for the
step that ends a removal.

### Only model-checked

* Liveness (`EveryFrameCompletes`, `PollEnds`, `EveryScanCompletes`,
  `EveryWriteReturns`, `WriteReturns`, `SleeperReturns`, `RemoveEnds`): fairness
  and `ENABLED` are out of the prover's reach.
* What holds with several writers or traffic both ways of the properties that
  are proved for one: the theorems say nothing of it, and several of them fail
  there (see Findings).
* That the bounds of a run let the interesting cases happen, and the violation
  of `SkbFreedOnce`: these are statements about single behaviours.

## 5. Not modelled

* The header construction and MTU of snull (pure data), and its original copy
  `snull.c`. Its load and unload are modelled in `snull_3dec2020.c` only.
* Weak memory, except for the two stores of the key handler.
* A second reader of the key ring; it could overtake `buf_wr`.
* Failure paths of `probe` in `keyled_module.c`; `KeyLedProbe` has those of the
  other version.
* In `Ltc3206` and `Accel`, transfers that reach the chip in part.
* In `Navifly`, calls between registration of the device and initialisation of
  the semaphore, and what cfg80211 makes of results in an unexpected order.
* Components marked `not_modelled` in `PROJECT.json`, each with its reason.

## 6. Plan

In this order; steps 1 to 12 are done.

1. `LossyLink`, `Snull`, `MCSnull`: the core, with refinement and liveness.
2. `SnullProofs`: type correctness, conservation of buffers.
3. `SnullNapi`, the second implementation of `LossyLink`.
4. `Navifly`, with load and unload.
5. `KeyLed`, `SleepRing`.
6. `DmaSg`.
7. More of the modelled drivers: `SnullLife` (load, unload, open, close),
   `KeyLedProbe` (failure paths of probe), probe and remove in `SleepRing`.
8. `Accel`, `Ltc3206`.
9. `Ltc3206Proofs`.
10. Proofs of the safety properties of `Snull`, `SnullNapi`, `SnullLife`,
    `Navifly`, `KeyLed`, `SleepRing`, `Accel` and `Ltc3206`, and of both
    refinements of `LossyLink`.
11. Proofs of `NoPanic`, `SkbFreedOnce` and `RestIsClean` for one sender, in
    `SnullProofs`.
12. Proofs of the safety properties of `KeyLedProbe` and `DmaSg`.
13. `BlockList`: read and write positions of `linkedlist_platform.c` against a
    reference sequence; the timer; `dma_mmap.c`.
