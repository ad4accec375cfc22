------------------------------ MODULE Navifly ------------------------------
(***************************************************************************)
(* The virtual FullMAC wireless driver dummy_wifi/virtualwifi.c.           *)
(*                                                                         *)
(* cfg80211 calls nvf_scan, nvf_connect and nvf_disconnect, one at a time; *)
(* each stores its argument in the context under the semaphore and         *)
(* schedules a work item after releasing it.  The three work items run on  *)
(* the system workqueue: concurrently with each other and with the next    *)
(* call, none of them twice at once, in any order.  They report the result *)
(* to cfg80211.  Module load acquires five resources in order and unwinds  *)
(* on failure; module exit cancels the work items and frees the context.   *)
(*                                                                         *)
(* A section under the semaphore is one step, except in the scan routine,  *)
(* where cfg80211_scan_done and the clearing of scan_request are two: as   *)
(* soon as the scan is reported cfg80211 may ask for the next one.         *)
(***************************************************************************)
EXTENDS Integers, Sequences, FiniteSets

CONSTANTS
  Dummy, Other,  (* the SSID that exists, and any other one                *)
  Empty,         (* no SSID: ssid == NULL or ssid_len == 0                 *)
  MaxScan,       (* bound: calls of nvf_scan                               *)
  MaxCalls       (* bound: calls of nvf_connect and nvf_disconnect         *)

ASSUME NaviflyAssumption ==
  /\ Cardinality({Dummy, Other, Empty}) = 3
  /\ MaxScan \in Nat /\ MaxCalls \in Nat

VARIABLES
  phase,        (* how far module load and module exit are                 *)
  res,          (* the resources that the driver holds                     *)
  sem,          (* "free", or held by the scan routine                     *)
  pend, run,    (* work items that are pending, that are running           *)
  scanPc,       (* where the running scan routine is                       *)
  op,           (* the cfg80211 operation in progress: what it schedules   *)
  scanRequest,  (* navi->scan_request, 0 for NULL                          *)
  ssid,         (* navi->connecting_ssid                                   *)
  paired,       (* a connect was accepted and no disconnect since          *)
  nScan, calls, (* history: calls made so far                              *)
  accepted,     (* history: scan requests for which nvf_scan returned 0    *)
  done,         (* history: done[r] counts cfg80211_scan_done(r), r = 0    *)
                (* for NULL                                                *)
  connects,     (* history: calls of nvf_connect that returned 0           *)
  dummies,      (* history: calls of nvf_connect that stored the dummy SSID*)
  answers,      (* history: connect results reported, by kind              *)
  late          (* history: an operation scheduled its work during exit    *)

initVars == <<phase, res>>
workVars == <<pend, run, scanPc>>
ctxVars  == <<sem, scanRequest, ssid>>
callVars == <<op, paired, nScan, calls>>
histVars == <<accepted, done, connects, dummies, answers, late>>
vars     == <<initVars, workVars, ctxVars, callVars, histVars>>

Works == {"scan", "connect", "disconnect"}

-----------------------------------------------------------------------------
(* navifly_create_context: the resources in the order of acquisition.      *)
(* Each step may fail; everything acquired before is then released, last   *)
(* first.  A registration is undone before the object is freed.            *)
Steps == <<"context", "wiphy", "wiphyRegistered", "ndev", "ndevRegistered">>

UnwindsAllButFirst(n) == {Steps[i] : i \in 2..n}
Unwinds(n) == {Steps[i] : i \in 1..n}

Init ==
  /\ phase = "creating" /\ res = {}
  /\ sem = "free" /\ pend = {} /\ run = {} /\ scanPc = "idle"
  /\ op = "idle" /\ scanRequest = 0 /\ ssid = Empty /\ paired = FALSE
  /\ nScan = 0 /\ calls = 0
  /\ accepted = {} /\ done = [r \in 0..MaxScan |-> 0]
  /\ connects = 0 /\ dummies = 0 /\ answers = [ok |-> 0, timeout |-> 0]
  /\ late = FALSE

Acquire ==
  LET n == Cardinality(res) IN
  /\ phase = "creating" /\ n < Len(Steps)
  /\ res' = res \cup {Steps[n + 1]}
  /\ UNCHANGED <<phase, workVars, ctxVars, callVars, histVars>>

FailToAcquire ==
  LET n == Cardinality(res) IN
  /\ phase = "creating" /\ n < Len(Steps)
  /\ res' = res \ Unwinds(n)
  /\ phase' = "failed"
  /\ UNCHANGED <<workVars, ctxVars, callVars, histVars>>

(* virtual_wifi_init: the semaphore, the work items and the fields of the  *)
(* context are initialised once the context was created.                   *)
InitContext ==
  /\ phase = "creating" /\ Cardinality(res) = Len(Steps)
  /\ phase' = "ready"
  /\ sem' = "free" /\ ssid' = Empty /\ scanRequest' = 0
  /\ UNCHANGED <<res, workVars, callVars, histVars>>

-----------------------------------------------------------------------------
(* cfg80211 calls the operations until the device is unregistered, also    *)
(* while module exit cancels the work items.                               *)
Exiting  == phase \in {"cancel1", "cancel2", "cancel3", "gone"}
Callable == op = "idle" /\ phase \notin {"creating", "failed", "gone"}

(* schedule_work: FALSE if the item is pending already.                    *)
AlwaysQueued(w) == TRUE
Queued(w) == w \notin pend

(* A signal ends the wait for the semaphore: -ERESTARTSYS.                 *)
Interrupted ==
  /\ Callable
  /\ \/ nScan < MaxScan /\ nScan' = nScan + 1 /\ calls' = calls
     \/ calls < MaxCalls /\ calls' = calls + 1 /\ nScan' = nScan
  /\ UNCHANGED <<initVars, workVars, ctxVars, op, paired, histVars>>

(* nvf_scan: at most one request at a time.                                *)
SemTaken == sem = "free"

NeverBusy == TRUE
NotBusy == scanRequest = 0

NvfScanBusy ==
  /\ Callable /\ nScan < MaxScan
  /\ SemTaken
  /\ ~NotBusy
  /\ nScan' = nScan + 1
  /\ UNCHANGED <<initVars, workVars, ctxVars, op, paired, calls, histVars>>

NvfScan ==
  /\ Callable /\ nScan < MaxScan
  /\ SemTaken
  /\ NotBusy
  /\ nScan' = nScan + 1
  /\ scanRequest' = nScan + 1
  /\ op' = "scan"
  /\ UNCHANGED <<initVars, workVars, sem, ssid, paired, calls, histVars>>

ScheduleScan ==
  /\ op = "scan"
  /\ op' = "idle"
  /\ accepted' = IF Queued("scan") THEN accepted \cup {nScan} ELSE accepted
  /\ pend' = pend \cup {"scan"}
  /\ late' = (late \/ Exiting)
  /\ UNCHANGED <<initVars, run, scanPc, ctxVars, paired, nScan, calls, done,
                 connects, dummies, answers>>

(* nvf_connect: the SSID is stored whether or not the work item can be     *)
(* scheduled then.  Names of more than 15 bytes are cut; none of them is   *)
(* the dummy's.                                                            *)
NvfConnect(s) ==
  /\ Callable /\ calls < MaxCalls
  /\ s # Empty => SemTaken
  /\ calls' = calls + 1
  /\ ssid' = IF s = Empty THEN ssid ELSE s
  /\ dummies' = IF s = Dummy THEN dummies + 1 ELSE dummies
  /\ op' = IF s = Empty THEN "idle" ELSE "connect"
  /\ UNCHANGED <<initVars, workVars, sem, scanRequest, paired, nScan, accepted,
                 done, connects, answers, late>>

ScheduleConnect ==
  /\ op = "connect"
  /\ op' = "idle"
  /\ connects' = IF Queued("connect") THEN connects + 1 ELSE connects
  /\ paired' = (paired \/ Queued("connect"))
  /\ pend' = pend \cup {"connect"}
  /\ late' = (late \/ Exiting)
  /\ UNCHANGED <<initVars, run, scanPc, ctxVars, nScan, calls, accepted, done,
                 dummies, answers>>

(* nvf_disconnect is called in pair with a connect.  The reason code that  *)
(* it stores is only passed through.                                       *)
NvfDisconnect ==
  /\ Callable /\ calls < MaxCalls
  /\ paired
  /\ SemTaken
  /\ calls' = calls + 1
  /\ op' = "disconnect"
  /\ UNCHANGED <<initVars, workVars, ctxVars, paired, nScan, histVars>>

ScheduleDisconnect ==
  /\ op = "disconnect"
  /\ op' = "idle"
  /\ paired' = FALSE
  /\ pend' = pend \cup {"disconnect"}
  /\ late' = (late \/ Exiting)
  /\ UNCHANGED <<initVars, run, scanPc, ctxVars, nScan, calls, accepted, done,
                 connects, dummies, answers>>

-----------------------------------------------------------------------------
(* The workqueue: an item is started when it is pending and not running.   *)
Start(w) ==
  /\ w \in pend \ run
  /\ phase # "gone"
  /\ pend' = pend \ {w}
  /\ run' = run \cup {w}
  /\ scanPc' = IF w = "scan" THEN "report" ELSE scanPc
  /\ UNCHANGED <<initVars, ctxVars, callVars, histVars>>

(* navifly_scan_routine, after its sleep.                                  *)
ReportScan ==
  /\ scanPc = "report"
  /\ sem = "free"
  /\ sem' = "scan"
  /\ done' = [done EXCEPT ![scanRequest] = @ + 1]
  /\ scanPc' = "clear"
  /\ UNCHANGED <<initVars, pend, run, scanRequest, ssid, callVars, accepted,
                 connects, dummies, answers, late>>


ClearScan ==
  /\ scanPc = "clear"
  /\ scanRequest' = 0
  /\ sem' = "free"
  /\ run' = run \ {"scan"}
  /\ scanPc' = "idle"
  /\ UNCHANGED <<initVars, pend, ssid, callVars, histVars>>

(* navifly_connect_routine: a result is reported either way, a success if  *)
(* the SSID is the dummy's and a timeout if not; then the SSID is cleared. *)
SsidKept == ssid
SsidCleared == Empty

ConnectRoutine ==
  /\ "connect" \in run
  /\ sem = "free"
  /\ answers' = IF ssid = Dummy THEN [answers EXCEPT !.ok = @ + 1]
                               ELSE [answers EXCEPT !.timeout = @ + 1]
  /\ ssid' = SsidCleared
  /\ run' = run \ {"connect"}
  /\ UNCHANGED <<initVars, pend, scanPc, sem, scanRequest, callVars, accepted,
                 done, connects, dummies, late>>

DisconnectRoutine ==
  /\ "disconnect" \in run
  /\ sem = "free"
  /\ run' = run \ {"disconnect"}
  /\ UNCHANGED <<initVars, pend, scanPc, ctxVars, callVars, histVars>>

-----------------------------------------------------------------------------
(* virtual_wifi_exit: three times cancel_work_sync, which waits for the    *)
(* running item, then navifly_free, which waits for the operation in       *)
(* progress and lets no further one start.                                 *)
Cancel(from, w, to) ==
  /\ phase = from
  /\ w \notin run
  /\ pend' = pend \ {w}
  /\ phase' = to
  /\ UNCHANGED <<res, run, scanPc, ctxVars, callVars, histVars>>

Free ==
  /\ phase = "cancel3"
  /\ op = "idle"
  /\ phase' = "gone"
  /\ res' = {}
  /\ UNCHANGED <<workVars, ctxVars, callVars, histVars>>

Exit ==
  \/ Cancel("ready", "connect", "cancel1")
  \/ Cancel("cancel1", "disconnect", "cancel2")
  \/ Cancel("cancel2", "scan", "cancel3")
  \/ Free

-----------------------------------------------------------------------------
Schedule == ScheduleScan \/ ScheduleConnect \/ ScheduleDisconnect

Work ==
  \/ \E w \in Works : Start(w)
  \/ ReportScan \/ ClearScan \/ ConnectRoutine \/ DisconnectRoutine

Halt == phase \in {"failed", "gone"} /\ UNCHANGED vars

Next ==
  \/ Acquire \/ FailToAcquire \/ InitContext
  \/ Interrupted \/ NvfScanBusy \/ NvfScan \/ NvfDisconnect
  \/ \E s \in {Dummy, Other, Empty} : NvfConnect(s)
  \/ Schedule
  \/ Work
  \/ Exit
  \/ Halt

Spec == Init /\ [][Next]_vars

(* The operation in progress goes on, and the workqueue runs every item    *)
(* that was scheduled.                                                     *)
FairSpec ==
  /\ Spec
  /\ WF_vars(Schedule)
  /\ \A w \in Works : WF_vars(Start(w))
  /\ WF_vars(ReportScan) /\ WF_vars(ClearScan)
  /\ WF_vars(ConnectRoutine) /\ WF_vars(DisconnectRoutine)

-----------------------------------------------------------------------------
(* NothingLeftBehind: a load that fails half way gives back everything it *)
(* got, and one that succeeds has all of it; unloading leaves no work item *)
(* pending or running in the freed context, unless an operation overlapped *)
(* with it and scheduled one again after it was cancelled.                 *)
NothingLeftBehind ==
  /\ phase = "failed" => res = {}
  /\ phase = "ready" => res = {Steps[i] : i \in 1..Len(Steps)}
  /\ phase = "gone" => res = {} /\ (late \/ pend \cup run = {})

(* ScanReportedOnce: cfg80211_scan_done is never called without a request, *)
(* twice for one, or for one that nvf_scan refused, although cfg80211 may  *)
(* hand in the next request between scan_done and the clearing of the old  *)
(* one.                                                                    *)
ScanReportedOnce ==
  /\ done[0] = 0
  /\ \A r \in 1..MaxScan : done[r] <= 1
  /\ \A r \in 1..MaxScan : done[r] = 1 => r \in accepted

(* ConnectsAnswered: each nvf_connect that returned 0 has got one result,  *)
(* or its work item is pending or running; and no success is reported that *)
(* nobody asked for: each is due to a call of its own that named the       *)
(* dummy, although overlapping calls overwrite each other's SSID.          *)
Outstanding == Cardinality({"connect"} \cap pend) + Cardinality({"connect"} \cap run)

ConnectsAnswered ==
  /\ ~Exiting => connects = answers.ok + answers.timeout + Outstanding
  /\ answers.ok <= dummies

(* EveryScanCompletes: each accepted scan is reported, unless the module   *)
(* is unloaded.                                                            *)
EveryScanCompletes ==
  \A r \in 1..MaxScan : (r \in accepted) ~> (done[r] = 1 \/ Exiting)
=============================================================================
