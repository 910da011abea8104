---------------------------- MODULE ParkedPower ----------------------------
(***************************************************************************)
(* Parked power: ss_app (or setup, for the probe after a wake) decides that *)
(* the vehicle is parked (src/core/parked_power.cpp) and puts the device    *)
(* into deep sleep once the CAN task and the TWAI alert task have stopped   *)
(* (enterParkedSleep and handleParkedCanQuiesce, src/main.cpp). The CAN     *)
(* task on the other core publishes the ignition as frames arrive. A loop   *)
(* of either task reads the clock once, at its beginning, and ages are      *)
(* differences of unsigned 32-bit milliseconds.                             *)
(*                                                                          *)
(* Inputs: whether host or application is busy, a maintenance client, the   *)
(* level of the receive line. Left out: the one-second period of the check, *)
(* which only makes decisions rarer, and what the wake reports.             *)
(***************************************************************************)
EXTENDS Integers

CONSTANTS
    ClockSpan,         \* 2^32
    SleepDelay, BootProbe, PowerOnGrace,  \* the policy's times
    CanQuiet,          \* kParkedCanQuietMs
    QuiesceTimeout,    \* kParkedCanQuiesceTimeoutMs
    HandshakeTimeout,  \* kParkedCanHandshakeTimeoutMs
    MaxTime            \* bound: how long the behaviour lasts

ASSUME ParkedAssumption ==
    /\ {SleepDelay, BootProbe, PowerOnGrace, CanQuiet, QuiesceTimeout, HandshakeTimeout, MaxTime}
         \subseteq Nat
    /\ ClockSpan \in Nat /\ ClockSpan > MaxTime /\ MaxTime > 0

VARIABLES
    now,            \* millis()
    policyActive,   \* active()
    poweredOn,      \* the wake cause is power-on or reset
    enteringSleep,  \* entering_sleep_
    ignition,       \* ignition_raw_on_ and last_ignition_on_ms_
    lastAwake,      \* last_awake_ms_
    writesAllowed,  \* whether active CAN writes are allowed
    flags,          \* the handshake's four flags
    alertTask,      \* the TWAI alert task
    canTask,        \* the CAN task
    app             \* ss_app, or setup during the probe

parkedVars == <<now, policyActive, poweredOn, enteringSleep, ignition, lastAwake, writesAllowed,
                flags, alertTask, canTask, app>>

Boot == 1
NoIgnition == [on |-> FALSE, lastOn |-> 0]
AppIdle == [at |-> "idle", now |-> 0, on |-> FALSE, onAt |-> 0, startedAt |-> 0, restore |-> FALSE]
Lowered == [requested |-> FALSE, quiesced |-> FALSE, failed |-> FALSE, alertStop |-> FALSE]
Age(at, stamp) == (at - stamp) % ClockSpan
RecentlyOn(at) == ignition.on /\ ignition.lastOn # 0 /\ Age(at, ignition.lastOn) <= SleepDelay
InGrace(at) == poweredOn /\ Age(at, Boot) < PowerOnGrace

TimePasses ==
    /\ now < MaxTime
    /\ app.at \notin {"sleep", "restart"}
    /\ now' = now + 1
    /\ UNCHANGED <<policyActive, poweredOn, enteringSleep, ignition, lastAwake, writesAllowed, flags,
                   alertTask, canTask, app>>
-----------------------------------------------------------------------------
(* The CAN task's loop, and the alert task *)

CanAt(place) ==
    /\ canTask.at = place
    /\ app.at \notin {"sleep", "restart"}
    /\ UNCHANGED <<now, policyActive, poweredOn, enteringSleep, writesAllowed, alertTask, app>>

BeginCanLoop ==
    /\ CanAt("begin")
    /\ canTask' = [canTask EXCEPT !.at = "poll", !.now = now]
    /\ UNCHANGED <<ignition, lastAwake, flags>>

\* A frame, or none; on the primary side it may tell the ignition.
PollIngress ==
    /\ CanAt("poll")
    /\ UNCHANGED flags
    /\ \/ /\ canTask' = [canTask EXCEPT !.at = "quiesce"]
          /\ UNCHANGED <<ignition, lastAwake>>
       \/ /\ canTask' = [canTask EXCEPT !.at = "quiesce", !.lastIngress = now, !.unsent = TRUE]
          /\ \/ UNCHANGED <<ignition, lastAwake>>
             \/ ignition' = [on |-> TRUE, lastOn |-> now] /\ lastAwake' = now
             \/ ignition' = [ignition EXCEPT !.on = FALSE] /\ UNCHANGED lastAwake

\* What the gateway and the mailboxes hold leaves at some time.
Forwarded ==
    /\ canTask.unsent
    /\ app.at \notin {"sleep", "restart"}
    /\ canTask' = [canTask EXCEPT !.unsent = FALSE]
    /\ UNCHANGED <<now, policyActive, poweredOn, enteringSleep, ignition, lastAwake, writesAllowed,
                   flags, alertTask, app>>

Quiet ==
    /\ canTask.lastIngress = 0 \/ Age(canTask.now, canTask.lastIngress) >= CanQuiet
    /\ ~canTask.unsent

\* The loop ends; its clock is read anew in the next.
LoopsTo(phase, since) ==
    canTask' = [canTask EXCEPT !.at = "begin", !.now = 0, !.phase = phase,
                               !.requestedAt = IF phase = "quiet" THEN since ELSE 0]

NoQuiesce ==
    /\ CanAt("quiesce") /\ ~flags.requested
    /\ LoopsTo("idle", 0)
    /\ UNCHANGED <<ignition, lastAwake, flags>>

\* The first phase, which a request enters at once, ends when CAN is quiet or
\* by its timeout.
WaitForQuiet ==
    /\ CanAt("quiesce") /\ flags.requested
    /\ canTask.phase # "alert task"
    /\ LET since == IF canTask.phase = "idle" THEN canTask.now ELSE canTask.requestedAt
           late == Age(canTask.now, since) >= QuiesceTimeout
       IN  /\ flags' = CASE Quiet -> [flags EXCEPT !.alertStop = TRUE]
                         [] ~Quiet /\ late -> [flags EXCEPT !.requested = FALSE, !.failed = TRUE]
                         [] OTHER -> flags
           /\ LoopsTo(CASE Quiet -> "alert task" [] ~Quiet /\ late -> "idle" [] OTHER -> "quiet", since)
    /\ UNCHANGED <<ignition, lastAwake>>

\* Mutation: the quiet of the first phase is relied upon.
StopCan_NoRecheck ==
    /\ CanAt("quiesce") /\ flags.requested
    /\ canTask.phase = "alert task"
    /\ IF alertTask = "stopped"
       THEN /\ flags' = [flags EXCEPT !.quiesced = TRUE]
            /\ canTask' = [canTask EXCEPT !.at = "suspended"]
       ELSE LoopsTo("alert task", 0) /\ UNCHANGED flags
    /\ UNCHANGED <<ignition, lastAwake>>

\* The second has none: unless the alert task has stopped and CAN is still quiet,
\* the task polls on.
StopCan ==
    /\ CanAt("quiesce") /\ flags.requested
    /\ canTask.phase = "alert task"
    /\ IF alertTask = "stopped" /\ Quiet
       THEN /\ flags' = [flags EXCEPT !.quiesced = TRUE]
            /\ canTask' = [canTask EXCEPT !.at = "suspended"]
       ELSE LoopsTo("alert task", 0) /\ UNCHANGED flags
    /\ UNCHANGED <<ignition, lastAwake>>

StopAlertTask ==
    /\ alertTask = "running" /\ flags.alertStop
    /\ app.at \notin {"sleep", "restart"}
    /\ alertTask' = "stopped"
    /\ UNCHANGED <<now, policyActive, poweredOn, enteringSleep, ignition, lastAwake, writesAllowed,
                   flags, canTask, app>>

CanSide ==
    \/ BeginCanLoop \/ PollIngress \/ Forwarded \/ NoQuiesce \/ WaitForQuiet \/ StopCan
    \/ StopAlertTask
-----------------------------------------------------------------------------
(* The decision *)

AppAt(place) == app.at = place /\ UNCHANGED <<now, poweredOn, alertTask, canTask>>
AppTo(place) == app' = [app EXCEPT !.at = place]
AppRests == app' = [AppIdle EXCEPT !.restore = app.restore]
\* `on' and `onAt': what the ignition really was when sleep was decided.
Decides == app' = [app EXCEPT !.at = "enter", !.on = RecentlyOn(now), !.onAt = ignition.lastOn]

\* performParkedPowerBootProbe: not started unless both buses are online; it
\* looks for the ignition until its time is over.
BootProbeEnds ==
    /\ AppAt("probe")
    /\ UNCHANGED <<policyActive, enteringSleep, ignition, lastAwake, writesAllowed, flags>>
    /\ Age(now, Boot) >= BootProbe \/ RecentlyOn(now)
    /\ IF RecentlyOn(now) \/ InGrace(now) THEN AppRests
       ELSE AppTo("enter")

BootProbeSkipped ==
    /\ AppAt("probe")
    /\ lastAwake' = now
    /\ AppRests
    /\ UNCHANGED <<policyActive, enteringSleep, ignition, writesAllowed, flags>>

\* setup allows active writes before it starts the tasks of core 0.
FinishSetup ==
    /\ AppAt("idle") /\ ~writesAllowed
    /\ writesAllowed' = TRUE
    /\ app' = [app EXCEPT !.restore = TRUE]
    /\ UNCHANGED <<policyActive, enteringSleep, ignition, lastAwake, flags>>

BeginAppLoop ==
    /\ AppAt("idle") /\ writesAllowed
    /\ app' = [app EXCEPT !.at = "loop", !.now = now]
    /\ UNCHANGED <<policyActive, enteringSleep, ignition, lastAwake, writesAllowed, flags>>

\* The application's tick may turn the policy on or off.
UpdatePolicy ==
    /\ AppAt("loop")
    /\ policyActive' = ~policyActive
    /\ lastAwake' = now
    /\ ignition' = NoIgnition
    /\ enteringSleep' = (enteringSleep /\ ~policyActive)
    /\ UNCHANGED <<writesAllowed, flags, app>>

\* tick with the loop's clock.
Tick(busy) ==
    /\ AppAt("loop")
    /\ IF enteringSleep \/ ~policyActive \/ InGrace(app.now) \/ busy \/ RecentlyOn(app.now)
          \/ Age(app.now, lastAwake) < SleepDelay
       THEN AppRests ELSE Decides
    /\ lastAwake' = IF ~enteringSleep /\ (~policyActive \/ (~InGrace(app.now) /\ busy))
                    THEN app.now ELSE lastAwake
    /\ UNCHANGED <<policyActive, enteringSleep, ignition, writesAllowed, flags>>
-----------------------------------------------------------------------------
(* enterParkedSleep *)

\* deferSleep
Defers == lastAwake' = now /\ enteringSleep' = FALSE

\* A maintenance client, or the receive line dominant: not now.
DeferAtOnce ==
    /\ AppAt("enter")
    /\ Defers /\ AppRests
    /\ UNCHANGED <<policyActive, ignition, writesAllowed, flags>>

BeginSleep ==
    /\ AppAt("enter")
    /\ ~enteringSleep
    /\ enteringSleep' = TRUE
    /\ app' = [AppIdle EXCEPT !.at = "arm", !.restore = writesAllowed]
    /\ writesAllowed' = FALSE
    /\ UNCHANGED <<policyActive, ignition, lastAwake, flags>>

ArmHandshake ==
    /\ app.at = "arm"
    /\ flags' = [Lowered EXCEPT !.requested = TRUE]
    /\ alertTask' = "running"
    /\ app' = [app EXCEPT !.at = "handshake", !.startedAt = now]
    /\ UNCHANGED <<now, policyActive, poweredOn, enteringSleep, ignition, lastAwake, writesAllowed, canTask>>

EndHandshake ==
    /\ AppAt("handshake")
    /\ flags.quiesced \/ flags.failed \/ Age(now, app.startedAt) >= HandshakeTimeout
    /\ AppTo("check failed")
    /\ UNCHANGED <<policyActive, enteringSleep, ignition, lastAwake, writesAllowed, flags>>

DeferAfterHandshake ==
    /\ AppAt("check failed") /\ flags.failed
    /\ Defers
    /\ writesAllowed' = app.restore
    /\ AppRests
    /\ UNCHANGED <<policyActive, ignition, flags>>

CheckFailed ==
    /\ AppAt("check failed") /\ ~flags.failed
    /\ AppTo("check quiesced")
    /\ UNCHANGED <<policyActive, enteringSleep, ignition, lastAwake, writesAllowed, flags>>

\* Deep sleep; without the handshake, or without a wake source, a restart.
CheckQuiesced ==
    /\ AppAt("check quiesced")
    /\ AppTo("restart") \/ (flags.quiesced /\ AppTo("sleep"))
    /\ UNCHANGED <<policyActive, enteringSleep, ignition, lastAwake, writesAllowed, flags>>

AppSide ==
    \/ BootProbeEnds \/ BootProbeSkipped \/ FinishSetup \/ BeginAppLoop \/ UpdatePolicy
    \/ (\E busy \in BOOLEAN : Tick(busy))
    \/ DeferAtOnce \/ BeginSleep \/ ArmHandshake \/ EndHandshake \/ DeferAfterHandshake
    \/ CheckFailed \/ CheckQuiesced
-----------------------------------------------------------------------------
ParkedInit ==
    /\ now = Boot
    /\ policyActive = TRUE /\ poweredOn \in BOOLEAN /\ enteringSleep = FALSE
    /\ ignition = NoIgnition /\ lastAwake = Boot
    /\ writesAllowed = FALSE
    /\ flags = Lowered /\ alertTask = "running"
    /\ canTask = [at |-> "begin", now |-> 0, lastIngress |-> 0, unsent |-> FALSE,
                  phase |-> "idle", requestedAt |-> 0]
    /\ app = [AppIdle EXCEPT !.at = "probe"]

ParkedNext == TimePasses \/ CanSide \/ AppSide

ParkedSpec == ParkedInit /\ [][ParkedNext]_parkedVars
-----------------------------------------------------------------------------
Time == 0..MaxTime

ParkedTypeOK ==
    /\ now \in Time /\ lastAwake \in Time
    /\ {policyActive, poweredOn, enteringSleep, writesAllowed} \subseteq BOOLEAN
    /\ ignition \in [on: BOOLEAN, lastOn: Time]
    /\ flags \in [requested: BOOLEAN, quiesced: BOOLEAN, failed: BOOLEAN, alertStop: BOOLEAN]
    /\ alertTask \in {"running", "stopped"}
    /\ canTask \in [at: {"begin", "poll", "quiesce", "suspended"}, now: Time, lastIngress: Time,
                    unsent: BOOLEAN, phase: {"idle", "quiet", "alert task"}, requestedAt: Time]
    /\ app \in [at: {"probe", "idle", "loop", "enter", "arm", "handshake", "check failed",
                     "check quiesced", "sleep", "restart"},
                now: Time, on: BOOLEAN, onAt: Time, startedAt: Time, restore: BOOLEAN]

\* main.cpp:1839-1867: the device sleeps only with both CAN tasks stopped and
\* nothing left to send; and the CAN task stops for good only while ss_app is
\* waiting for it, so a sleep that is deferred leaves CAN running as before.
StopsTogether ==
    /\ app.at = "sleep" => canTask.at = "suspended" /\ alertTask = "stopped" /\ ~canTask.unsent
    /\ canTask.at = "suspended" =>
         app.at \in {"handshake", "check failed", "check quiesced", "sleep", "restart"}
    /\ app.at \in {"idle", "loop", "enter"} =>
         ~enteringSleep /\ ~flags.requested /\ writesAllowed = app.restore /\ alertTask = "running"

\* parked_power.cpp:141: the decision to sleep is not taken while the ignition was
\* on within the delay.
IgnitionKeepsAwake == app.at = "enter" => ~app.on

\* It can be taken, but only when the ignition was seen after the loop had read
\* its clock, which makes its age wrap; and CAN counts as quiet within the time
\* of a frame only when that frame came after the CAN loop had read its clock.
AwakeUnlessYounger ==
    /\ app.at = "enter" /\ app.on => app.onAt > app.now
    /\ canTask.at = "suspended" =>
         \/ canTask.lastIngress = 0
         \/ canTask.now - canTask.lastIngress >= CanQuiet
         \/ canTask.lastIngress > canTask.now

ParkedSafe == StopsTogether /\ AwakeUnlessYounger
=============================================================================
