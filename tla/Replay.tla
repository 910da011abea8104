------------------------------- MODULE Replay -------------------------------
(***************************************************************************)
(* The replay engine (src/core/replay_engine.cpp): the web task loads,      *)
(* starts and stops a log under the replay lock; the CAN task, which reads  *)
(* the microsecond clock once a loop, dispatches what is due if it finds    *)
(* that lock free. Times are unsigned and wrap; `replayTime' is the time    *)
(* that does not.                                                           *)
(*                                                                          *)
(* A log is the delays of its frames, each after the frame before it, the   *)
(* first being 0: what loadLogCsv leaves of a text, also of one it rejects  *)
(* in part. What the gateway does with a dispatched frame is in Gateway;    *)
(* here it accepts or refuses. Counting the loops is left out.              *)
(***************************************************************************)
EXTENDS Integers, Sequences

CONSTANTS
    ReplaySpan,       \* how many values micros() has (2^32)
    Delay,            \* delays between frames, and of a start
    MaxReplayFrames,  \* kMaxReplayFrames
    MaxFramesPerTick, \* kMaxFramesPerTick
    MaxReplayTime,    \* bound: how long the behaviour lasts
    MaxSent           \* bound: frames dispatched after a start

ASSUME ReplayAssumption ==
    /\ ReplaySpan \in Nat \ {0} /\ Delay \subseteq 0..ReplaySpan - 1 /\ 0 \in Delay
    /\ MaxReplayFrames \in Nat \ {0} /\ MaxFramesPerTick \in Nat \ {0}
    /\ MaxReplayTime \in Nat /\ MaxSent \in Nat

VARIABLES
    replayTime, replayLock,
    engine,      \* the members of ReplayEngine
    replayTick,  \* the CAN task's loop
    start,       \* ghost: the time of the last start, and the delay it asked for
    sent         \* ghost: the frames dispatched since the last start

replayVars == <<replayTime, replayLock, engine, replayTick, start, sent>>

Log == {l \in UNION {[1..n -> Delay] : n \in 0..MaxReplayFrames} : l = <<>> \/ l[1] = 0}
LoopMode == {"PLAY_ONCE", "LOOP_RAW"}
BeforeTick == [at |-> "begin", now |-> 0, dispatched |-> 0]
MicrosAt(time) == time % ReplaySpan

ReplayTimePasses ==
    /\ replayTime < MaxReplayTime
    /\ replayTime' = replayTime + 1
    /\ UNCHANGED <<replayLock, engine, replayTick, start, sent>>
-----------------------------------------------------------------------------
(* The handlers on core 0 *)

TakeReplayLock ==
    /\ replayLock = "none" /\ replayLock' = "ss_ui"
    /\ UNCHANGED <<replayTime, engine, replayTick, start, sent>>

Handler == replayLock = "ss_ui" /\ replayLock' = "none" /\ UNCHANGED <<replayTime, replayTick>>

\* handleReplayLoad: stop, then loadLogCsv.
LoadReplay(log) ==
    /\ Handler
    /\ engine' = [engine EXCEPT !.log = log, !.cursor = 1, !.playing = FALSE]
    /\ sent' = <<>> /\ UNCHANGED start

\* start
Plays(log, mode, delay) ==
    /\ log # <<>>
    /\ engine' = [log |-> log, cursor |-> 1, playing |-> TRUE, loop |-> mode,
                  due |-> MicrosAt(replayTime + delay)]
    /\ start' = [at |-> replayTime, delay |-> delay]
    /\ sent' = <<>>

\* handleReplayControl
StartReplay(mode, delay) == Handler /\ Plays(engine.log, mode, delay)

\* handleReplaySend: load, and start unless asked not to.
SendReplay(log, delay) == Handler /\ Plays(log, "PLAY_ONCE", delay)

\* By the operator, before parked sleep, and after the DBC was changed.
StopReplay ==
    /\ Handler
    /\ engine' = [engine EXCEPT !.playing = FALSE]
    /\ UNCHANGED <<start, sent>>

Handling ==
    \/ TakeReplayLock \/ StopReplay
    \/ \E log \in Log : LoadReplay(log)
    \/ \E mode \in LoopMode, delay \in Delay : StartReplay(mode, delay)
    \/ \E log \in Log, delay \in Delay : SendReplay(log, delay)
-----------------------------------------------------------------------------
(* The CAN task *)

ReplayAt(place) == replayTick.at = place /\ UNCHANGED <<replayTime, start>>

BeginReplayLoop ==
    /\ ReplayAt("begin")
    /\ replayTick' = [at |-> "try", now |-> replayTime, dispatched |-> 0]
    /\ UNCHANGED <<replayLock, engine, sent>>

\* While a handler has the lock there is no tick.
TryReplayLock ==
    /\ ReplayAt("try")
    /\ IF replayLock = "none"
       THEN replayLock' = "ss_can" /\ replayTick' = [replayTick EXCEPT !.at = "tick"]
       ELSE replayTick' = BeforeTick /\ UNCHANGED replayLock
    /\ UNCHANGED <<engine, sent>>

FrameDue ==
    /\ engine.playing
    /\ MicrosAt(replayTick.now) >= engine.due
    /\ replayTick.dispatched < MaxFramesPerTick
EndsTick == replayLock' = "none" /\ replayTick' = BeforeTick
GoesOn == replayTick' = [replayTick EXCEPT !.dispatched = @ + 1] /\ UNCHANGED replayLock
Dispatched == sent' = Append(sent, [frame |-> engine.cursor, at |-> replayTick.now])

\* The last frame of a log played once ends the tick.
DispatchLast ==
    /\ ReplayAt("tick")
    /\ FrameDue /\ Len(sent) < MaxSent
    /\ engine.cursor = Len(engine.log) /\ engine.loop = "PLAY_ONCE"
    /\ Dispatched
    /\ engine' = [engine EXCEPT !.playing = FALSE]
    /\ EndsTick

\* Mutation: a refused frame is offered again in the next tick.
DispatchNext_Retries(accepted) ==
    /\ ReplayAt("tick")
    /\ FrameDue /\ Len(sent) < MaxSent
    /\ engine.cursor < Len(engine.log) \/ engine.loop # "PLAY_ONCE"
    /\ Dispatched
    /\ LET next == IF engine.cursor < Len(engine.log) THEN engine.cursor + 1 ELSE 1
       IN  engine' = [engine EXCEPT !.cursor = IF accepted THEN next ELSE @,
                                    !.due = MicrosAt(replayTick.now + engine.log[next])]
    /\ IF accepted THEN GoesOn ELSE EndsTick

\* Any other schedules the one after it; a refused frame is consumed all the same.
DispatchNext(accepted) ==
    /\ ReplayAt("tick")
    /\ FrameDue /\ Len(sent) < MaxSent
    /\ engine.cursor < Len(engine.log) \/ engine.loop # "PLAY_ONCE"
    /\ Dispatched
    /\ LET next == IF engine.cursor < Len(engine.log) THEN engine.cursor + 1 ELSE 1
       IN  engine' = [engine EXCEPT !.cursor = next,
                                    !.due = MicrosAt(replayTick.now + engine.log[next])]
    /\ IF accepted THEN GoesOn ELSE EndsTick

NothingDue ==
    /\ ReplayAt("tick")
    /\ ~FrameDue
    /\ EndsTick
    /\ UNCHANGED <<engine, sent>>

Replaying ==
    \/ BeginReplayLoop \/ TryReplayLock \/ DispatchLast \/ NothingDue
    \/ \E accepted \in BOOLEAN : DispatchNext(accepted)
-----------------------------------------------------------------------------
ReplayInit ==
    /\ replayTime = 0 /\ start = [at |-> 0, delay |-> 0] /\ replayLock = "none"
    /\ engine = [log |-> <<>>, cursor |-> 1, playing |-> FALSE, loop |-> "PLAY_ONCE", due |-> 0]
    /\ replayTick = BeforeTick
    /\ sent = <<>>

ReplayNext == ReplayTimePasses \/ Handling \/ Replaying

ReplaySpec == ReplayInit /\ [][ReplayNext]_replayVars
-----------------------------------------------------------------------------
ReplayTypeOK ==
    /\ replayTime \in 0..MaxReplayTime /\ start \in [at: 0..MaxReplayTime, delay: Delay]
    /\ replayLock \in {"none", "ss_ui", "ss_can"}
    /\ engine \in [log: Log, cursor: 1..MaxReplayFrames, playing: BOOLEAN, loop: LoopMode,
                   due: 0..ReplaySpan - 1]
    /\ replayTick \in [at: {"begin", "try", "tick"}, now: 0..MaxReplayTime,
                       dispatched: 0..MaxFramesPerTick]
    /\ sent \in Seq([frame: 1..MaxReplayFrames, at: 0..MaxReplayTime])
    /\ Len(sent) <= MaxSent

\* `from + delay' and `at' lie between the same two wraps of the clock.
Wraps(from, delay, at) ==
    \/ MicrosAt(from) + delay >= ReplaySpan
    \/ from \div ReplaySpan # at \div ReplaySpan

\* replay_engine.cpp:130-160: what was sent since the start is the log from its
\* first frame on, a refused frame being neither repeated nor skipped over; and
\* a frame is not sent before its delay after the one before it has passed, nor
\* the first before the start, as long as the clock does not wrap in between.
ReplayPaced ==
    \A i \in DOMAIN sent :
        /\ sent[i].frame = ((i - 1) % Len(engine.log)) + 1
        /\ LET from == IF i = 1 THEN start.at ELSE sent[i - 1].at
               delay == IF i = 1 THEN start.delay ELSE engine.log[sent[i].frame]
           IN  sent[i].at >= from + delay \/ Wraps(from, delay, sent[i].at)
=============================================================================
