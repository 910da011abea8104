----------------------------- MODULE CanTrace -----------------------------
(***************************************************************************)
(* The trace queue (src/core/can_trace.cpp) between the CAN task, its one   *)
(* producer, and the session recorder, its one consumer, which empties it   *)
(* into the capture at each tick (src/fs/session_log.cpp). The two run on   *)
(* different cores: a step is one access to a shared word or to a slot. The *)
(* recorder's own lock keeps start, stop, annotations and ticks apart.      *)
(***************************************************************************)
EXTENDS Integers, Sequences

CONSTANTS
    Capacity,     \* slots of the ring
    Span,         \* how many values an index has (2^32)
    MaxRecords,   \* records the capture has room for
    MaxDrain,     \* kMaximumDrainPerTick
    MaxFrames,    \* bound: events offered
    MaxCaptures   \* bound: captures started

\* 2^32 is a multiple of the capacity that init() is called with; were it not,
\* the slot of an index would jump where the index wraps.
ASSUME TraceAssumption ==
    /\ Capacity \in Nat \ {0, 1} /\ MaxDrain \in Nat \ {0}
    /\ MaxRecords \in Nat /\ MaxFrames \in Nat /\ MaxCaptures \in Nat
    /\ Span \in Nat /\ Span > Capacity /\ Span % Capacity = 0

VARIABLES
    ring, write, read, nextSequence, dropped, active, inflight,
    push,      \* where the producer is, and the event it has in hand
    rec,       \* the recorder: state, place in its tick, counters
    capture,   \* the frame records of the capture, oldest first
    frames, captures

queueVars == <<ring, write, read, nextSequence, dropped, active, inflight>>
traceVars == <<queueVars, push, rec, capture, frames, captures>>

\* `of' is the capture that was running when the event was offered, `lost' the
\* drops counted before it: neither is in the code.
Event == [of: 1..MaxCaptures, seq: 0..MaxFrames, lost: 0..MaxFrames]
NoEvent == [of |-> 0, seq |-> 0, lost |-> 0]

Places == {"idle", "offered", "counted", "sequence", "look", "drop", "store",
           "publish", "leave"}
TickPlaces == {"none", "quiesce", "idleCheck", "reset", "open", "pop", "copy",
               "advance", "account", "stop", "pending", "finish"}

Wrap(n) == n % Span
Pending == Wrap(write - read)
Used == Len(capture) + rec.notes
-----------------------------------------------------------------------------
(* The producer: pushIngress, pushPrepared or pushTransmit, then push *)

ProducerAt(place) == push.at = place /\ UNCHANGED <<rec, capture, captures>>
MovesTo(place) == push' = [push EXCEPT !.at = place]

\* An event of the selected scope, seen while a capture is running.
Offer ==
    /\ ProducerAt("idle")
    /\ active /\ frames < MaxFrames
    /\ frames' = frames + 1
    /\ push' = [at |-> "offered", event |-> [NoEvent EXCEPT !.of = captures]]
    /\ UNCHANGED queueVars

Enter ==
    /\ ProducerAt("offered")
    /\ inflight' = inflight + 1
    /\ MovesTo("counted")
    /\ UNCHANGED <<ring, write, read, nextSequence, dropped, active, frames>>

CheckActive ==
    /\ ProducerAt("counted")
    /\ MovesTo(IF active THEN "sequence" ELSE "leave")
    /\ UNCHANGED <<queueVars, frames>>

\* Mutation: an event that finds the ring full has not yet had a number.
TakeSequence_IfRoom ==
    /\ ProducerAt("sequence")
    /\ nextSequence' = IF Pending >= Capacity THEN nextSequence ELSE nextSequence + 1
    /\ push' = [push EXCEPT !.at = "look", !.event.seq = nextSequence + 1, !.event.lost = dropped]
    /\ UNCHANGED <<ring, write, read, dropped, active, inflight, frames>>

\* Before the capacity check, so that an overflow shows as a gap.
TakeSequence ==
    /\ ProducerAt("sequence")
    /\ nextSequence' = nextSequence + 1
    /\ push' = [push EXCEPT !.at = "look", !.event.seq = nextSequence + 1, !.event.lost = dropped]
    /\ UNCHANGED <<ring, write, read, dropped, active, inflight, frames>>

Full == Pending >= Capacity
\* Mutation: full one event too late.
Look_OffByOne ==
    /\ ProducerAt("look")
    /\ MovesTo(IF Pending > Capacity THEN "drop" ELSE "store")
    /\ UNCHANGED <<queueVars, frames>>

Look ==
    /\ ProducerAt("look")
    /\ MovesTo(IF Full THEN "drop" ELSE "store")
    /\ UNCHANGED <<queueVars, frames>>

Drop ==
    /\ ProducerAt("drop")
    /\ dropped' = dropped + 1
    /\ MovesTo("leave")
    /\ UNCHANGED <<ring, write, read, nextSequence, active, inflight, frames>>

StoreEvent ==
    /\ ProducerAt("store")
    /\ ring' = [ring EXCEPT ![write % Capacity] = push.event]
    /\ MovesTo("publish")
    /\ UNCHANGED <<write, read, nextSequence, dropped, active, inflight, frames>>

Publish ==
    /\ ProducerAt("publish")
    /\ write' = Wrap(write + 1)
    /\ MovesTo("leave")
    /\ UNCHANGED <<ring, read, nextSequence, dropped, active, inflight, frames>>

Leave ==
    /\ ProducerAt("leave")
    /\ inflight' = inflight - 1
    /\ push' = [at |-> "idle", event |-> NoEvent]
    /\ UNCHANGED <<ring, write, read, nextSequence, dropped, active, frames>>

Producer ==
    \/ Offer \/ Enter \/ CheckActive \/ TakeSequence \/ Look
    \/ Drop \/ StoreEvent \/ Publish \/ Leave
-----------------------------------------------------------------------------
(* Starting and stopping a capture *)

RecorderAt(place) == rec.at = place /\ UNCHANGED <<push, frames>>
Between(state) == RecorderAt("none") /\ rec.state = state
Resumes(place) == rec' = [rec EXCEPT !.at = place]

StartCapture ==
    /\ Between("idle")
    /\ captures < MaxCaptures
    /\ active' = FALSE
    /\ Resumes("idleCheck")
    /\ UNCHANGED <<ring, write, read, nextSequence, dropped, inflight, capture, captures>>

\* The start is refused while a push is under way.
StartIdle ==
    /\ RecorderAt("idleCheck")
    /\ Resumes(IF inflight = 0 THEN "reset" ELSE "none")
    /\ UNCHANGED <<queueVars, capture, captures>>

StartReset ==
    /\ RecorderAt("reset")
    /\ read' = write /\ nextSequence' = 0 /\ dropped' = 0
    /\ capture' = <<>> /\ captures' = captures + 1
    /\ rec' = [state |-> "idle", at |-> "open", drained |-> 0, notes |-> 0,
               queueDrops |-> 0, recordDrops |-> 0]
    /\ UNCHANGED <<ring, write, active, inflight>>

StartOpen ==
    /\ RecorderAt("open")
    /\ active' = TRUE
    /\ rec' = [rec EXCEPT !.at = "none", !.state = "recording"]
    /\ UNCHANGED <<ring, write, read, nextSequence, dropped, inflight, capture, captures>>

RequestStop ==
    /\ Between("recording")
    /\ active' = FALSE
    /\ rec' = [rec EXCEPT !.state = "stopping"]
    /\ UNCHANGED <<ring, write, read, nextSequence, dropped, inflight, capture, captures>>

\* appendAnnotation: a guest of at most a quarter of the capture.
Annotate ==
    /\ Between("recording") \/ Between("stopping")
    /\ 4 * (rec.notes + 1) <= MaxRecords /\ Used < MaxRecords
    /\ rec' = [rec EXCEPT !.notes = @ + 1]
    /\ UNCHANGED <<queueVars, capture, captures>>
-----------------------------------------------------------------------------
(* tick *)

BeginTick ==
    /\ Between("recording") \/ Between("stopping")
    /\ rec' = [rec EXCEPT !.at = "pop", !.drained = 0]
    /\ UNCHANGED <<queueVars, capture, captures>>

\* pop: the queue is empty or the tick has done its share; or an event is there.
\* A capture that is full discards without limit.
Discarding == rec.drained > MaxDrain
Pop ==
    /\ RecorderAt("pop")
    /\ Resumes(IF read = write \/ rec.drained = MaxDrain THEN "account" ELSE "copy")
    /\ UNCHANGED <<queueVars, capture, captures>>

\* Mutation: what is discarded after the first is not counted.
Copy_CountsFirst ==
    /\ RecorderAt("copy")
    /\ UNCHANGED <<queueVars, captures>>
    /\ \/ /\ ~Discarding /\ Used < MaxRecords
          /\ capture' = Append(capture, ring[read % Capacity])
          /\ rec' = [rec EXCEPT !.at = "advance", !.drained = @ + 1]
       \/ /\ Discarding \/ Used >= MaxRecords
          /\ rec' = [rec EXCEPT !.at = "advance", !.drained = MaxDrain + 1, !.recordDrops = 1]
          /\ UNCHANGED capture

\* The event out of its slot, which is appended or, once one did not fit, counted.
Copy ==
    /\ RecorderAt("copy")
    /\ UNCHANGED <<queueVars, captures>>
    /\ \/ /\ ~Discarding /\ Used < MaxRecords
          /\ capture' = Append(capture, ring[read % Capacity])
          /\ rec' = [rec EXCEPT !.at = "advance", !.drained = @ + 1]
       \/ /\ Discarding \/ Used >= MaxRecords
          /\ rec' = [rec EXCEPT !.at = "advance", !.drained = MaxDrain + 1, !.recordDrops = @ + 1]
          /\ UNCHANGED capture

\* The slot is free again. The first event that did not fit stops the capture.
Advance ==
    /\ RecorderAt("advance")
    /\ read' = Wrap(read + 1)
    /\ Resumes(IF Discarding /\ rec.state = "recording" THEN "stop" ELSE "pop")
    /\ UNCHANGED <<ring, write, nextSequence, dropped, active, inflight, capture, captures>>

\* The queue's drops are taken over, before a full capture is stopped.
Account ==
    /\ RecorderAt("account")
    /\ rec' = [rec EXCEPT !.queueDrops = dropped,
                          !.at = CASE rec.state = "stopping" -> "pending"
                                   [] rec.state # "stopping" /\ Used >= MaxRecords -> "stop"
                                   [] rec.state # "stopping" /\ Used < MaxRecords -> "none"]
    /\ UNCHANGED <<queueVars, capture, captures>>

\* beginStopping, in the loop over the queue or after it.
StopFull ==
    /\ RecorderAt("stop")
    /\ active' = FALSE
    /\ rec' = [rec EXCEPT !.state = "stopping", !.at = IF Discarding THEN "pop" ELSE "pending"]
    /\ UNCHANGED <<ring, write, read, nextSequence, dropped, inflight, capture, captures>>

CheckPending ==
    /\ RecorderAt("pending")
    /\ Resumes(IF Pending = 0 THEN "finish" ELSE "none")
    /\ UNCHANGED <<queueVars, capture, captures>>

\* finalizeMemory; the save that follows touches neither queue nor capture.
CheckIdle ==
    /\ RecorderAt("finish")
    /\ rec' = [rec EXCEPT !.at = "none", !.state = IF inflight = 0 THEN "idle" ELSE @]
    /\ UNCHANGED <<queueVars, capture, captures>>

Recorder ==
    \/ StartCapture \/ StartIdle \/ StartReset \/ StartOpen \/ RequestStop \/ Annotate
    \/ BeginTick \/ Pop \/ Copy \/ Advance \/ Account \/ StopFull
    \/ CheckPending \/ CheckIdle
-----------------------------------------------------------------------------
TraceInit ==
    /\ ring = [slot \in 0..Capacity - 1 |-> NoEvent]
    /\ write = 0 /\ read = 0 /\ nextSequence = 0 /\ dropped = 0
    /\ active = FALSE /\ inflight = 0
    /\ push = [at |-> "idle", event |-> NoEvent]
    /\ rec = [state |-> "idle", at |-> "none", drained |-> 0, notes |-> 0,
              queueDrops |-> 0, recordDrops |-> 0]
    /\ capture = <<>> /\ frames = 0 /\ captures = 0

TraceNext == Producer \/ Recorder

TraceSpec == TraceInit /\ [][TraceNext]_traceVars
-----------------------------------------------------------------------------
\* The two indices, each a counter of its own that wraps, are never further
\* apart than the ring has slots, whichever core is ahead in its copy of them;
\* and the producer's presence is counted exactly while it may touch the ring.
TraceTypeOK ==
    /\ ring \in [0..Capacity - 1 -> Event \cup {NoEvent}]
    /\ write \in 0..Span - 1 /\ read \in 0..Span - 1
    /\ Pending \in 0..Capacity
    /\ nextSequence \in 0..MaxFrames /\ dropped \in 0..MaxFrames
    /\ active \in BOOLEAN
    /\ inflight = (IF push.at \in {"idle", "offered"} THEN 0 ELSE 1)
    /\ push \in [at: Places, event: Event \cup {NoEvent}]
    /\ rec \in [state: {"idle", "recording", "stopping"}, at: TickPlaces,
                drained: 0..MaxDrain + 1, notes: 0..MaxRecords,
                queueDrops: 0..MaxFrames, recordDrops: 0..MaxFrames]
    /\ capture \in Seq(Event) /\ Used <= MaxRecords
    /\ frames \in 0..MaxFrames /\ captures \in 0..MaxCaptures

\* can_trace.cpp:139: an overflow is visible as a gap before the next recorded
\* event, in addition to the counter. The number of a recorded event is its
\* place in the capture and the drops counted before it: no event is recorded
\* twice, out of order, torn or under another's number.
GapsAreDrops ==
    \A i \in DOMAIN capture : capture[i].seq = i + capture[i].lost

\* session_log.cpp:779-781: every omitted event is accounted for. When a capture
\* has ended, each number handed out is a record, a queue drop, a record drop or
\* still in the queue. The tick that ends it looks at the drops, at the queue and
\* for a producer one after the other, so it may miss one drop and leave one event,
\* both only if it stopped the capture itself, full, after it looked at the drops.
\* Only the first record can be an event offered to the capture before.
Accounted ==
    rec.state = "idle" /\ rec.at = "none" /\ captures > 0 =>
        /\ nextSequence = Len(capture) + dropped + rec.recordDrops + Pending
        /\ dropped - rec.queueDrops \in {0, 1} /\ Pending \in {0, 1}
        /\ dropped > rec.queueDrops /\ Pending > 0 =>
             Used = MaxRecords /\ rec.recordDrops = 0
        /\ \A i \in DOMAIN capture : capture[i].of # captures => i = 1

\* What the recorder has is what was offered, or a counted omission.
TraceAccounted == GapsAreDrops /\ Accounted
=============================================================================
