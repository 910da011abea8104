------------------------------- MODULE Gateway -------------------------------
(***************************************************************************)
(* GatewayCore (core/gateway.cpp) and the part of the CAN task's loop       *)
(* (canRuntimeTask in main.cpp) that drives it.  The CAN task is the only   *)
(* owner of the queues, so its program is one process whose steps are the   *)
(* iterations of its loops; what is concurrent with it is the hardware (the *)
(* frames that arrive, the transmit mailboxes that are busy or free, buses  *)
(* that fail and recover) and core 0, which allows or forbids active writes.*)
(*                                                                         *)
(* A frame is its arrival number.  raw and egress are the two rings of a    *)
(* direction as the sequences of what they hold, oldest first.              *)
(***************************************************************************)
EXTENDS Naturals, Sequences

CONSTANTS
  RawCapacity,     \* kRxQueueSize - 1: the ring keeps one slot empty
  EgressCapacity,  \* kEgressQueueSize
  RawBudget,       \* kMaxRawFramesPerPoll
  EgressBudget,    \* kMaxEgressFramesPerPoll
  IngressBudget,   \* kMaxPollFramesPerBus
  MaxFrames,       \* bound of the model: frames the hardware delivers
  LiveDirections   \* directions whose bus is assumed to come back and accept

Direction == {"A_TO_B", "B_TO_A"}
Opposite(d) == IF d = "A_TO_B" THEN "B_TO_A" ELSE "A_TO_B"

ASSUME CapacityAssumption ==
  /\ RawCapacity \in Nat \ {0}
  /\ EgressCapacity \in Nat \ {0}
ASSUME BudgetAssumption ==
  /\ RawBudget \in Nat \ {0}
  /\ EgressBudget \in Nat \ {0}
  /\ IngressBudget \in Nat \ {0}
ASSUME ModelAssumption == MaxFrames \in Nat /\ LiveDirections \subseteq Direction

VARIABLES
  raw,            \* [Direction -> Seq(frame)]: raw_a_to_b_, raw_b_to_a_
  egress,         \* [Direction -> Seq(frame)]: egress_a_to_b_, egress_b_to_a_
  destReady,      \* [Direction -> BOOLEAN]: bus_b_ready, bus_a_ready
  writesAllowed,  \* active_can_writes_allowed_
  pc,             \* where the CAN task is in its loop
  turn,           \* next_egress_flush_direction_, next_raw_direction_, MCP-first ingress
  poll,           \* the locals of the loop the CAN task is in
  arrived,        \* history: frames accepted from the hardware
  prepared,       \* history: how often forwardFrame processed each frame
  sent,           \* history: physical frames the driver took, per direction
  lastSent,       \* history: the last physical frame it took, per direction
  purged,         \* stale_frames_purged_*
  purgedAt,       \* history: arrived at the last purge, per direction
  txFailures,     \* tx_failures_*
  replayedAt      \* history: arrived when a replayed frame was last transmitted

queueVars == <<raw, egress>>
loopVars == <<pc, turn, poll>>
history == <<arrived, prepared, sent, lastSent, purged, purgedAt, txFailures, replayedAt>>
vars == <<raw, egress, destReady, writesAllowed, pc, turn, poll, arrived, prepared,
          sent, lastSent, purged, purgedAt, txFailures, replayedAt>>

-----------------------------------------------------------------------------
(* The turn-taking shared by flushEgressFair, pollRx and pollCanIngress: a  *)
(* pass offers each direction one turn, the passes start with alternating   *)
(* directions, and the loop ends when its budget is spent, nothing moved in *)
(* a pass or both directions are blocked.                                   *)

LoopStart(round, budget) ==
  [round |-> round, offset |-> 0, budget |-> budget, blocked |-> {},
   progressed |-> FALSE, taken |-> [d \in Direction |-> 0]]

TurnOf(phase) == IF poll.offset = 0 THEN turn[phase] ELSE Opposite(turn[phase])

(* Defect: the loop gives up, without alternating, on the first blocked direction. *)
AdvanceTurn_SharedBlock(next, leave) ==
  LET passOver == next.offset = 1 \/ next.budget = 0 \/ next.blocked # {}
      done == next.budget = 0 \/ ~next.progressed \/ next.blocked # {}
  IN  /\ turn' = [turn EXCEPT ![pc] =
                    IF passOver /\ pc # "ingress" /\ next.blocked = {} THEN Opposite(@) ELSE @]
      /\ \/ /\ passOver /\ done
            /\ leave
         \/ /\ ~(passOver /\ done)
            /\ poll' = [next EXCEPT !.offset = IF passOver THEN 0 ELSE 1,
                                    !.progressed = @ /\ ~passOver]
            /\ pc' = pc

AdvanceTurn(next, leave) ==
  LET passOver == next.offset = 1 \/ next.budget = 0
      done == next.budget = 0 \/ ~next.progressed \/ next.blocked = Direction
  IN  /\ turn' = [turn EXCEPT ![pc] =
                    IF passOver /\ pc # "ingress" THEN Opposite(@) ELSE @]
      /\ \/ /\ passOver /\ done
            /\ leave
         \/ /\ ~(passOver /\ done)
            /\ poll' = [next EXCEPT !.offset = IF passOver THEN 0 ELSE 1,
                                    !.progressed = @ /\ ~passOver]
            /\ pc' = pc

-----------------------------------------------------------------------------
(* Queue operations. *)

(* Defect: <= for <. *)
EgressHasCapacity_OffByOne(d) == Len(egress[d]) <= EgressCapacity
EgressHasCapacity(d) == Len(egress[d]) < EgressCapacity
EgressPending(d) == egress[d] # <<>>
RawPending(d) == raw[d] # <<>>

(* Defect: frames still in the raw queues are not counted as backlog. *)
PhysicalBacklogPending_EgressOnly == \E d \in Direction : EgressPending(d)
PhysicalBacklogPending == \E d \in Direction : RawPending(d) \/ EgressPending(d)

(* The driver accepted frame n of direction d. *)
RecordSent(d, n) ==
  /\ sent' = [sent EXCEPT ![d] = @ + 1]
  /\ lastSent' = [lastSent EXCEPT ![d] = n]

(* enqueuePrepared, and what forwardFrame counts when it fails. *)
EnqueuePrepared(d, n) ==
  \/ /\ Len(egress[d]) < EgressCapacity
     /\ egress' = [egress EXCEPT ![d] = Append(@, n)]
     /\ UNCHANGED txFailures
  \/ /\ Len(egress[d]) >= EgressCapacity
     /\ txFailures' = [txFailures EXCEPT ![d] = @ + 1]
     /\ UNCHANGED egress

(* Defect: a free mailbox is used although prepared frames are waiting. *)
ForwardPhysical_Bypass(d, n) ==
  /\ prepared' = [prepared EXCEPT ![n] = @ + 1]
  /\ \/ /\ destReady[d]
        /\ RecordSent(d, n)
        /\ UNCHANGED <<egress, txFailures>>
     \/ /\ EnqueuePrepared(d, n)
        /\ UNCHANGED <<sent, lastSent>>

(* forwardFrame for a frame taken from a raw queue: prepare it once, then   *)
(* transmit it if nothing waits before it and the driver accepts it.        *)
ForwardPhysical(d, n) ==
  /\ prepared' = [prepared EXCEPT ![n] = @ + 1]
  /\ \/ /\ ~EgressPending(d)
        /\ destReady[d]
        /\ RecordSent(d, n)
        /\ UNCHANGED <<egress, txFailures>>
     \/ /\ EnqueuePrepared(d, n)
        /\ UNCHANGED <<sent, lastSent>>

-----------------------------------------------------------------------------
(* flushEgressFair. *)

AfterFlush == /\ pc' = "raw"
              /\ poll' = LoopStart(poll.round, RawBudget)

FlushSkip(d) ==
  /\ d \in poll.blocked \/ ~EgressPending(d)
  /\ AdvanceTurn(poll, AfterFlush)
  /\ UNCHANGED <<queueVars, history>>

(* Defect: the rules are applied again when the frame is retried. *)
FlushSend_Reprepare(d) ==
  /\ d \notin poll.blocked /\ EgressPending(d)
  /\ destReady[d]
  /\ RecordSent(d, Head(egress[d]))
  /\ egress' = [egress EXCEPT ![d] = Tail(@)]
  /\ prepared' = [prepared EXCEPT ![Head(egress[d])] = @ + 1]
  /\ AdvanceTurn([poll EXCEPT !.budget = @ - 1, !.progressed = TRUE], AfterFlush)
  /\ UNCHANGED <<raw, arrived, purged, purgedAt, txFailures, replayedAt>>

(* flushOneEgress, the destination accepts the oldest prepared frame. *)
FlushSend(d) ==
  /\ d \notin poll.blocked /\ EgressPending(d)
  /\ destReady[d]
  /\ RecordSent(d, Head(egress[d]))
  /\ egress' = [egress EXCEPT ![d] = Tail(@)]
  /\ AdvanceTurn([poll EXCEPT !.budget = @ - 1, !.progressed = TRUE], AfterFlush)
  /\ UNCHANGED <<raw, arrived, prepared, purged, purgedAt, txFailures, replayedAt>>

(* Defect: the tail advances although the driver refused the frame. *)
FlushBusy_DropsHead(d) ==
  /\ d \notin poll.blocked /\ EgressPending(d)
  /\ egress' = [egress EXCEPT ![d] = Tail(@)]
  /\ AdvanceTurn([poll EXCEPT !.budget = @ - 1, !.progressed = TRUE,
                              !.blocked = @ \union {d}], AfterFlush)
  /\ UNCHANGED <<raw, history>>

(* Defect: a refused frame neither spends budget nor blocks its direction. *)
FlushBusy_Spins(d) ==
  /\ d \notin poll.blocked /\ EgressPending(d)
  /\ AdvanceTurn([poll EXCEPT !.progressed = TRUE], AfterFlush)
  /\ UNCHANGED <<queueVars, history>>

(* flushOneEgress, the destination is busy or not ready. *)
FlushBusy(d) ==
  /\ d \notin poll.blocked /\ EgressPending(d)
  /\ AdvanceTurn([poll EXCEPT !.budget = @ - 1, !.progressed = TRUE,
                              !.blocked = @ \union {d}], AfterFlush)
  /\ UNCHANGED <<queueVars, history>>

FlushTurn(d) ==
  /\ pc = "flush" /\ d = TurnOf("flush")
  /\ FlushSkip(d) \/ FlushSend(d) \/ FlushBusy(d)
  /\ UNCHANGED <<destReady, writesAllowed>>

-----------------------------------------------------------------------------
(* The raw loop of pollRx. *)

AfterRaw ==
  \/ /\ poll.round = 1
     /\ pc' = "ingress"
     /\ poll' = LoopStart(1, IngressBudget)
  \/ /\ poll.round = 2
     /\ pc' = "health"
     /\ poll' = LoopStart(1, EgressBudget)

RawSkip(d) ==
  /\ d \in poll.blocked \/ ~RawPending(d)
  /\ AdvanceTurn(poll, AfterRaw)
  /\ UNCHANGED <<queueVars, history>>

(* The egress queue of the direction is full: keep the order, try the other. *)
RawFullStall(d) ==
  /\ d \notin poll.blocked /\ RawPending(d) /\ ~EgressHasCapacity(d)
  /\ AdvanceTurn([poll EXCEPT !.blocked = @ \union {d}], AfterRaw)
  /\ UNCHANGED <<queueVars, history>>

RawForward(d) ==
  /\ d \notin poll.blocked /\ RawPending(d) /\ EgressHasCapacity(d)
  /\ raw' = [raw EXCEPT ![d] = Tail(@)]
  /\ ForwardPhysical(d, Head(raw[d]))
  /\ AdvanceTurn([poll EXCEPT !.budget = @ - 1, !.progressed = TRUE], AfterRaw)
  /\ UNCHANGED <<arrived, purged, purgedAt, replayedAt>>

RawTurn(d) ==
  /\ pc = "raw" /\ d = TurnOf("raw")
  /\ RawSkip(d) \/ RawFullStall(d) \/ RawForward(d)
  /\ UNCHANGED <<destReady, writesAllowed>>

-----------------------------------------------------------------------------
(* pollCanIngress: one frame of each bus in turn, Bus B (B_TO_A) first.  A   *)
(* frame a diagnostic session consumes never enters the gateway and is not   *)
(* represented.                                                              *)

AfterIngress == /\ pc' = "flush"
                /\ poll' = LoopStart(2, EgressBudget)

IngressOpen(d) == d \notin poll.blocked /\ poll.taken[d] < IngressBudget /\ destReady[Opposite(d)]

(* The hardware of this direction's source bus has nothing (or is closed). *)
IngressNone(d) ==
  /\ AdvanceTurn(poll, AfterIngress)
  /\ UNCHANGED <<queueVars, history>>

(* Defect: the slot that tells a full ring from an empty one is used too. *)
RawFull_OffByOne(d) == Len(raw[d]) > RawCapacity
RawFull(d) == Len(raw[d]) >= RawCapacity

IngressTaken(d) == [poll EXCEPT !.taken[d] = @ + 1, !.progressed = TRUE]

IngressAccept(d) ==
  /\ IngressOpen(d) /\ ~RawFull(d) /\ arrived < MaxFrames
  /\ arrived' = arrived + 1
  /\ raw' = [raw EXCEPT ![d] = Append(@, arrived + 1)]
  /\ AdvanceTurn(IngressTaken(d), AfterIngress)
  /\ UNCHANGED <<egress, prepared, sent, lastSent, purged, purgedAt, txFailures, replayedAt>>

(* onFrameReceivedFromIsr finds the ring full: the frame is dropped and this *)
(* bus is not read again in this pass.                                       *)
IngressDrop(d) ==
  /\ IngressOpen(d) /\ RawFull(d)
  /\ AdvanceTurn([IngressTaken(d) EXCEPT !.blocked = @ \union {d}], AfterIngress)
  /\ UNCHANGED <<queueVars, history>>

IngressTurn(d) ==
  /\ pc = "ingress" /\ d = TurnOf("ingress")
  /\ IngressNone(d) \/ IngressAccept(d) \/ IngressDrop(d)
  /\ UNCHANGED <<destReady, writesAllowed>>

-----------------------------------------------------------------------------
(* monitorCanHealth through setBusAReady and setBusBReady: whenever a bus     *)
(* goes away or comes back, the direction that transmits onto it is purged.   *)

(* Defect: the prepared frames survive the purge. *)
PurgeDirections_KeepsEgress(changed) ==
  /\ raw' = [d \in Direction |-> IF d \in changed THEN <<>> ELSE raw[d]]
  /\ purged' = [d \in Direction |->
                  IF d \in changed THEN purged[d] + Len(raw[d]) ELSE purged[d]]
  /\ UNCHANGED egress

PurgeDirections(changed) ==
  /\ raw' = [d \in Direction |-> IF d \in changed THEN <<>> ELSE raw[d]]
  /\ egress' = [d \in Direction |-> IF d \in changed THEN <<>> ELSE egress[d]]
  /\ purged' = [d \in Direction |->
                  IF d \in changed THEN purged[d] + Len(raw[d]) + Len(egress[d])
                  ELSE purged[d]]

Health(changed) ==
  /\ pc = "health"
  /\ pc' = "replay"
  /\ destReady' = [d \in Direction |-> IF d \in changed THEN ~destReady[d] ELSE destReady[d]]
  /\ PurgeDirections(changed)
  /\ purgedAt' = [d \in Direction |-> IF d \in changed THEN arrived ELSE purgedAt[d]]
  /\ UNCHANGED <<writesAllowed, turn, poll, arrived, prepared, sent, lastSent,
                 txFailures, replayedAt>>

-----------------------------------------------------------------------------
(* injectReplayFrame, at most a batch of which is called by one replay tick.  *)
(* A dry run, a refusal and a busy driver leave the gateway as it was: a      *)
(* replayed frame is never queued.                                            *)

ReplayTransmit(d) ==
  /\ pc = "replay"
  /\ writesAllowed
  /\ ~PhysicalBacklogPending
  /\ destReady[d]
  /\ replayedAt' = arrived
  /\ UNCHANGED <<queueVars, destReady, writesAllowed, loopVars, arrived, prepared, sent,
                 lastSent, purged, purgedAt, txFailures>>

(* The tick ends, or the replay mutex was not free and it never began. *)
ReplayDone ==
  /\ pc = "replay"
  /\ pc' = "flush"
  /\ UNCHANGED <<queueVars, destReady, writesAllowed, turn, poll, history>>

(* setActiveCanWritesAllowed, called on core 0 at any moment. *)
SetWritesAllowed ==
  /\ writesAllowed' = ~writesAllowed
  /\ UNCHANGED <<queueVars, destReady, loopVars, history>>

-----------------------------------------------------------------------------
Init ==
  /\ raw = [d \in Direction |-> <<>>]
  /\ egress = [d \in Direction |-> <<>>]
  /\ destReady \in [Direction -> BOOLEAN]
  /\ writesAllowed = FALSE
  /\ pc = "flush"
  /\ turn = [phase \in {"flush", "raw", "ingress"} |->
               IF phase = "ingress" THEN "B_TO_A" ELSE "A_TO_B"]
  /\ poll = LoopStart(1, EgressBudget)
  /\ arrived = 0
  /\ prepared = [n \in 1 .. MaxFrames |-> 0]
  /\ sent = [d \in Direction |-> 0]
  /\ lastSent = [d \in Direction |-> 0]
  /\ purged = [d \in Direction |-> 0]
  /\ purgedAt = [d \in Direction |-> 0]
  /\ txFailures = [d \in Direction |-> 0]
  /\ replayedAt = 0

CanLoop ==
  \/ \E d \in Direction : FlushTurn(d) \/ RawTurn(d) \/ IngressTurn(d) \/ ReplayTransmit(d)
  \/ \E changed \in SUBSET Direction : Health(changed)
  \/ ReplayDone

Next == CanLoop \/ SetWritesAllowed

Spec == Init /\ [][Next]_vars

(* The CAN task runs for ever.  Of the hardware only the buses of            *)
(* LiveDirections are trusted: they come back if the health check keeps      *)
(* running, and accept a prepared frame if it is offered again and again.    *)
BusRecovers(d) == \E changed \in SUBSET Direction : d \in changed /\ ~destReady[d] /\ Health(changed)
FlushSucceeds(d) == FlushTurn(d) /\ lastSent' # lastSent

Fairness ==
  /\ WF_vars(CanLoop)
  /\ \A d \in LiveDirections : SF_vars(BusRecovers(d)) /\ SF_vars(FlushSucceeds(d))

FairSpec == Spec /\ Fairness

-----------------------------------------------------------------------------
(* Everything of direction d that was accepted and has not left yet. *)
Pending(d) == egress[d] \o raw[d]

FrameNumbers == 1 .. MaxFrames

LoopState ==
  [round : {1, 2}, offset : {0, 1}, budget : Nat \ {0}, blocked : SUBSET Direction,
   progressed : BOOLEAN, taken : [Direction -> Nat]]

QueueTypeOK ==
  /\ raw \in [Direction -> Seq(FrameNumbers)]
  /\ egress \in [Direction -> Seq(FrameNumbers)]
  /\ \A d \in Direction : Len(raw[d]) <= RawCapacity /\ Len(egress[d]) <= EgressCapacity
  /\ destReady \in [Direction -> BOOLEAN]
  /\ writesAllowed \in BOOLEAN

LoopTypeOK ==
  /\ pc \in {"flush", "raw", "ingress", "health", "replay"}
  /\ turn \in [{"flush", "raw", "ingress"} -> Direction]
  /\ poll \in LoopState

HistoryTypeOK ==
  /\ arrived \in 0 .. MaxFrames
  /\ prepared \in [FrameNumbers -> Nat]
  /\ sent \in [Direction -> Nat]
  /\ lastSent \in [Direction -> Nat]
  /\ purged \in [Direction -> Nat]
  /\ purgedAt \in [Direction -> Nat]
  /\ txFailures \in [Direction -> Nat]
  /\ replayedAt \in Nat

(* The queues hold frame numbers and never more than the rings have room for; *)
(* every loop of the CAN task has budget left while it runs.                  *)
TypeOK == QueueTypeOK /\ LoopTypeOK /\ HistoryTypeOK

(* Per direction, frames are handed to the bus driver in the order they were  *)
(* accepted: what waits, prepared frames before raw ones, is in arrival order *)
(* and behind the last frame handed over ("every newer physical frame joins"  *)
(* the backlog).                                                              *)
FifoOrder ==
  \A d \in Direction :
    /\ \A i, j \in DOMAIN Pending(d) : i < j => Pending(d)[i] < Pending(d)[j]
    /\ \A i \in DOMAIN Pending(d) : lastSent[d] < Pending(d)[i]

(* A replayed frame never overtakes a physical one, of either direction: when *)
(* it was transmitted, no frame accepted before it was waiting anywhere.      *)
ReplayYields ==
  \A d \in Direction : \A i \in DOMAIN Pending(d) : replayedAt < Pending(d)[i]

(* A bus that comes back transmits nothing accepted before it came back, and  *)
(* one that goes away keeps nothing (setBusAReady: "old counters/control      *)
(* values cannot burst later").                                               *)
NoStaleBurst ==
  \A d \in Direction : \A i \in DOMAIN Pending(d) : purgedAt[d] < Pending(d)[i]

(* What became of the frames accepted from d's source bus. *)
Accounted(d) == sent[d] + purged[d] + Len(raw[d]) + Len(egress[d])

(* A frame once accepted is transmitted, counted as purged or still waiting:  *)
(* no combination of busy mailboxes, full queues and bus failures loses or    *)
(* duplicates one, so the code's tx_failures counters never move.             *)
Conservation ==
  /\ arrived = Accounted("A_TO_B") + Accounted("B_TO_A")
  /\ \A d \in Direction : txFailures[d] = 0

(* Rules are applied to a physical frame at most once (a rolling counter must *)
(* not advance again when a busy mailbox is retried): not before it leaves    *)
(* the raw queue, and exactly once when it is in the egress queue.            *)
PreparedOnce ==
  /\ \A n \in FrameNumbers : prepared[n] <= 1
  /\ \A d \in Direction :
       /\ \A i \in DOMAIN raw[d] : prepared[raw[d][i]] = 0
       /\ \A i \in DOMAIN egress[d] : prepared[egress[d][i]] = 1

(* The gateway implements the abstract channel: its two rings per direction   *)
(* are one line, and every step of the CAN task is a step of it or invisible. *)
Channel == INSTANCE FrameChannel WITH
  pending <- [d \in Direction |-> Pending(d)],
  delivered <- lastSent,
  discarded <- purgedAt,
  replayed <- replayedAt

ImplementsChannel == Channel!Spec

(* Directions are independent: a frame of a direction whose bus recovers and  *)
(* accepts is sent or purged, whatever the other direction's bus does, even   *)
(* if it never accepts a frame and its queues stay full.                      *)
DirectionIndependence ==
  \A d \in LiveDirections : \A n \in FrameNumbers :
    (\E i \in DOMAIN Pending(d) : Pending(d)[i] = n)
      ~> ~(\E i \in DOMAIN Pending(d) : Pending(d)[i] = n)

(* No loop of the CAN task runs for ever: it keeps returning to read the      *)
(* hardware and to check the health of the buses.                             *)
LoopReturns == []<>(pc = "ingress") /\ []<>(pc = "health")
=============================================================================
