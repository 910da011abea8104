----------------------------- MODULE GatewayProofs -----------------------------
(***************************************************************************)
(* Theorems about Gateway, for every capacity, budget and number of frames:  *)
(* type correctness, that it implements FrameChannel, that no frame is lost  *)
(* or duplicated, and that each is prepared once.                            *)
(***************************************************************************)
EXTENDS Gateway, Integers, SequenceTheorems, TLAPS

-----------------------------------------------------------------------------
(* Type correctness. *)

LEMMA SequenceFacts ==
  ASSUME NEW S, NEW s \in Seq(S)
  PROVE  /\ Len(s) \in Nat
         /\ \A e \in S : /\ Append(s, e) \in Seq(S)
                         /\ Len(Append(s, e)) = Len(s) + 1
         /\ s # <<>> => /\ Head(s) \in S
                        /\ Tail(s) \in Seq(S)
                        /\ Len(s) > 0
                        /\ Len(Tail(s)) = Len(s) - 1
OBVIOUS

(* What a turn may hand to AdvanceTurn: the budget may have run out. *)
TurnState ==
  [round : {1, 2}, offset : {0, 1}, budget : Nat, blocked : SUBSET Direction,
   progressed : BOOLEAN, taken : [Direction -> Nat]]

(* Every loop of the CAN task starts in a state of the right type. *)
LEMMA LoopStartType ==
  ASSUME NEW round \in {1, 2}, NEW budget \in Nat \ {0}
  PROVE  LoopStart(round, budget) \in LoopState
BY DEF LoopStart, LoopState

(* Taking turns keeps the loop variables typed, whatever comes after the loop. *)
LEMMA AdvanceTurnType ==
  ASSUME NEW next \in TurnState, LoopTypeOK,
         pc \in {"flush", "raw", "ingress"},
         \/ AdvanceTurn(next, AfterFlush)
         \/ AdvanceTurn(next, AfterRaw)
         \/ AdvanceTurn(next, AfterIngress)
  PROVE  LoopTypeOK'
<1> USE BudgetAssumption
<1> DEFINE passOver == next.offset = 1 \/ next.budget = 0
<1>1. turn' \in [{"flush", "raw", "ingress"} -> Direction]
  BY DEF AdvanceTurn, LoopTypeOK, Direction, Opposite
<1>2. poll.round \in {1, 2}
  BY DEF LoopTypeOK, LoopState
<1>3. CASE AfterFlush \/ AfterRaw \/ AfterIngress
  <2>1. poll' \in LoopState
    BY <1>2, <1>3, LoopStartType DEF AfterFlush, AfterRaw, AfterIngress
  <2> QED
    BY <1>1, <1>3, <2>1 DEF LoopTypeOK, AfterFlush, AfterRaw, AfterIngress
<1>4. CASE /\ poll' = [next EXCEPT !.offset = IF passOver THEN 0 ELSE 1,
                                   !.progressed = @ /\ ~passOver]
           /\ pc' = pc
           /\ next.budget # 0
  <2>1. poll' \in LoopState
    BY <1>4 DEF LoopState, TurnState
  <2> QED
    BY <1>1, <1>4, <2>1 DEF LoopTypeOK
<1> QED
  BY <1>3, <1>4 DEF AdvanceTurn, TurnState

(* The step of a loop: what each kind of turn hands to AdvanceTurn. *)
LEMMA TurnRecords ==
  ASSUME LoopTypeOK, NEW d \in Direction
  PROVE  /\ poll \in TurnState
         /\ [poll EXCEPT !.budget = @ - 1, !.progressed = TRUE] \in TurnState
         /\ [poll EXCEPT !.budget = @ - 1, !.progressed = TRUE,
                         !.blocked = @ \union {d}] \in TurnState
         /\ [poll EXCEPT !.blocked = @ \union {d}] \in TurnState
         /\ IngressTaken(d) \in TurnState
         /\ [IngressTaken(d) EXCEPT !.blocked = @ \union {d}] \in TurnState
<1> DEFINE spent == [poll EXCEPT !.budget = @ - 1, !.progressed = TRUE]
<1>1. poll \in LoopState /\ poll \in TurnState
  BY DEF LoopTypeOK, LoopState, TurnState
<1>2. poll.budget - 1 \in Nat
  BY <1>1 DEF LoopState
<1>3. spent \in TurnState
  BY <1>1, <1>2 DEF TurnState
<1>4. [poll EXCEPT !.budget = @ - 1, !.progressed = TRUE,
                   !.blocked = @ \union {d}] \in TurnState
  BY <1>1, <1>2 DEF TurnState
<1>5. [poll EXCEPT !.blocked = @ \union {d}] \in TurnState
  BY <1>1 DEF TurnState
<1>6. IngressTaken(d) \in TurnState
  <2> DEFINE taken == [poll.taken EXCEPT ![d] = poll.taken[d] + 1]
  <2>1. taken \in [Direction -> Nat]
    BY <1>1 DEF TurnState
  <2>2. IngressTaken(d) = [poll EXCEPT !.taken = taken, !.progressed = TRUE]
    BY <1>1 DEF TurnState, IngressTaken
  <2> HIDE DEF taken
  <2> QED
    BY <1>1, <2>1, <2>2 DEF TurnState
<1>7. [IngressTaken(d) EXCEPT !.blocked = @ \union {d}] \in TurnState
  BY <1>6 DEF TurnState
<1> QED
  BY <1>1, <1>3, <1>4, <1>5, <1>6, <1>7

(* Each kind of turn keeps the loop variables typed. *)
LEMMA LoopTypeInv ==
  ASSUME LoopTypeOK, NEW d \in Direction,
         FlushTurn(d) \/ RawTurn(d) \/ IngressTurn(d)
  PROVE  LoopTypeOK'
<1>1. CASE FlushTurn(d)
  BY <1>1, TurnRecords, AdvanceTurnType DEF FlushTurn, FlushSkip, FlushSend, FlushBusy
<1>2. CASE RawTurn(d)
  BY <1>2, TurnRecords, AdvanceTurnType DEF RawTurn, RawSkip, RawFullStall, RawForward
<1>3. CASE IngressTurn(d)
  BY <1>3, TurnRecords, AdvanceTurnType DEF IngressTurn, IngressNone, IngressAccept, IngressDrop
<1> QED
  BY <1>1, <1>2, <1>3

(* The queue operations keep the queues typed and within the rings' capacity. *)
LEMMA TakeOldest ==
  ASSUME NEW f \in [Direction -> Seq(FrameNumbers)], NEW d \in Direction, f[d] # <<>>
  PROVE  /\ [f EXCEPT ![d] = Tail(@)] \in [Direction -> Seq(FrameNumbers)]
         /\ \A x \in Direction : Len([f EXCEPT ![d] = Tail(@)][x]) <= Len(f[x])
         /\ Head(f[d]) \in FrameNumbers
<1>1. /\ Tail(f[d]) \in Seq(FrameNumbers) /\ Head(f[d]) \in FrameNumbers
      /\ Len(Tail(f[d])) <= Len(f[d])
      /\ \A x \in Direction : Len(f[x]) \in Nat
  BY SequenceFacts
<1> QED
  BY <1>1

LEMMA AddNewest ==
  ASSUME NEW f \in [Direction -> Seq(FrameNumbers)], NEW d \in Direction,
         NEW n \in FrameNumbers, NEW capacity \in Nat,
         \A x \in Direction : Len(f[x]) <= capacity,
         Len(f[d]) < capacity
  PROVE  /\ [f EXCEPT ![d] = Append(@, n)] \in [Direction -> Seq(FrameNumbers)]
         /\ \A x \in Direction : Len([f EXCEPT ![d] = Append(@, n)][x]) <= capacity
<1>1. /\ Append(f[d], n) \in Seq(FrameNumbers)
      /\ Len(Append(f[d], n)) = Len(f[d]) + 1
      /\ \A x \in Direction : Len(f[x]) \in Nat
  BY SequenceFacts
<1>2. Len(f[d]) + 1 <= capacity
  BY <1>1
<1> QED
  BY <1>1, <1>2

LEMMA EnqueueType ==
  ASSUME QueueTypeOK, NEW d \in Direction, NEW n \in FrameNumbers, EnqueuePrepared(d, n),
         txFailures \in [Direction -> Nat]
  PROVE  /\ egress' \in [Direction -> Seq(FrameNumbers)]
         /\ \A x \in Direction : Len(egress'[x]) <= EgressCapacity
         /\ txFailures' \in [Direction -> Nat]
<1>1. CASE Len(egress[d]) < EgressCapacity /\ egress' = [egress EXCEPT ![d] = Append(@, n)]
           /\ UNCHANGED txFailures
  BY <1>1, AddNewest, CapacityAssumption DEF QueueTypeOK
<1>2. CASE txFailures' = [txFailures EXCEPT ![d] = @ + 1] /\ UNCHANGED egress
  BY <1>2 DEF QueueTypeOK
<1> QED
  BY <1>1, <1>2 DEF EnqueuePrepared

LEMMA RecordSentType ==
  ASSUME HistoryTypeOK, NEW d \in Direction, NEW n \in FrameNumbers, RecordSent(d, n)
  PROVE  sent' \in [Direction -> Nat] /\ lastSent' \in [Direction -> Nat]
<1>1. n \in Nat
  BY ModelAssumption DEF FrameNumbers
<1> QED
  BY <1>1 DEF HistoryTypeOK, RecordSent

LEMMA ForwardType ==
  ASSUME QueueTypeOK, HistoryTypeOK, NEW d \in Direction, NEW n \in FrameNumbers,
         ForwardPhysical(d, n)
  PROVE  /\ egress' \in [Direction -> Seq(FrameNumbers)]
         /\ \A x \in Direction : Len(egress'[x]) <= EgressCapacity
         /\ txFailures' \in [Direction -> Nat]
         /\ prepared' \in [FrameNumbers -> Nat]
         /\ sent' \in [Direction -> Nat] /\ lastSent' \in [Direction -> Nat]
<1>1. prepared' \in [FrameNumbers -> Nat]
  BY DEF ForwardPhysical, HistoryTypeOK
<1>2. CASE RecordSent(d, n) /\ UNCHANGED <<egress, txFailures>>
  BY <1>1, <1>2, RecordSentType DEF QueueTypeOK, HistoryTypeOK
<1>3. CASE EnqueuePrepared(d, n) /\ UNCHANGED <<sent, lastSent>>
  BY <1>1, <1>3, EnqueueType DEF HistoryTypeOK
<1> QED
  BY <1>2, <1>3 DEF ForwardPhysical

-----------------------------------------------------------------------------
(* TypeOK is inductive: one lemma per part of the CAN task's loop. *)

LEMMA FlushTypeInv ==
  ASSUME TypeOK, NEW d \in Direction, FlushTurn(d)
  PROVE  QueueTypeOK' /\ HistoryTypeOK'
<1> USE DEF TypeOK
<1>1. UNCHANGED <<destReady, writesAllowed>>
  BY DEF FlushTurn
<1>2. CASE UNCHANGED <<queueVars, history>>
  BY <1>1, <1>2 DEF QueueTypeOK, HistoryTypeOK, queueVars, history
<1>3. CASE FlushSend(d)
  <2>1. QueueTypeOK'
    BY <1>1, <1>3, TakeOldest, SequenceFacts, CapacityAssumption
    DEF FlushSend, EgressPending, QueueTypeOK
  <2>2. HistoryTypeOK'
    BY <1>3, TakeOldest, RecordSentType DEF FlushSend, EgressPending, QueueTypeOK, HistoryTypeOK
  <2> QED
    BY <2>1, <2>2
<1> QED
  BY <1>2, <1>3 DEF FlushTurn, FlushSkip, FlushBusy

LEMMA RawTypeInv ==
  ASSUME TypeOK, NEW d \in Direction, RawTurn(d)
  PROVE  QueueTypeOK' /\ HistoryTypeOK'
<1> USE DEF TypeOK
<1>1. UNCHANGED <<destReady, writesAllowed>>
  BY DEF RawTurn
<1>2. CASE UNCHANGED <<queueVars, history>>
  BY <1>1, <1>2 DEF QueueTypeOK, HistoryTypeOK, queueVars, history
<1>3. CASE RawForward(d)
  <2>1. raw[d] # <<>> /\ raw' = [raw EXCEPT ![d] = Tail(@)] /\ ForwardPhysical(d, Head(raw[d]))
    BY <1>3 DEF RawForward, RawPending
  <2>2. /\ raw' \in [Direction -> Seq(FrameNumbers)]
        /\ \A x \in Direction : Len(raw'[x]) <= RawCapacity
        /\ Head(raw[d]) \in FrameNumbers
    BY <2>1, TakeOldest, SequenceFacts, CapacityAssumption DEF QueueTypeOK
  <2>3. QueueTypeOK'
    BY <1>1, <2>1, <2>2, ForwardType DEF QueueTypeOK
  <2>4. HistoryTypeOK'
    BY <1>3, <2>1, <2>2, ForwardType DEF HistoryTypeOK, RawForward
  <2> QED
    BY <2>3, <2>4
<1> QED
  BY <1>2, <1>3 DEF RawTurn, RawSkip, RawFullStall

LEMMA IngressTypeInv ==
  ASSUME TypeOK, NEW d \in Direction, IngressTurn(d)
  PROVE  QueueTypeOK' /\ HistoryTypeOK'
<1> USE DEF TypeOK
<1>1. UNCHANGED <<destReady, writesAllowed>>
  BY DEF IngressTurn
<1>2. CASE UNCHANGED <<queueVars, history>>
  BY <1>1, <1>2 DEF QueueTypeOK, HistoryTypeOK, queueVars, history
<1>3. CASE IngressAccept(d)
  <2>1. arrived + 1 \in FrameNumbers /\ arrived' \in 0 .. MaxFrames
    BY <1>3, ModelAssumption DEF IngressAccept, HistoryTypeOK, FrameNumbers
  <2>2. Len(raw[d]) \in Nat /\ Len(raw[d]) < RawCapacity
    BY <1>3, SequenceFacts, CapacityAssumption DEF IngressAccept, RawFull, QueueTypeOK
  <2>3. QueueTypeOK'
    BY <1>1, <1>3, <2>1, <2>2, AddNewest, CapacityAssumption DEF IngressAccept, QueueTypeOK
  <2>4. HistoryTypeOK'
    BY <1>3, <2>1 DEF IngressAccept, HistoryTypeOK
  <2> QED
    BY <2>3, <2>4
<1> QED
  BY <1>2, <1>3 DEF IngressTurn, IngressNone, IngressDrop

LEMMA HealthTypeInv ==
  ASSUME TypeOK, NEW changed \in SUBSET Direction, Health(changed)
  PROVE  TypeOK'
<1> USE DEF TypeOK
<1>1. QueueTypeOK'
  <2>1. <<>> \in Seq(FrameNumbers) /\ Len(<<>>) = 0
    OBVIOUS
  <2>2. destReady' \in [Direction -> BOOLEAN] /\ writesAllowed' \in BOOLEAN
    BY Zenon DEF Health, QueueTypeOK
  <2>3. \A d \in Direction : /\ raw'[d] = <<>> \/ raw'[d] = raw[d]
                             /\ egress'[d] = <<>> \/ egress'[d] = egress[d]
    BY DEF Health, PurgeDirections
  <2>4. \A d \in Direction : Len(raw'[d]) <= RawCapacity /\ Len(egress'[d]) <= EgressCapacity
    BY <2>1, <2>3, CapacityAssumption DEF QueueTypeOK
  <2>5. raw' \in [Direction -> Seq(FrameNumbers)] /\ egress' \in [Direction -> Seq(FrameNumbers)]
    BY <2>1 DEF Health, PurgeDirections, QueueTypeOK
  <2> QED
    BY <2>2, <2>4, <2>5 DEF QueueTypeOK
<1>2. purged' \in [Direction -> Nat]
  <2>1. \A d \in Direction : Len(raw[d]) \in Nat /\ Len(egress[d]) \in Nat
    BY SequenceFacts DEF QueueTypeOK
  <2> QED
    BY <2>1, SMTT(30) DEF Health, PurgeDirections, HistoryTypeOK
<1>3. HistoryTypeOK'
  BY <1>2, ModelAssumption DEF Health, HistoryTypeOK
<1>4. LoopTypeOK'
  BY DEF Health, LoopTypeOK
<1> QED
  BY <1>1, <1>3, <1>4

LEMMA InitType == Init => TypeOK
<1> SUFFICES ASSUME Init PROVE TypeOK
  OBVIOUS
<1>1. <<>> \in Seq(FrameNumbers) /\ Len(<<>>) = 0
  OBVIOUS
<1>2. QueueTypeOK
  <2>1. destReady \in [Direction -> BOOLEAN] /\ writesAllowed \in BOOLEAN
    BY Zenon DEF Init
  <2>2. raw \in [Direction -> Seq(FrameNumbers)] /\ egress \in [Direction -> Seq(FrameNumbers)]
    BY <1>1 DEF Init
  <2>3. \A d \in Direction : Len(raw[d]) <= RawCapacity /\ Len(egress[d]) <= EgressCapacity
    BY <1>1, CapacityAssumption DEF Init
  <2> QED
    BY <2>1, <2>2, <2>3 DEF QueueTypeOK
<1>3. LoopTypeOK
  BY LoopStartType, BudgetAssumption DEF Init, LoopTypeOK, Direction
<1>4. HistoryTypeOK
  BY ModelAssumption DEF Init, HistoryTypeOK, FrameNumbers
<1> QED
  BY <1>2, <1>3, <1>4 DEF TypeOK

LEMMA NextType == TypeOK /\ [Next]_vars => TypeOK'
<1> SUFFICES ASSUME TypeOK, [Next]_vars PROVE TypeOK'
  OBVIOUS
<1>1. ASSUME NEW d \in Direction, FlushTurn(d) \/ RawTurn(d) \/ IngressTurn(d)
      PROVE  TypeOK'
  BY <1>1, LoopTypeInv, FlushTypeInv, RawTypeInv, IngressTypeInv DEF TypeOK
<1>2. ASSUME NEW d \in Direction, ReplayTransmit(d)
      PROVE  TypeOK'
  <2>1. /\ UNCHANGED <<raw, egress, destReady, writesAllowed, pc, turn, poll>>
        /\ UNCHANGED <<arrived, prepared, sent, lastSent, purged, purgedAt, txFailures>>
        /\ replayedAt' = arrived
    BY <1>2 DEF ReplayTransmit, queueVars, loopVars
  <2>2. HistoryTypeOK'
    BY <2>1, ModelAssumption DEF TypeOK, HistoryTypeOK
  <2> QED
    BY <2>1, <2>2 DEF TypeOK, QueueTypeOK, LoopTypeOK
<1>3. ASSUME NEW changed \in SUBSET Direction, Health(changed)
      PROVE  TypeOK'
  BY <1>3, HealthTypeInv
<1>4. CASE ReplayDone
  BY <1>4 DEF ReplayDone, TypeOK, QueueTypeOK, LoopTypeOK, HistoryTypeOK, queueVars, history
<1>5. CASE SetWritesAllowed
  BY <1>5 DEF SetWritesAllowed, TypeOK, QueueTypeOK, LoopTypeOK, HistoryTypeOK, queueVars,
              loopVars, history
<1>6. CASE UNCHANGED vars
  BY <1>6 DEF vars, TypeOK, QueueTypeOK, LoopTypeOK, HistoryTypeOK
<1> QED
  BY <1>1, <1>2, <1>3, <1>4, <1>5, <1>6 DEF Next, CanLoop

(* In every reachable state the rings are within their capacity and the CAN *)
(* task's loops are in range, whatever the capacities and budgets.          *)
THEOREM GatewayTypeOK == Spec => []TypeOK
  BY InitType, NextType, PTL DEF Spec

-----------------------------------------------------------------------------
(* Refinement: the two rings of a direction are one line of the channel. *)

LEMMA ConsIsConcat ==
  ASSUME NEW S, NEW s \in Seq(S), s # <<>>
  PROVE  s = <<Head(s)>> \o Tail(s)
<1> DEFINE t == <<Head(s)>> \o Tail(s)
<1>1. Head(s) \in S /\ Tail(s) \in Seq(S) /\ <<Head(s)>> \in Seq(S)
  BY HeadTailProperties
<1>2. t \in Seq(S)
  BY <1>1, ConcatProperties
<1>3. Len(t) = Len(s) /\ \A i \in 1 .. Len(s) : t[i] = s[i]
  OBVIOUS
<1> HIDE DEF t
<1> QED
  BY <1>2, <1>3, SeqEqual DEF t

LEMMA TailOfCons ==
  ASSUME NEW S, NEW e \in S, NEW s \in Seq(S)
  PROVE  /\ <<e>> \o s # <<>>
         /\ Head(<<e>> \o s) = e
         /\ Tail(<<e>> \o s) = s
<1> DEFINE t == <<e>> \o s
<1>1. t \in Seq(S) /\ Len(t) = Len(s) + 1 /\ t[1] = e /\ \A i \in 1 .. Len(s) : t[i + 1] = s[i]
  OBVIOUS
<1>2. t # <<>>
  BY <1>1
<1> HIDE DEF t
<1>3. Head(t) = e
  BY <1>1, <1>2
<1>4. /\ Tail(t) \in Seq(S)
      /\ Len(Tail(t)) = Len(s)
      /\ \A i \in 1 .. Len(s) : Tail(t)[i] = s[i]
  BY <1>1, <1>2, HeadTailProperties
<1>5. Tail(t) = s
  BY <1>4, SeqEqual
<1> QED
  BY <1>2, <1>3, <1>5 DEF t

(* Taking from the front of a line takes from its prepared frames. *)
LEMMA FrontOfLine ==
  ASSUME NEW S, NEW s \in Seq(S), NEW t \in Seq(S), s # <<>>
  PROVE  s \o t # <<>> /\ Head(s \o t) = Head(s) /\ Tail(s \o t) = Tail(s) \o t
<1>1. Head(s) \in S /\ Tail(s) \in Seq(S) /\ <<Head(s)>> \in Seq(S)
  BY HeadTailProperties
<1>2. s \o t = <<Head(s)>> \o (Tail(s) \o t)
  BY <1>1, ConsIsConcat, ConcatAssociative
<1>3. Tail(s) \o t \in Seq(S)
  BY <1>1, ConcatProperties
<1> QED
  BY <1>1, <1>2, <1>3, TailOfCons

(* Moving the oldest raw frame behind the prepared frames leaves the line as it was. *)
LEMMA MoveInsideLine ==
  ASSUME NEW S, NEW s \in Seq(S), NEW t \in Seq(S), t # <<>>
  PROVE  Append(s, Head(t)) \o Tail(t) = s \o t
<1>1. Head(t) \in S /\ Tail(t) \in Seq(S) /\ <<Head(t)>> \in Seq(S)
  BY HeadTailProperties
<1>2. Append(s, Head(t)) = s \o <<Head(t)>>
  BY <1>1, AppendIsConcat
<1>3. (s \o <<Head(t)>>) \o Tail(t) = s \o (<<Head(t)>> \o Tail(t))
  BY <1>1, ConcatAssociative
<1> QED
  BY <1>2, <1>3, ConsIsConcat

(* A frame that joins the raw ring joins the end of the line. *)
LEMMA EndOfLine ==
  ASSUME NEW S, NEW s \in Seq(S), NEW t \in Seq(S), NEW e \in S
  PROVE  s \o Append(t, e) = Append(s \o t, e)
<1>1. <<e>> \in Seq(S) /\ s \o t \in Seq(S)
  BY ConcatProperties
<1>2. Append(t, e) = t \o <<e>> /\ Append(s \o t, e) = (s \o t) \o <<e>>
  BY <1>1, AppendIsConcat
<1> QED
  BY <1>1, <1>2, ConcatAssociative

(* What a loop iteration leaves alone on the abstract side. *)
LEMMA SilentStep ==
  ASSUME UNCHANGED <<raw, egress, arrived, lastSent, purgedAt, replayedAt>>
  PROVE  UNCHANGED Channel!channelVars
BY DEF Channel!channelVars, Pending

LEMMA FlushRefines ==
  ASSUME TypeOK, NEW d \in Direction, FlushSend(d)
  PROVE  Channel!Deliver(d)
<1>1. /\ egress[d] \in Seq(FrameNumbers) /\ raw[d] \in Seq(FrameNumbers) /\ egress[d] # <<>>
      /\ egress \in [Direction -> Seq(FrameNumbers)]
  BY DEF TypeOK, QueueTypeOK, FlushSend, EgressPending
<1>2. /\ egress' = [egress EXCEPT ![d] = Tail(@)]
      /\ lastSent' = [lastSent EXCEPT ![d] = Head(egress[d])]
      /\ UNCHANGED <<raw, arrived, purgedAt, replayedAt>>
  BY DEF FlushSend, RecordSent
<1>3. /\ Pending(d) # <<>>
      /\ Head(Pending(d)) = Head(egress[d])
      /\ Tail(Pending(d)) = Tail(egress[d]) \o raw[d]
  BY <1>1, FrontOfLine DEF Pending
<1>4. /\ Pending(d)' = Tail(Pending(d))
      /\ \A x \in Direction \ {d} : Pending(x)' = Pending(x)
  BY <1>1, <1>2, <1>3 DEF Pending
<1> QED
  BY <1>2, <1>3, <1>4 DEF Channel!Deliver

LEMMA ForwardRefines ==
  ASSUME TypeOK, NEW d \in Direction, RawForward(d)
  PROVE  Channel!Deliver(d) \/ UNCHANGED Channel!channelVars
<1>1. /\ egress[d] \in Seq(FrameNumbers) /\ raw[d] \in Seq(FrameNumbers) /\ raw[d] # <<>>
      /\ raw \in [Direction -> Seq(FrameNumbers)]
      /\ egress \in [Direction -> Seq(FrameNumbers)]
      /\ Len(egress[d]) \in Nat /\ Len(egress[d]) < EgressCapacity
  BY SequenceFacts
  DEF TypeOK, QueueTypeOK, RawForward, RawPending, EgressHasCapacity
<1>2. /\ raw' = [raw EXCEPT ![d] = Tail(@)]
      /\ UNCHANGED <<arrived, purgedAt, replayedAt>>
      /\ ForwardPhysical(d, Head(raw[d]))
  BY DEF RawForward
<1>3. CASE /\ egress[d] = <<>>
           /\ lastSent' = [lastSent EXCEPT ![d] = Head(raw[d])]
           /\ UNCHANGED egress
  <2>1. Pending(d) = raw[d] /\ Pending(d)' = Tail(raw[d])
    <3>1. Tail(raw[d]) \in Seq(FrameNumbers)
      BY <1>1, HeadTailProperties
    <3> QED
      BY <1>1, <1>2, <1>3, <3>1, ConcatEmptySeq DEF Pending
  <2>2. \A x \in Direction \ {d} : Pending(x)' = Pending(x)
    BY <1>1, <1>2, <1>3 DEF Pending
  <2> QED
    BY <1>1, <1>2, <1>3, <2>1, <2>2 DEF Channel!Deliver
<1>4. CASE /\ egress' = [egress EXCEPT ![d] = Append(@, Head(raw[d]))]
           /\ UNCHANGED lastSent
  <2>1. Pending(d)' = Pending(d)
    BY <1>1, <1>2, <1>4, MoveInsideLine DEF Pending
  <2>2. \A x \in Direction \ {d} : Pending(x)' = Pending(x)
    BY <1>1, <1>2, <1>4 DEF Pending
  <2> QED
    BY <1>2, <1>4, <2>1, <2>2 DEF Channel!channelVars
<1> QED
  BY <1>1, <1>2, <1>3, <1>4, CapacityAssumption
  DEF ForwardPhysical, EnqueuePrepared, RecordSent, EgressPending

LEMMA AcceptRefines ==
  ASSUME TypeOK, NEW d \in Direction, IngressAccept(d)
  PROVE  Channel!Accept(d)
<1>1. /\ egress[d] \in Seq(FrameNumbers) /\ raw[d] \in Seq(FrameNumbers)
      /\ raw \in [Direction -> Seq(FrameNumbers)]
      /\ arrived + 1 \in FrameNumbers
  BY ModelAssumption
  DEF TypeOK, QueueTypeOK, HistoryTypeOK, IngressAccept, FrameNumbers
<1>2. /\ raw' = [raw EXCEPT ![d] = Append(@, arrived + 1)]
      /\ arrived' = arrived + 1
      /\ UNCHANGED <<egress, lastSent, purgedAt, replayedAt>>
  BY DEF IngressAccept
<1>3. /\ Pending(d)' = Append(Pending(d), arrived + 1)
      /\ \A x \in Direction \ {d} : Pending(x)' = Pending(x)
  <2> DEFINE new == arrived + 1
  <2>0. new \in FrameNumbers
    BY <1>1
  <2> HIDE DEF new
  <2>1. egress[d] \o Append(raw[d], new) = Append(egress[d] \o raw[d], new)
    <3>1. ASSUME NEW s \in Seq(FrameNumbers), NEW t \in Seq(FrameNumbers), NEW e \in FrameNumbers
          PROVE  s \o Append(t, e) = Append(s \o t, e)
      BY EndOfLine
    <3> QED
      BY <1>1, <2>0, <3>1
  <2>2. raw'[d] = Append(raw[d], new) /\ \A x \in Direction \ {d} : raw'[x] = raw[x]
    BY <1>1, <1>2 DEF new
  <2>3. Pending(d)' = Append(Pending(d), new)
    <3>1. egress'[d] = egress[d]
      BY <1>2
    <3> QED
      BY <2>1, <2>2, <3>1 DEF Pending
  <2>4. \A x \in Direction \ {d} : Pending(x)' = Pending(x)
    BY <1>2, <2>2 DEF Pending
  <2> QED
    BY <2>3, <2>4 DEF new
<1> QED
  BY <1>2, <1>3 DEF Channel!Accept

LEMMA HealthRefines ==
  ASSUME TypeOK, NEW changed \in SUBSET Direction, Health(changed)
  PROVE  Channel!Discard(changed)
<1>1. <<>> \o <<>> = <<>>
  OBVIOUS
<1>2. \A d \in Direction : Pending(d)' = IF d \in changed THEN <<>> ELSE Pending(d)
  BY <1>1 DEF Health, PurgeDirections, Pending
<1> QED
  BY <1>2 DEF Health, Channel!Discard

LEMMA ReplayRefines ==
  ASSUME TypeOK, NEW d \in Direction, ReplayTransmit(d)
  PROVE  Channel!Replay
<1>1. \A x \in Direction : Pending(x) = <<>>
  <2>1. \A x \in Direction : raw[x] = <<>> /\ egress[x] = <<>>
    BY DEF ReplayTransmit, PhysicalBacklogPending, RawPending, EgressPending
  <2> QED
    BY <2>1 DEF Pending
<1>2. replayedAt' = arrived /\ UNCHANGED <<raw, egress, arrived, lastSent, purgedAt>>
  BY DEF ReplayTransmit, queueVars
<1>3. \A x \in Direction : Pending(x)' = Pending(x)
  BY <1>2 DEF Pending
<1> QED
  BY <1>1, <1>2, <1>3 DEF Channel!Replay

(* Every step of the gateway is a step of the channel or invisible to it. *)
LEMMA StepRefines == TypeOK /\ [Next]_vars => [Channel!Next]_(Channel!channelVars)
<1> SUFFICES ASSUME TypeOK, [Next]_vars PROVE [Channel!Next]_(Channel!channelVars)
  OBVIOUS
<1>1. ASSUME NEW d \in Direction, FlushTurn(d)
      PROVE  Channel!Deliver(d) \/ UNCHANGED Channel!channelVars
  BY <1>1, FlushRefines, SilentStep DEF FlushTurn, FlushSkip, FlushBusy, queueVars, history
<1>2. ASSUME NEW d \in Direction, RawTurn(d)
      PROVE  Channel!Deliver(d) \/ UNCHANGED Channel!channelVars
  BY <1>2, ForwardRefines, SilentStep DEF RawTurn, RawSkip, RawFullStall, queueVars, history
<1>3. ASSUME NEW d \in Direction, IngressTurn(d)
      PROVE  Channel!Accept(d) \/ UNCHANGED Channel!channelVars
  BY <1>3, AcceptRefines, SilentStep DEF IngressTurn, IngressNone, IngressDrop, queueVars, history
<1>4. CASE ReplayDone \/ SetWritesAllowed
  BY <1>4, SilentStep DEF ReplayDone, SetWritesAllowed, queueVars, history
<1>5. CASE UNCHANGED vars
  BY <1>5, SilentStep DEF vars
<1> QED
  BY <1>1, <1>2, <1>3, <1>4, <1>5, HealthRefines, ReplayRefines
  DEF Next, CanLoop, Channel!Next

LEMMA InitRefines == Init => Channel!Init
<1>1. <<>> \o <<>> = <<>>
  OBVIOUS
<1> QED
  BY <1>1 DEF Init, Channel!Init, Pending

(* The gateway implements the abstract channel, for all capacities, budgets *)
(* and any number of frames.                                                *)
THEOREM GatewayImplementsChannel == Spec => ImplementsChannel
<1>1. Init /\ [][Next]_vars /\ []TypeOK => Channel!Init /\ [][Channel!Next]_(Channel!channelVars)
  BY InitRefines, StepRefines, PTL
<1> QED
  BY <1>1, GatewayTypeOK, PTL DEF Spec, ImplementsChannel, Channel!Spec

-----------------------------------------------------------------------------
(* What the channel promises therefore holds of the gateway. *)

ChannelLaws == INSTANCE FrameChannelProofs WITH
  pending <- [d \in Direction |-> Pending(d)],
  delivered <- lastSent,
  discarded <- purgedAt,
  replayed <- replayedAt

(* Frames of a direction are transmitted in arrival order; a replayed frame   *)
(* never overtakes an accepted one; nothing stale survives a bus transition.  *)
THEOREM GatewayOrder == Spec => [](FifoOrder /\ ReplayYields /\ NoStaleBurst)
<1>1. Channel!ChannelInv => FifoOrder /\ ReplayYields /\ NoStaleBurst
  BY DEF Channel!ChannelInv, Channel!InOrder, Channel!BehindReplay, Channel!AfterDiscard,
         Channel!Increasing, Channel!Above, FifoOrder, ReplayYields, NoStaleBurst
<1>2. Channel!Init = ChannelLaws!Init
  BY DEF Channel!Init, ChannelLaws!Init
<1>3. [Channel!Next]_(Channel!channelVars) = [ChannelLaws!Next]_(ChannelLaws!channelVars)
  BY DEF Channel!Next, ChannelLaws!Next, Channel!channelVars, ChannelLaws!channelVars,
         Channel!Accept, ChannelLaws!Accept, Channel!Deliver, ChannelLaws!Deliver,
         Channel!Discard, ChannelLaws!Discard, Channel!Replay, ChannelLaws!Replay
<1>4. Channel!ChannelInv = ChannelLaws!ChannelInv /\ Channel!ChannelInv' = ChannelLaws!ChannelInv'
  BY DEF Channel!ChannelInv, ChannelLaws!ChannelInv, Channel!TypeOK, ChannelLaws!TypeOK,
         Channel!KnownFrames, ChannelLaws!KnownFrames, Channel!InOrder, ChannelLaws!InOrder,
         Channel!BehindReplay, ChannelLaws!BehindReplay,
         Channel!AfterDiscard, ChannelLaws!AfterDiscard,
         Channel!Increasing, ChannelLaws!Increasing, Channel!Above, ChannelLaws!Above,
         Channel!UpTo, ChannelLaws!UpTo
<1>5. Channel!Init => Channel!ChannelInv
  BY <1>2, <1>4, ChannelLaws!ChannelInvInit
<1>6. Channel!ChannelInv /\ [Channel!Next]_(Channel!channelVars) => Channel!ChannelInv'
  BY <1>3, <1>4, ChannelLaws!ChannelInvNext
<1> QED
  BY <1>1, <1>5, <1>6, GatewayImplementsChannel, PTL DEF ImplementsChannel, Channel!Spec

(* Replay yields: no frame is replayed while an accepted one waits anywhere.   *)
THEOREM GatewayReplayYields == Spec => []ReplayYields
  BY GatewayOrder, PTL

(* After a bus has come back, nothing accepted before it went is sent to it.   *)
THEOREM GatewayNoStaleBurst == Spec => []NoStaleBurst
  BY GatewayOrder, PTL

-----------------------------------------------------------------------------
(* Conservation: per direction, every step keeps the balance of frames. *)

LEMMA AccountedType ==
  ASSUME TypeOK, NEW d \in Direction
  PROVE  /\ sent[d] \in Nat /\ purged[d] \in Nat
         /\ Len(raw[d]) \in Nat /\ Len(egress[d]) \in Nat
         /\ Accounted(d) \in Nat /\ arrived \in Nat
<1>1. /\ sent[d] \in Nat /\ purged[d] \in Nat /\ arrived \in Nat
  BY ModelAssumption DEF TypeOK, HistoryTypeOK
<1>2. Len(raw[d]) \in Nat /\ Len(egress[d]) \in Nat
  BY SequenceFacts DEF TypeOK, QueueTypeOK
<1> QED
  BY <1>1, <1>2, SMTT(30) DEF Accounted

(* What a step that purges nothing does to a direction's account. *)
LEMMA AccountedStep ==
  ASSUME TypeOK, NEW d \in Direction, NEW a \in Int, NEW b \in Int, NEW c \in Int,
         purged' = purged,
         sent'[d] = sent[d] + a,
         Len(raw'[d]) = Len(raw[d]) + b,
         Len(egress'[d]) = Len(egress[d]) + c
  PROVE  Accounted(d)' = Accounted(d) + (a + b + c)
<1>1. PICK r \in Nat, e \in Nat : r = Len(raw[d]) /\ e = Len(egress[d])
  BY AccountedType
<1>2. Accounted(d) = sent[d] + purged[d] + r + e
  BY <1>1 DEF Accounted
<1>3. Len(raw'[d]) = r + b /\ Len(egress'[d]) = e + c
  BY <1>1
<1>4. Accounted(d)' = (sent[d] + a) + purged[d] + (r + b) + (e + c)
  BY <1>3 DEF Accounted
<1>5. sent[d] \in Nat /\ purged[d] \in Nat
  BY AccountedType
<1> QED
  BY <1>2, <1>4, <1>5

(* A frame that moves within a direction, or leaves it counted, keeps its balance. *)
LEMMA FlushKeepsAccount ==
  ASSUME TypeOK, NEW d \in Direction, FlushSend(d)
  PROVE  \A x \in Direction : Accounted(x)' = Accounted(x)
<1>1. /\ egress[d] # <<>>
      /\ egress' = [egress EXCEPT ![d] = Tail(@)]
      /\ sent' = [sent EXCEPT ![d] = @ + 1]
      /\ UNCHANGED <<raw, purged>>
  BY DEF FlushSend, EgressPending, RecordSent
<1>2. /\ egress'[d] = Tail(egress[d]) /\ sent'[d] = sent[d] + 1
      /\ \A x \in Direction \ {d} : egress'[x] = egress[x] /\ sent'[x] = sent[x]
  BY <1>1 DEF TypeOK, QueueTypeOK, HistoryTypeOK
<1>3. Len(egress'[d]) = Len(egress[d]) - 1
  BY <1>1, <1>2, SequenceFacts DEF TypeOK, QueueTypeOK
<1>4. Accounted(d)' = Accounted(d)
  <2>1. PICK a \in Int, b \in Int, c \in Int : a = 1 /\ b = 0 /\ c = -1
    OBVIOUS
  <2>2. sent'[d] = sent[d] + a /\ Len(raw'[d]) = Len(raw[d]) + b /\ Len(egress'[d]) = Len(egress[d]) + c
    BY <2>1, <1>1, <1>2, <1>3, AccountedType
  <2>3. Accounted(d)' = Accounted(d) + (a + b + c)
    BY <1>1, <2>2, AccountedStep, ZenonT(60)
  <2> QED
    BY <2>1, <2>3, AccountedType
<1>5. ASSUME NEW x \in Direction \ {d} PROVE Accounted(x)' = Accounted(x)
  BY <1>1, <1>2, <1>5 DEF Accounted
<1> QED
  BY <1>4, <1>5

LEMMA ForwardKeepsAccount ==
  ASSUME TypeOK, NEW d \in Direction, RawForward(d)
  PROVE  UNCHANGED txFailures /\ \A x \in Direction : Accounted(x)' = Accounted(x)
<1>1. /\ raw[d] # <<>>
      /\ raw' = [raw EXCEPT ![d] = Tail(@)]
      /\ UNCHANGED <<arrived, purged>>
      /\ ForwardPhysical(d, Head(raw[d]))
      /\ Len(egress[d]) < EgressCapacity
  BY DEF RawForward, RawPending, EgressHasCapacity
<1>2. /\ raw'[d] = Tail(raw[d])
      /\ \A x \in Direction \ {d} : raw'[x] = raw[x]
      /\ Len(Tail(raw[d])) = Len(raw[d]) - 1
      /\ Head(raw[d]) \in FrameNumbers
  BY <1>1, SequenceFacts DEF TypeOK, QueueTypeOK
<1>3. CASE sent' = [sent EXCEPT ![d] = @ + 1] /\ UNCHANGED <<egress, txFailures>>
  <2>1. sent'[d] = sent[d] + 1 /\ \A x \in Direction \ {d} : sent'[x] = sent[x]
    BY <1>3 DEF TypeOK, HistoryTypeOK
  <2>2. Accounted(d)' = Accounted(d)
    <3>1. PICK a \in Int, b \in Int, c \in Int : a = 1 /\ b = -1 /\ c = 0
      OBVIOUS
    <3>2. sent'[d] = sent[d] + a /\ Len(raw'[d]) = Len(raw[d]) + b /\ Len(egress'[d]) = Len(egress[d]) + c
      BY <3>1, <1>2, <1>3, <2>1, AccountedType
    <3>3. Accounted(d)' = Accounted(d) + (a + b + c)
      BY <1>1, <3>2, AccountedStep
    <3> QED
      BY <3>1, <3>3, AccountedType
  <2>3. ASSUME NEW x \in Direction \ {d} PROVE Accounted(x)' = Accounted(x)
    BY <1>1, <1>2, <1>3, <2>1, <2>3 DEF Accounted
  <2> QED
    BY <1>3, <2>2, <2>3
<1>4. CASE /\ egress' = [egress EXCEPT ![d] = Append(@, Head(raw[d]))]
           /\ UNCHANGED <<sent, txFailures>>
  <2>1. /\ egress'[d] = Append(egress[d], Head(raw[d]))
        /\ \A x \in Direction \ {d} : egress'[x] = egress[x]
    BY <1>4 DEF TypeOK, QueueTypeOK
  <2>2. Len(egress'[d]) = Len(egress[d]) + 1
    BY <1>2, <2>1, SequenceFacts DEF TypeOK, QueueTypeOK
  <2>3. Accounted(d)' = Accounted(d)
    <3>1. PICK a \in Int, b \in Int, c \in Int : a = 0 /\ b = -1 /\ c = 1
      OBVIOUS
    <3>2. sent'[d] = sent[d] + a /\ Len(raw'[d]) = Len(raw[d]) + b /\ Len(egress'[d]) = Len(egress[d]) + c
      BY <3>1, <1>2, <1>4, <2>1, <2>2, AccountedType
    <3>3. Accounted(d)' = Accounted(d) + (a + b + c)
      BY <1>1, <3>2, AccountedStep
    <3> QED
      BY <3>1, <3>3, AccountedType
  <2>4. ASSUME NEW x \in Direction \ {d} PROVE Accounted(x)' = Accounted(x)
    BY <1>1, <1>2, <1>4, <2>1, <2>4 DEF Accounted
  <2> QED
    BY <1>4, <2>3, <2>4
<1> QED
  BY <1>1, <1>3, <1>4, AccountedType, CapacityAssumption
  DEF ForwardPhysical, EnqueuePrepared, RecordSent

LEMMA AcceptAddsOne ==
  ASSUME TypeOK, NEW d \in Direction, IngressAccept(d)
  PROVE  /\ arrived' = arrived + 1 /\ UNCHANGED txFailures
         /\ Accounted(d)' = Accounted(d) + 1
         /\ \A x \in Direction \ {d} : Accounted(x)' = Accounted(x)
<1>1. /\ raw' = [raw EXCEPT ![d] = Append(@, arrived + 1)]
      /\ arrived' = arrived + 1
      /\ UNCHANGED <<egress, sent, purged, txFailures>>
  BY DEF IngressAccept
<1>2. arrived + 1 \in FrameNumbers
  BY ModelAssumption DEF IngressAccept, TypeOK, HistoryTypeOK, FrameNumbers
<1>3. Len(raw'[d]) = Len(raw[d]) + 1 /\ \A x \in Direction \ {d} : raw'[x] = raw[x]
  <2>1. \A e \in FrameNumbers : Len(Append(raw[d], e)) = Len(raw[d]) + 1
    BY SequenceFacts DEF TypeOK, QueueTypeOK
  <2> QED
    BY <1>1, <1>2, <2>1 DEF TypeOK, QueueTypeOK
<1>4. Accounted(d)' = Accounted(d) + 1
  <2>1. PICK a \in Int, b \in Int, c \in Int : a = 0 /\ b = 1 /\ c = 0
    OBVIOUS
  <2>2. sent'[d] = sent[d] + a /\ Len(raw'[d]) = Len(raw[d]) + b /\ Len(egress'[d]) = Len(egress[d]) + c
    BY <2>1, <1>1, <1>3, AccountedType
  <2>3. Accounted(d)' = Accounted(d) + (a + b + c)
    BY <1>1, <2>2, AccountedStep, ZenonT(60)
  <2> QED
    BY <2>1, <2>3, AccountedType
<1>5. ASSUME NEW x \in Direction \ {d} PROVE Accounted(x)' = Accounted(x)
  BY <1>1, <1>3, <1>5 DEF Accounted
<1> QED
  BY <1>1, <1>4, <1>5

LEMMA PurgeKeepsAccount ==
  ASSUME TypeOK, NEW changed \in SUBSET Direction, Health(changed)
  PROVE  \A d \in Direction : Accounted(d)' = Accounted(d)
<1> SUFFICES ASSUME NEW d \in Direction PROVE Accounted(d)' = Accounted(d)
  OBVIOUS
<1>1. Len(<<>>) = 0
  OBVIOUS
<1>2. CASE d \in changed
  <2>1. /\ raw'[d] = <<>> /\ egress'[d] = <<>> /\ sent'[d] = sent[d]
        /\ purged'[d] = purged[d] + Len(raw[d]) + Len(egress[d])
    BY <1>2 DEF Health, PurgeDirections
  <2> QED
    <3>1. Len(raw'[d]) = 0 /\ Len(egress'[d]) = 0
      BY <1>1, <2>1
    <3>2. Accounted(d)' = sent[d] + (purged[d] + Len(raw[d]) + Len(egress[d])) + 0 + 0
      BY <2>1, <3>1 DEF Accounted
    <3>3. \A s, p, r, e \in Nat : s + (p + r + e) + 0 + 0 = s + p + r + e
      OBVIOUS
    <3> QED
      BY <3>2, <3>3, AccountedType, SMTT(30) DEF Accounted
<1>3. CASE d \notin changed
  BY <1>3 DEF Health, PurgeDirections, Accounted
<1> QED
  BY <1>2, <1>3

LEMMA ConservationNext == TypeOK /\ Conservation /\ [Next]_vars => Conservation'
<1> SUFFICES ASSUME TypeOK, Conservation, [Next]_vars PROVE Conservation'
  OBVIOUS
<1>2. ASSUME UNCHANGED <<arrived, txFailures>>, \A d \in Direction : Accounted(d)' = Accounted(d)
      PROVE  Conservation'
  BY <1>2 DEF Direction, Conservation
<1>3. ASSUME UNCHANGED <<raw, egress, sent, purged, arrived, txFailures>>
      PROVE  Conservation'
  BY <1>3 DEF Accounted, Conservation
<1>4. ASSUME NEW d \in Direction, FlushTurn(d)
      PROVE  Conservation'
  <2>1. CASE FlushSend(d)
    BY <1>2, <2>1, FlushKeepsAccount DEF FlushSend
  <2> QED
    BY <1>3, <1>4, <2>1 DEF FlushTurn, FlushSkip, FlushBusy, queueVars, history
<1>5. ASSUME NEW d \in Direction, RawTurn(d)
      PROVE  Conservation'
  <2>1. CASE RawForward(d)
    BY <1>2, <2>1, ForwardKeepsAccount DEF RawForward
  <2> QED
    BY <1>3, <1>5, <2>1 DEF RawTurn, RawSkip, RawFullStall, queueVars, history
<1>6. ASSUME NEW d \in Direction, IngressTurn(d)
      PROVE  Conservation'
  <2>1. CASE IngressAccept(d)
    <3>1. /\ Accounted("A_TO_B") \in Nat /\ Accounted("B_TO_A") \in Nat /\ arrived \in Nat
      BY AccountedType DEF Direction
    <3>2. Accounted("A_TO_B")' + Accounted("B_TO_A")' = Accounted("A_TO_B") + Accounted("B_TO_A") + 1
      BY <2>1, <3>1, AcceptAddsOne DEF Direction
    <3> QED
      BY <2>1, <3>2, AcceptAddsOne DEF Conservation
  <2> QED
    BY <1>3, <1>6, <2>1 DEF IngressTurn, IngressNone, IngressDrop, queueVars, history
<1>7. ASSUME NEW changed \in SUBSET Direction, Health(changed)
      PROVE  Conservation'
  BY <1>2, <1>7, PurgeKeepsAccount DEF Health
<1>8. ASSUME NEW d \in Direction, ReplayTransmit(d)
      PROVE  Conservation'
  BY <1>3, <1>8 DEF ReplayTransmit, queueVars
<1>9. CASE ReplayDone \/ SetWritesAllowed \/ UNCHANGED vars
  BY <1>3, <1>9 DEF ReplayDone, SetWritesAllowed, queueVars, history, vars
<1> QED
  BY <1>4, <1>5, <1>6, <1>7, <1>8, <1>9 DEF Next, CanLoop

LEMMA ConservationInit == Init => Conservation
<1>1. Len(<<>>) = 0
  OBVIOUS
<1>2. Init => \A d \in Direction : Accounted(d) = 0
  BY <1>1 DEF Init, Accounted
<1> QED
  BY <1>2 DEF Init, Conservation, Direction

(* Frames that were accepted are sent, purged or waiting: none is lost or     *)
(* duplicated, and forwarding never finds the egress ring full.               *)
THEOREM GatewayConservation == Spec => []Conservation
  BY ConservationInit, ConservationNext, GatewayTypeOK, PTL DEF Spec
-----------------------------------------------------------------------------
(* Preparation: a frame not yet forwarded waits in one place of one raw ring. *)

PreparedInv ==
  /\ \A n \in FrameNumbers : prepared[n] <= 1 /\ (n > arrived => prepared[n] = 0)
  /\ \A d \in Direction : \A i \in DOMAIN raw[d] :
       prepared[raw[d][i]] = 0 /\ raw[d][i] <= arrived
  /\ \A d \in Direction : \A i \in DOMAIN egress[d] : prepared[egress[d][i]] = 1
  /\ \A d, e \in Direction : \A i \in DOMAIN raw[d], j \in DOMAIN raw[e] :
       raw[d][i] = raw[e][j] => d = e /\ i = j

LEMMA ElementsAfterTail ==
  ASSUME NEW S, NEW s \in Seq(S), s # <<>>, NEW i \in DOMAIN Tail(s)
  PROVE  /\ i + 1 \in DOMAIN s /\ Tail(s)[i] = s[i + 1] /\ 1 \in DOMAIN s /\ Head(s) = s[1]
         /\ i \in Nat /\ i + 1 # 1
<1>1. Tail(s) \in Seq(S) /\ Len(Tail(s)) = Len(s) - 1 /\ Len(s) \in Nat
  BY SequenceFacts
<1>2. DOMAIN s = 1 .. Len(s) /\ DOMAIN Tail(s) = 1 .. Len(Tail(s))
  BY <1>1
<1>3. Tail(s)[i] = s[i + 1]
  BY <1>1, <1>2
<1> QED
  BY <1>1, <1>2, <1>3

LEMMA ElementsAfterAppend ==
  ASSUME NEW S, NEW s \in Seq(S), NEW x \in S, NEW i \in DOMAIN Append(s, x)
  PROVE  \/ i \in DOMAIN s /\ Append(s, x)[i] = s[i]
         \/ i = Len(s) + 1 /\ Append(s, x)[i] = x
<1>1. Append(s, x) \in Seq(S) /\ Len(Append(s, x)) = Len(s) + 1 /\ Len(s) \in Nat
  BY SequenceFacts
<1>2. DOMAIN s = 1 .. Len(s) /\ DOMAIN Append(s, x) = 1 .. Len(s) + 1
  BY <1>1
<1>3. i # Len(s) + 1 => i \in DOMAIN s /\ Append(s, x)[i] = s[i]
  BY <1>1, <1>2
<1>4. Append(s, x)[Len(s) + 1] = x
  BY <1>1
<1> QED
  BY <1>3, <1>4

LEMMA FlushKeepsPrepared ==
  ASSUME TypeOK, PreparedInv, NEW d \in Direction, FlushSend(d)
  PROVE  PreparedInv'
<1>1. /\ egress[d] # <<>> /\ egress \in [Direction -> Seq(FrameNumbers)]
      /\ egress' = [egress EXCEPT ![d] = Tail(@)]
      /\ UNCHANGED <<raw, prepared, arrived>>
  BY DEF FlushSend, EgressPending, TypeOK, QueueTypeOK
<1>2. \A x \in Direction : \A i \in DOMAIN egress'[x] : prepared[egress'[x][i]] = 1
  <2> SUFFICES ASSUME NEW x \in Direction, NEW i \in DOMAIN egress'[x]
               PROVE  prepared[egress'[x][i]] = 1
    OBVIOUS
  <2>1. CASE x # d
    BY <1>1, <2>1 DEF PreparedInv
  <2>2. CASE x = d
    <3>1. i + 1 \in DOMAIN egress[d] /\ egress'[x][i] = egress[d][i + 1]
      BY <1>1, <2>2, ElementsAfterTail
    <3> QED
      BY <3>1 DEF PreparedInv
  <2> QED
    BY <2>1, <2>2
<1> QED
  BY <1>1, <1>2 DEF PreparedInv

LEMMA ForwardKeepsPrepared ==
  ASSUME TypeOK, PreparedInv, NEW d \in Direction, RawForward(d)
  PROVE  PreparedInv'
<1> DEFINE n == Head(raw[d])
<1>1. /\ raw[d] # <<>> /\ raw \in [Direction -> Seq(FrameNumbers)]
      /\ egress \in [Direction -> Seq(FrameNumbers)]
      /\ raw' = [raw EXCEPT ![d] = Tail(@)]
      /\ prepared \in [FrameNumbers -> Nat]
      /\ prepared' = [prepared EXCEPT ![n] = @ + 1]
      /\ arrived' = arrived
      /\ egress' = egress \/ egress' = [egress EXCEPT ![d] = Append(@, n)]
  BY DEF RawForward, RawPending, ForwardPhysical, EnqueuePrepared, TypeOK, QueueTypeOK, HistoryTypeOK
<1>2. n \in FrameNumbers /\ 1 \in DOMAIN raw[d] /\ n = raw[d][1]
  <2>1. Len(raw[d]) \in Nat /\ Len(raw[d]) > 0 /\ n \in FrameNumbers
    BY <1>1, SequenceFacts
  <2> QED
    BY <1>1, <2>1
<1>3. prepared[n] = 0 /\ n <= arrived
  BY <1>2 DEF PreparedInv
<1>4. prepared'[n] = 1 /\ \A m \in FrameNumbers : m # n => prepared'[m] = prepared[m]
  BY <1>1, <1>2, <1>3
<1> HIDE DEF n
<1>5. \A m \in FrameNumbers : prepared'[m] <= 1 /\ (m > arrived' => prepared'[m] = 0)
  <2> SUFFICES ASSUME NEW m \in FrameNumbers
               PROVE  prepared'[m] <= 1 /\ (m > arrived' => prepared'[m] = 0)
    OBVIOUS
  <2>1. arrived \in Nat /\ m \in Nat /\ n \in Nat
    BY <1>2, ModelAssumption DEF TypeOK, HistoryTypeOK, FrameNumbers
  <2>2. CASE m = n
    BY <1>1, <1>3, <1>4, <2>1, <2>2
  <2>3. CASE m # n
    BY <1>1, <1>4, <2>3 DEF PreparedInv
  <2> QED
    BY <2>2, <2>3
<1>6. ASSUME NEW x \in Direction, NEW i \in DOMAIN raw'[x]
      PROVE  \E k \in DOMAIN raw[x] :
               /\ raw'[x][i] = raw[x][k] /\ raw[x][k] # n
               /\ k = IF x = d THEN i + 1 ELSE i
  <2>1. CASE x # d
    BY <1>1, <1>2, <1>6, <2>1 DEF PreparedInv
  <2>2. CASE x = d
    <3>1. i + 1 \in DOMAIN raw[d] /\ raw'[x][i] = raw[d][i + 1] /\ i + 1 # 1
      BY <1>1, <1>6, <2>2, ElementsAfterTail
    <3>2. raw[d][i + 1] # n
      BY <1>2, <3>1 DEF PreparedInv
    <3> QED
      BY <2>2, <3>1, <3>2
  <2> QED
    BY <2>1, <2>2
<1>7. ASSUME NEW x \in Direction, NEW i \in DOMAIN raw'[x]
      PROVE  prepared'[raw'[x][i]] = 0 /\ raw'[x][i] <= arrived'
  <2>1. PICK k \in DOMAIN raw[x] : raw'[x][i] = raw[x][k] /\ raw[x][k] # n
    BY <1>6, <1>7
  <2>2. raw[x][k] \in FrameNumbers
    BY <1>1
  <2> QED
    BY <1>1, <1>4, <2>1, <2>2 DEF PreparedInv
<1>8. ASSUME NEW x \in Direction, NEW y \in Direction, NEW i \in DOMAIN raw'[x],
             NEW j \in DOMAIN raw'[y], raw'[x][i] = raw'[y][j]
      PROVE  x = y /\ i = j
  <2>1. PICK k \in DOMAIN raw[x] : raw'[x][i] = raw[x][k] /\ k = IF x = d THEN i + 1 ELSE i
    BY <1>6, <1>8
  <2>2. PICK l \in DOMAIN raw[y] : raw'[y][j] = raw[y][l] /\ l = IF y = d THEN j + 1 ELSE j
    BY <1>6, <1>8
  <2>3. x = y /\ k = l
    <3>1. raw[x][k] = raw[y][l]
      BY <1>8, <2>1, <2>2
    <3> QED
      BY <3>1 DEF PreparedInv
  <2>4. i \in Nat /\ j \in Nat
    <3>1. raw' \in [Direction -> Seq(FrameNumbers)]
      BY <1>1, TakeOldest
    <3> QED
      BY <1>8, <3>1, SequenceFacts
  <2> QED
    BY <2>1, <2>2, <2>3, <2>4
<1>9. ASSUME NEW x \in Direction, NEW i \in DOMAIN egress'[x]
      PROVE  prepared'[egress'[x][i]] = 1
  <2>1. ASSUME i \in DOMAIN egress[x], egress'[x][i] = egress[x][i]
        PROVE  prepared'[egress'[x][i]] = 1
    <3>1. egress[x][i] \in FrameNumbers /\ prepared[egress[x][i]] = 1
      BY <1>1, <1>9, <2>1 DEF PreparedInv
    <3> QED
      BY <1>3, <1>4, <2>1, <3>1
  <2>2. CASE x = d /\ egress' = [egress EXCEPT ![d] = Append(@, n)]
    <3>1. egress'[x] = Append(egress[x], n)
      BY <1>1, <2>2
    <3>2. \/ i \in DOMAIN egress[x] /\ egress'[x][i] = egress[x][i]
          \/ egress'[x][i] = n
      BY <1>1, <1>2, <1>9, <3>1, ElementsAfterAppend, SMTT(30)
    <3> QED
      BY <1>4, <2>1, <3>2
  <2>3. CASE x # d \/ egress' = egress
    <3>1. egress'[x] = egress[x]
      BY <1>1, <2>3
    <3> QED
      BY <1>9, <2>1, <3>1
  <2> QED
    BY <1>1, <2>2, <2>3
<1> QED
  BY <1>5, <1>7, <1>8, <1>9 DEF PreparedInv

LEMMA AcceptKeepsPrepared ==
  ASSUME TypeOK, PreparedInv, NEW d \in Direction, IngressAccept(d)
  PROVE  PreparedInv'
<1> DEFINE n == arrived + 1
<1>1. /\ raw \in [Direction -> Seq(FrameNumbers)]
      /\ raw' = [raw EXCEPT ![d] = Append(@, n)]
      /\ arrived \in Nat /\ arrived < MaxFrames /\ arrived' = n
      /\ UNCHANGED <<egress, prepared>>
  BY ModelAssumption DEF IngressAccept, TypeOK, QueueTypeOK, HistoryTypeOK
<1>2. n \in FrameNumbers /\ n > arrived /\ n \in Nat
  BY <1>1, ModelAssumption DEF FrameNumbers
<1>3. prepared[n] = 0
  BY <1>2 DEF PreparedInv
<1>4. ASSUME NEW x \in Direction, NEW i \in DOMAIN raw'[x]
      PROVE  \/ i \in DOMAIN raw[x] /\ raw'[x][i] = raw[x][i] /\ raw[x][i] # n
             \/ x = d /\ i = Len(raw[d]) + 1 /\ raw'[x][i] = n
  <2>1. \A k \in DOMAIN raw[x] : raw[x][k] # n
    <3>1. \A k \in DOMAIN raw[x] : raw[x][k] \in Nat /\ raw[x][k] <= arrived
      BY <1>1, ModelAssumption DEF PreparedInv, FrameNumbers
    <3> QED
      BY <1>1, <3>1
  <2>2. CASE x # d
    BY <1>1, <1>4, <2>1, <2>2
  <2>3. CASE x = d
    <3>1. raw'[x] = Append(raw[x], n)
      BY <1>1, <2>3
    <3>2. \/ i \in DOMAIN raw[x] /\ raw'[x][i] = raw[x][i]
          \/ i = Len(raw[x]) + 1 /\ raw'[x][i] = n
      BY <1>1, <1>2, <1>4, <3>1, ElementsAfterAppend
    <3> QED
      BY <2>1, <2>3, <3>2
  <2> QED
    BY <2>2, <2>3
<1>5. \A m \in FrameNumbers : prepared'[m] <= 1 /\ (m > arrived' => prepared'[m] = 0)
  <2> SUFFICES ASSUME NEW m \in FrameNumbers
               PROVE  prepared[m] <= 1 /\ (m > n => prepared[m] = 0)
    BY <1>1
  <2>1. m \in Nat
    BY ModelAssumption DEF FrameNumbers
  <2> QED
    BY <1>1, <2>1 DEF PreparedInv
<1> HIDE DEF n
<1>6. \A x \in Direction : \A i \in DOMAIN raw'[x] :
        prepared'[raw'[x][i]] = 0 /\ raw'[x][i] <= arrived'
  <2> SUFFICES ASSUME NEW x \in Direction, NEW i \in DOMAIN raw'[x]
               PROVE  prepared[raw'[x][i]] = 0 /\ raw'[x][i] <= n
    BY <1>1
  <2>1. CASE raw'[x][i] = n
    BY <1>2, <1>3, <2>1
  <2>2. CASE i \in DOMAIN raw[x] /\ raw'[x][i] = raw[x][i]
    <3>1. prepared[raw[x][i]] = 0 /\ raw[x][i] <= arrived /\ raw[x][i] \in FrameNumbers
      BY <1>1, <2>2 DEF PreparedInv
    <3>2. raw[x][i] \in Nat
      BY <3>1, ModelAssumption DEF FrameNumbers
    <3> QED
      BY <1>1, <1>2, <2>2, <3>1, <3>2
  <2> QED
    BY <1>4, <2>1, <2>2
<1>7. ASSUME NEW x \in Direction, NEW y \in Direction, NEW i \in DOMAIN raw'[x],
             NEW j \in DOMAIN raw'[y], raw'[x][i] = raw'[y][j]
      PROVE  x = y /\ i = j
  <2>1. \/ i \in DOMAIN raw[x] /\ raw'[x][i] = raw[x][i] /\ raw[x][i] # n
        \/ x = d /\ i = Len(raw[d]) + 1 /\ raw'[x][i] = n
    BY <1>4, <1>7
  <2>2. \/ j \in DOMAIN raw[y] /\ raw'[y][j] = raw[y][j] /\ raw[y][j] # n
        \/ y = d /\ j = Len(raw[d]) + 1 /\ raw'[y][j] = n
    BY <1>4, <1>7
  <2> QED
    BY <1>7, <2>1, <2>2 DEF PreparedInv
<1> QED
  BY <1>1, <1>5, <1>6, <1>7 DEF PreparedInv

LEMMA PurgeKeepsPrepared ==
  ASSUME TypeOK, PreparedInv, NEW changed \in SUBSET Direction, Health(changed)
  PROVE  PreparedInv'
<1>1. /\ UNCHANGED <<arrived, prepared>>
      /\ \A x \in Direction : /\ raw'[x] = IF x \in changed THEN <<>> ELSE raw[x]
                              /\ egress'[x] = IF x \in changed THEN <<>> ELSE egress[x]
  BY DEF Health, PurgeDirections
<1>2. DOMAIN <<>> = {}
  OBVIOUS
<1>3. \A x \in Direction : /\ \A i \in DOMAIN raw'[x] : raw'[x] = raw[x]
                           /\ \A i \in DOMAIN egress'[x] : egress'[x] = egress[x]
  BY <1>1, <1>2
<1> QED
  BY <1>1, <1>3 DEF PreparedInv

LEMMA PreparedNext == TypeOK /\ PreparedInv /\ [Next]_vars => PreparedInv'
<1> SUFFICES ASSUME TypeOK, PreparedInv, [Next]_vars PROVE PreparedInv'
  OBVIOUS
<1>1. ASSUME UNCHANGED <<raw, egress, prepared, arrived>>
      PROVE  PreparedInv'
  BY <1>1 DEF PreparedInv
<1>2. ASSUME NEW d \in Direction, FlushTurn(d)
      PROVE  PreparedInv'
  BY <1>1, <1>2, FlushKeepsPrepared DEF FlushTurn, FlushSkip, FlushBusy, queueVars, history
<1>3. ASSUME NEW d \in Direction, RawTurn(d)
      PROVE  PreparedInv'
  BY <1>1, <1>3, ForwardKeepsPrepared DEF RawTurn, RawSkip, RawFullStall, queueVars, history
<1>4. ASSUME NEW d \in Direction, IngressTurn(d)
      PROVE  PreparedInv'
  BY <1>1, <1>4, AcceptKeepsPrepared DEF IngressTurn, IngressNone, IngressDrop, queueVars, history
<1>5. ASSUME NEW d \in Direction, ReplayTransmit(d)
      PROVE  PreparedInv'
  BY <1>1, <1>5 DEF ReplayTransmit, queueVars
<1>6. CASE ReplayDone \/ SetWritesAllowed \/ UNCHANGED vars
  BY <1>1, <1>6 DEF ReplayDone, SetWritesAllowed, queueVars, history, vars
<1> QED
  BY <1>2, <1>3, <1>4, <1>5, <1>6, PurgeKeepsPrepared DEF Next, CanLoop

LEMMA PreparedInit == Init => PreparedInv
<1> SUFFICES ASSUME Init PROVE PreparedInv
  OBVIOUS
<1>1. \A d \in Direction : raw[d] = <<>> /\ egress[d] = <<>>
  BY DEF Init
<1>2. DOMAIN <<>> = {}
  OBVIOUS
<1>3. \A n \in FrameNumbers : prepared[n] = 0
  BY DEF Init, FrameNumbers
<1> QED
  BY <1>1, <1>2, <1>3 DEF PreparedInv

(* Rules are applied to a frame once: not while it waits in a raw ring, and    *)
(* not again when a busy mailbox makes it wait as a prepared frame.            *)
THEOREM GatewayPreparesOnce == Spec => []PreparedOnce
<1>1. PreparedInv => PreparedOnce
  BY DEF PreparedInv, PreparedOnce
<1> QED
  BY <1>1, PreparedInit, PreparedNext, GatewayTypeOK, PTL DEF Spec
=============================================================================
