------------------------ MODULE DiagnosticTransportProofs ------------------------
(***************************************************************************)
(* Proofs about DiagnosticTransport, for every clock, delay and bound its   *)
(* assumptions allow.  Every function from a job to a job keeps the job     *)
(* well formed and its identity (Step), and in the second half keeps it in  *)
(* order: what the phase says of requests sent and answered, of the channel *)
(* and of the goodbye is so (Follows).  The transitions follow from that.   *)
(***************************************************************************)
EXTENDS DiagnosticTransport, TLAPS

Errors ==
  {"NONE", "TX_FAILED", "TIMEOUT", "PROTOCOL", "EXTERNAL_TESTER_COLLISION", "CANCELLED", "ABORTED"}

DisconnectPhases == {"TP20_SEND_DISCONNECT", "TP20_WAIT_DISCONNECT"}

(* A job of the right type that knows its outcome when it needs one, and what *)
(* to do after an acknowledgement while one is staged.                        *)
GoodJob(j) ==
  /\ j \in Job
  /\ j.tx = "DISCONNECT" \/ j.phase \in DisconnectPhases => j.terminal # NoIntent
  /\ j.active /\ Finished(j) => j.outcome.state \in Outcomes
  /\ j.tx = "ACK" => j.afterAck # "NONE"

(* k is the same job as j, further on. *)
Step(j, k) ==
  /\ GoodJob(k)
  /\ k.id = j.id /\ k.active = j.active /\ k.request = j.request
  /\ k.completed >= j.completed

-----------------------------------------------------------------------------
(* Times stay on the clock. *)
LEMMA AfterInClock ==
  ASSUME NEW t \in Clock, NEW delay \in Nat
  PROVE  After(t, delay) \in Clock
<1>1. ClockModulus \in Nat /\ ClockModulus > 0
  BY ClockAssumption
<1>2. PICK m \in Nat : m = ClockModulus /\ m > 0
  BY <1>1
<1>3. PICK s \in Nat : s = t + delay
  BY <1>2 DEF Clock
<1>4. s % m \in 0 .. (m - 1)
  BY <1>2, <1>3
<1> QED
  BY <1>2, <1>3, <1>4 DEF After, Clock

(* The delays are natural numbers and time 0 is on the clock. *)
LEMMA Delays ==
  /\ 0 \in Clock
  /\ Timeout \in Nat /\ RepeatInterval \in Nat /\ RetryDelay \in Nat
  /\ DisconnectWait \in Nat /\ TestInterval \in Nat /\ TestWait \in Nat
<1>1. PICK h \in Nat : h = HalfClock /\ ClockModulus = 2 * h
  BY ClockAssumption
<1>2. PICK m \in Nat : m = ClockModulus
  BY ClockAssumption
<1>3. h > 1
  BY <1>1, ClockAssumption
<1>4. 0 \in Clock
  BY <1>1, <1>2, <1>3 DEF Clock
<1>5. \A d \in {Timeout, RepeatInterval, RetryDelay, DisconnectWait, TestInterval, TestWait} :
        d \in 1 .. (h - 1)
  BY <1>1, ClockAssumption
<1> QED
  BY <1>4, <1>5

-----------------------------------------------------------------------------
(* The functions from job to job. *)

LEMMA StepRefl ==
  ASSUME NEW j, GoodJob(j)
  PROVE  Step(j, j)
BY DEF Step, GoodJob, Job

LEMMA StepTrans ==
  ASSUME NEW j, NEW k, NEW l, GoodJob(j), Step(j, k), Step(k, l)
  PROVE  Step(j, l)
BY DEF Step, GoodJob, Job

LEMMA StageTxJob ==
  ASSUME NEW j \in Job, NEW action \in TxActions, NEW sending \in Phases \ {"NONE"},
         action = "DISCONNECT" \/ sending \in DisconnectPhases => j.terminal # NoIntent,
         action = "ACK" => j.afterAck # "NONE"
  PROVE  /\ Step(j, StageTx(j, action, sending))
         /\ ~Finished(StageTx(j, action, sending))
<1> DEFINE k == StageTx(j, action, sending)
<1>1. 0 \in Clock /\ 0 \in 0 .. (MaxAttempts - 1)
  BY Delays, CountAssumption
<1>2. k \in Job
  BY <1>1 DEF Job, StageTx
<1>3. /\ k.tx = action /\ k.phase = sending /\ k.terminal = j.terminal /\ k.afterAck = j.afterAck
      /\ k.id = j.id /\ k.active = j.active /\ k.request = j.request
      /\ k.completed = j.completed /\ k.completed \in Nat
  BY DEF Job, StageTx
<1> HIDE DEF k
<1> QED
  BY <1>2, <1>3 DEF Step, GoodJob, Finished, k

LEMMA StageTxStep ==
  ASSUME NEW j, GoodJob(j), NEW action \in TxActions, NEW sending \in Phases \ {"NONE"},
         action = "DISCONNECT" \/ sending \in DisconnectPhases => j.terminal # NoIntent,
         action = "ACK" => j.afterAck # "NONE"
  PROVE  /\ Step(j, StageTx(j, action, sending))
         /\ ~Finished(StageTx(j, action, sending))
<1>1. j \in Job
  BY DEF GoodJob
<1> QED
  BY <1>1, StageTxJob

LEMMA ClearPendingTxStep ==
  ASSUME NEW j, GoodJob(j)
  PROVE  /\ Step(j, ClearPendingTx(j))
         /\ ClearPendingTx(j).phase = j.phase /\ ClearPendingTx(j).terminal = j.terminal
         /\ ClearPendingTx(j).afterAck = j.afterAck /\ ClearPendingTx(j).tx = "NONE"
<1> DEFINE k == ClearPendingTx(j)
<1>1. 0 \in Clock /\ 0 \in 0 .. (MaxAttempts - 1) /\ "NONE" \in TxActions
  BY Delays, CountAssumption DEF TxActions
<1>2. j \in Job
  BY DEF GoodJob
<1>3. k \in Job
  BY <1>1, <1>2 DEF Job, ClearPendingTx
<1>4. /\ k.tx = "NONE" /\ k.phase = j.phase /\ k.terminal = j.terminal /\ k.afterAck = j.afterAck
      /\ k.outcome = j.outcome
      /\ k.id = j.id /\ k.active = j.active /\ k.request = j.request
      /\ k.completed = j.completed /\ k.completed \in Nat
  BY <1>2 DEF Job, ClearPendingTx
<1> HIDE DEF k
<1> QED
  BY <1>3, <1>4 DEF Step, GoodJob, Finished, k

LEMMA FinishStep ==
  ASSUME NEW j, GoodJob(j), NEW state \in Outcomes, NEW error \in Errors
  PROVE  /\ Step(j, Finish(j, state, error))
         /\ Finished(Finish(j, state, error))
<1> DEFINE c == ClearPendingTx(j)
           k == Finish(j, state, error)
           ending == [state |-> state, error |-> error]
<1>1. ending \in Ending /\ ending.state \in Outcomes /\ "NONE" \in Phases /\ "NONE" \notin DisconnectPhases
  BY DEF Ending, Errors, Phases, DisconnectPhases
<1>2. Step(j, c) /\ c.tx = "NONE" /\ c \in Job
  BY ClearPendingTxStep DEF Step, GoodJob
<1>3. k = [c EXCEPT !.phase = "NONE", !.outcome = ending]
  BY DEF Finish
<1> HIDE DEF c, k, ending
<1>4. k \in Job
  BY <1>1, <1>2, <1>3 DEF Job
<1>5. /\ k.tx = "NONE" /\ k.phase = "NONE" /\ k.outcome = ending
      /\ k.id = c.id /\ k.active = c.active /\ k.request = c.request
      /\ k.completed = c.completed
  BY <1>2, <1>3 DEF Job
<1> QED
  BY <1>1, <1>2, <1>4, <1>5 DEF Step, GoodJob, Finished, k

LEMMA StageDisconnectStep ==
  ASSUME NEW j, GoodJob(j), NEW state \in Outcomes, NEW error \in Errors
  PROVE  Step(j, StageDisconnect(j, state, error))
<1> DEFINE ending == [state |-> state, error |-> error]
           k == [j EXCEPT !.terminal = ending]
<1>1. ending \in Ending /\ ending # NoIntent
  BY DEF Ending, Errors, NoIntent, Outcomes
<1>2. j \in Job
  BY DEF GoodJob
<1> HIDE DEF ending
<1>3. k \in Job
  BY <1>1, <1>2 DEF Job
<1>4. /\ k.tx = j.tx /\ k.phase = j.phase /\ k.terminal = ending /\ k.afterAck = j.afterAck
      /\ k.outcome = j.outcome
      /\ k.id = j.id /\ k.active = j.active /\ k.request = j.request
      /\ k.completed = j.completed /\ k.completed \in Nat
  BY <1>2 DEF Job
<1> HIDE DEF k
<1>5. GoodJob(k) /\ Step(j, k)
  BY <1>1, <1>3, <1>4 DEF Step, GoodJob, Finished
<1>6. "DISCONNECT" \in TxActions /\ "TP20_SEND_DISCONNECT" \in Phases \ {"NONE"}
  BY DEF TxActions, Phases
<1>7. Step(k, StageTx(k, "DISCONNECT", "TP20_SEND_DISCONNECT"))
  BY <1>1, <1>4, <1>5, <1>6, StageTxStep
<1>8. StageDisconnect(j, state, error) = StageTx(k, "DISCONNECT", "TP20_SEND_DISCONNECT")
  BY DEF StageDisconnect, ending, k
<1> QED
  BY <1>5, <1>7, <1>8, StepTrans

LEMMA RequestFinishStep ==
  ASSUME NEW j, GoodJob(j), NEW state \in Outcomes, NEW error \in Errors
  PROVE  Step(j, RequestFinish(j, state, error))
BY FinishStep, StageDisconnectStep DEF RequestFinish

LEMMA FailStep ==
  ASSUME NEW j, GoodJob(j), NEW error \in Errors
  PROVE  Step(j, Fail(j, error))
BY RequestFinishStep DEF Fail, Outcomes

LEMMA FinalizeStep ==
  ASSUME NEW j, GoodJob(j), j.terminal # NoIntent
  PROVE  /\ Step(j, FinalizeTerminalIntent(j))
         /\ Finished(FinalizeTerminalIntent(j))
<1>1. j.terminal \in Ending
  BY DEF GoodJob, Job
<1>2. j.terminal.state \in Outcomes /\ j.terminal.error \in Errors
  BY <1>1 DEF Ending, Errors
<1> QED
  BY <1>2, FinishStep DEF FinalizeTerminalIntent

(* A change of the fields that say how far an exchange is. *)
LEMMA MoveStep ==
  ASSUME NEW j, GoodJob(j), NEW k \in Job,
         k.id = j.id, k.active = j.active, k.request = j.request, k.completed >= j.completed,
         k.tx = j.tx, k.terminal = j.terminal, j.tx = "ACK" => k.afterAck # "NONE",
         k.phase # "NONE" \/ (k.phase = j.phase /\ k.outcome = j.outcome),
         k.phase \in DisconnectPhases => j.terminal # NoIntent
  PROVE  Step(j, k)
BY DEF Step, GoodJob, Finished

LEMMA StageKwpRequestStep ==
  ASSUME NEW j, GoodJob(j), NEW session \in BOOLEAN
  PROVE  Step(j, StageKwpRequest(j, session))
<1> DEFINE k == [j EXCEPT !.reply = "NONE"]
<1>1. j \in Job /\ j.completed \in Nat
  BY DEF GoodJob, Job
<1>2. k \in Job
  BY <1>1 DEF Job
<1>3. /\ k.tx = j.tx /\ k.phase = j.phase /\ k.terminal = j.terminal /\ k.afterAck = j.afterAck
      /\ k.outcome = j.outcome
      /\ k.id = j.id /\ k.active = j.active /\ k.request = j.request /\ k.completed = j.completed
  BY <1>1 DEF Job
<1> HIDE DEF k
<1>4. Step(j, k) /\ GoodJob(k)
  BY <1>1, <1>2, <1>3 DEF Step, GoodJob, Finished
<1>5. /\ "SESSION" \in TxActions /\ "TP20_SEND_SESSION" \in Phases \ {"NONE"}
      /\ "REQUEST" \in TxActions /\ "TP20_SEND_REQUEST" \in Phases \ {"NONE"}
      /\ "TP20_SEND_SESSION" \notin DisconnectPhases /\ "TP20_SEND_REQUEST" \notin DisconnectPhases
  BY DEF TxActions, Phases, DisconnectPhases
<1>6. /\ Step(k, StageTx(k, "SESSION", "TP20_SEND_SESSION"))
      /\ Step(k, StageTx(k, "REQUEST", "TP20_SEND_REQUEST"))
  BY <1>4, <1>5, StageTxStep
<1>7. StageKwpRequest(j, session) \in
        {StageTx(k, "SESSION", "TP20_SEND_SESSION"), StageTx(k, "REQUEST", "TP20_SEND_REQUEST")}
  BY DEF StageKwpRequest, k
<1> QED
  BY <1>4, <1>6, <1>7, StepTrans

LEMMA CompleteKwpRequestStep ==
  ASSUME NEW j, GoodJob(j), NEW t \in Clock
  PROVE  Step(j, CompleteKwpRequest(j, t))
<1> DEFINE k == [j EXCEPT !.completed = @ + 1]
           l == [j EXCEPT !.completed = @ + 1, !.phase = "TP20_WAIT_REPEAT",
                          !.repeatAt = After(t, RepeatInterval), !.due = After(t, TestInterval)]
<1>1. j \in Job /\ j.completed \in Nat
  BY DEF GoodJob, Job
<1>2. /\ After(t, RepeatInterval) \in Clock /\ After(t, TestInterval) \in Clock
      /\ "TP20_WAIT_REPEAT" \in Phases /\ "TP20_WAIT_REPEAT" \notin DisconnectPhases
  BY AfterInClock, Delays DEF Phases, DisconnectPhases
<1>3. k \in Job /\ l \in Job
  <2>1. PICK n \in Nat : n = j.completed + 1
    BY <1>1
  <2>2. k = [j EXCEPT !.completed = n]
    BY <2>1
  <2>3. l = [j EXCEPT !.completed = n, !.phase = "TP20_WAIT_REPEAT",
                      !.repeatAt = After(t, RepeatInterval), !.due = After(t, TestInterval)]
    BY <2>1
  <2>4. k \in Job
    <3> HIDE DEF k
    <3> QED  BY <1>1, <2>2 DEF Job
  <2>5. l \in Job
    <3> HIDE DEF l
    <3> QED  BY <1>1, <1>2, <2>3 DEF Job
  <2> QED
    BY <2>4, <2>5
<1>4. /\ k.tx = j.tx /\ k.phase = j.phase /\ k.terminal = j.terminal /\ k.afterAck = j.afterAck
      /\ k.outcome = j.outcome
      /\ k.id = j.id /\ k.active = j.active /\ k.request = j.request
      /\ k.completed = j.completed + 1
  BY <1>1 DEF Job
<1>5. /\ l.tx = j.tx /\ l.phase = "TP20_WAIT_REPEAT" /\ l.terminal = j.terminal
      /\ l.afterAck = j.afterAck
      /\ l.id = j.id /\ l.active = j.active /\ l.request = j.request
      /\ l.completed = j.completed + 1
  BY <1>1 DEF Job
<1>6. CompleteKwpRequest(j, t) \in {RequestFinish(k, "COMPLETE", "NONE"), l}
  BY DEF CompleteKwpRequest
<1> HIDE DEF k, l
<1>7. Step(j, k) /\ GoodJob(k)
  BY <1>1, <1>3, <1>4 DEF Step, GoodJob, Finished
<1>8. Step(k, RequestFinish(k, "COMPLETE", "NONE"))
  BY <1>7, RequestFinishStep DEF Outcomes, Errors
<1>9. Step(j, l)
  BY <1>1, <1>2, <1>3, <1>5 DEF Step, GoodJob, Finished
<1> QED
  BY <1>6, <1>7, <1>8, <1>9, StepTrans

(* The phase changes, and perhaps the time it waits for. *)
LEMMA PhaseStep ==
  ASSUME NEW j, GoodJob(j), NEW phase \in Phases \ {"NONE"}, NEW d \in Clock,
         phase \in DisconnectPhases => j.terminal # NoIntent
  PROVE  /\ Step(j, [j EXCEPT !.phase = phase])
         /\ Step(j, [j EXCEPT !.phase = phase, !.due = d])
         /\ Step(j, [j EXCEPT !.phase = phase, !.requests = @ + 1])
         /\ Step(j, [j EXCEPT !.phase = phase, !.farewell = TRUE, !.due = d])
         /\ Step(j, [j EXCEPT !.reply = "NONE", !.phase = phase])
<1> DEFINE k1 == [j EXCEPT !.phase = phase]
           k2 == [j EXCEPT !.phase = phase, !.due = d]
           k3 == [j EXCEPT !.phase = phase, !.requests = @ + 1]
           k4 == [j EXCEPT !.phase = phase, !.farewell = TRUE, !.due = d]
           k5 == [j EXCEPT !.reply = "NONE", !.phase = phase]
           Moved(k) ==
             /\ k.tx = j.tx /\ k.phase = phase /\ k.terminal = j.terminal /\ k.afterAck = j.afterAck
             /\ k.id = j.id /\ k.active = j.active /\ k.request = j.request
             /\ k.completed = j.completed
<1>1. j \in Job /\ j.completed \in Nat
  BY DEF GoodJob, Job
<1>2. k1 \in Job /\ k2 \in Job /\ k3 \in Job
  <2>1. k1 \in Job
    BY <1>1 DEF Job
  <2>2. k2 \in Job
    BY <1>1 DEF Job
  <2>3. PICK n \in Nat : n = j.requests + 1
    BY <1>1 DEF Job
  <2>4. k3 = [j EXCEPT !.phase = phase, !.requests = n]
    BY <2>3
  <2>5. k3 \in Job
    <3> HIDE DEF k3
    <3> QED  BY <1>1, <2>4 DEF Job
  <2> QED
    BY <2>1, <2>2, <2>5
<1>3. k4 \in Job /\ k5 \in Job
  BY <1>1 DEF Job
<1>4. Moved(k1) /\ Moved(k2) /\ Moved(k3) /\ Moved(k4) /\ Moved(k5)
  BY <1>1 DEF Job
<1> HIDE DEF k1, k2, k3, k4, k5
<1>5. \A k \in Job : Moved(k) => Step(j, k)
  BY <1>1 DEF Step, GoodJob, Finished
<1> HIDE DEF Moved
<1>6. Step(j, k1) /\ Step(j, k2) /\ Step(j, k3) /\ Step(j, k4) /\ Step(j, k5)
  BY <1>2, <1>3, <1>4, <1>5
<1> QED
  BY <1>6 DEF k1, k2, k3, k4, k5

LEMMA ContinueStep ==
  ASSUME NEW j, GoodJob(j), NEW outcome \in AfterAcks \ {"NONE"}, NEW t \in Clock
  PROVE  Step(j, Continue(j, outcome, t))
<1>1. /\ {"TP20_WAIT_SESSION_RESPONSE", "TP20_WAIT_REQUEST_RESPONSE"} \subseteq Phases \ {"NONE"}
      /\ "TP20_WAIT_SESSION_RESPONSE" \notin DisconnectPhases
      /\ "TP20_WAIT_REQUEST_RESPONSE" \notin DisconnectPhases
  BY SMTT(30) DEF Phases, DisconnectPhases
<1>2. /\ Step(j, [j EXCEPT !.phase = "TP20_WAIT_SESSION_RESPONSE"])
      /\ Step(j, [j EXCEPT !.phase = "TP20_WAIT_REQUEST_RESPONSE"])
      /\ Step(j, [j EXCEPT !.reply = "NONE", !.phase = "TP20_WAIT_REQUEST_RESPONSE"])
  BY <1>1, PhaseStep, ZenonT(60)
<1>3. /\ Step(j, StageKwpRequest(j, FALSE))
      /\ Step(j, CompleteKwpRequest(j, t))
      /\ Step(j, Fail(j, "PROTOCOL"))
  BY StageKwpRequestStep, CompleteKwpRequestStep, FailStep DEF Errors
<1>4. CASE outcome = "WAIT_SESSION_RESPONSE"  BY <1>2, <1>4 DEF Continue
<1>5. CASE outcome = "WAIT_REQUEST_RESPONSE"  BY <1>2, <1>5 DEF Continue
<1>6. CASE outcome = "SESSION_COMPLETE"  BY <1>3, <1>6 DEF Continue
<1>7. CASE outcome = "REQUEST_PENDING"  BY <1>2, <1>7 DEF Continue
<1>8. CASE outcome = "REQUEST_COMPLETE"  BY <1>3, <1>8 DEF Continue
<1>9. CASE outcome = "FAILED"  BY <1>3, <1>9 DEF Continue
<1> QED
  BY <1>4, <1>5, <1>6, <1>7, <1>8, <1>9 DEF AfterAcks

(* A response is taken in; what is staged stays staged. *)
LEMMA ReplyStep ==
  ASSUME NEW j, GoodJob(j), NEW reply \in {"NONE", "PARTIAL"} \union Reply
  PROVE  Step(j, [j EXCEPT !.reply = reply])
<1> DEFINE k == [j EXCEPT !.reply = reply]
<1>1. j \in Job /\ j.completed \in Nat
  BY DEF GoodJob, Job
<1>2. k \in Job
  BY <1>1 DEF Job
<1>3. /\ k.tx = j.tx /\ k.phase = j.phase /\ k.terminal = j.terminal /\ k.afterAck = j.afterAck
      /\ k.outcome = j.outcome
      /\ k.id = j.id /\ k.active = j.active /\ k.request = j.request /\ k.completed = j.completed
  BY <1>1 DEF Job
<1> HIDE DEF k
<1>4. Step(j, k)
  BY <1>1, <1>2, <1>3 DEF Step, GoodJob, Finished
<1> QED
  BY <1>4 DEF k

LEMMA ApplyAfterAckStep ==
  ASSUME NEW j, GoodJob(j), j.tx = "NONE", j.afterAck # "NONE", NEW t \in Clock
  PROVE  Step(j, ApplyAfterAck(j, t))
<1> DEFINE k == [j EXCEPT !.afterAck = "NONE"]
<1>1. j \in Job /\ j.completed \in Nat /\ j.afterAck \in AfterAcks \ {"NONE"} /\ "NONE" \in AfterAcks
  BY DEF GoodJob, Job, AfterAcks
<1>2. k \in Job
  BY <1>1 DEF Job
<1>3. /\ k.tx = j.tx /\ k.phase = j.phase /\ k.terminal = j.terminal /\ k.outcome = j.outcome
      /\ k.id = j.id /\ k.active = j.active /\ k.request = j.request /\ k.completed = j.completed
  BY <1>1 DEF Job
<1> HIDE DEF k
<1>4. Step(j, k) /\ GoodJob(k)
  BY <1>1, <1>2, <1>3 DEF Step, GoodJob, Finished
<1>5. Step(k, Continue(k, j.afterAck, t))
  BY <1>1, <1>4, ContinueStep
<1> QED
  BY <1>4, <1>5, StepTrans DEF ApplyAfterAck, k

LEMMA HandleKwpPayloadOutcomeStep ==
  ASSUME NEW j, GoodJob(j), NEW outcome \in AfterAcks \ {"NONE"}, NEW t \in Clock
  PROVE  Step(j, HandleKwpPayloadOutcome(j, outcome, t))
<1> DEFINE k == [j EXCEPT !.reply = "NONE"]
<1>1. Step(j, k) /\ GoodJob(k)
  BY ReplyStep DEF Step
<1> HIDE DEF k
<1>2. Step(k, Continue(k, outcome, t)) /\ Step(j, Continue(j, outcome, t))
  BY <1>1, ContinueStep
<1> QED
  BY <1>1, <1>2, StepTrans DEF HandleKwpPayloadOutcome, k

LEMMA StageAckStep ==
  ASSUME NEW j, GoodJob(j), NEW outcome \in AfterAcks \ {"NONE"}
  PROVE  Step(j, StageAck(j, outcome))
<1> DEFINE k == [j EXCEPT !.afterAck = outcome]
<1>1. j \in Job /\ j.completed \in Nat
  BY DEF GoodJob, Job
<1>2. k \in Job
  BY <1>1 DEF Job
<1>3. /\ k.tx = j.tx /\ k.phase = j.phase /\ k.terminal = j.terminal /\ k.outcome = j.outcome
      /\ k.afterAck = outcome
      /\ k.id = j.id /\ k.active = j.active /\ k.request = j.request /\ k.completed = j.completed
  BY <1>1 DEF Job
<1> HIDE DEF k
<1>4. Step(j, k) /\ GoodJob(k)
  BY <1>1, <1>2, <1>3 DEF Step, GoodJob, Finished
<1>5. "ACK" \in TxActions /\ "TP20_SEND_ACK" \in Phases \ {"NONE"} /\ "TP20_SEND_ACK" \notin DisconnectPhases
  BY DEF TxActions, Phases, DisconnectPhases
<1>6. Step(k, StageTx(k, "ACK", "TP20_SEND_ACK"))
  BY <1>3, <1>4, <1>5, StageTxStep
<1> QED
  BY <1>4, <1>6, StepTrans DEF StageAck, k

(* The frame was taken: the phase that waits for its answer, or what was put  *)
(* off until the acknowledgement had left.                                    *)
LEMMA HandleSuccessfulTxStep ==
  ASSUME NEW j, GoodJob(j), j.tx = "NONE", NEW action \in TxActions \ {"NONE"}, NEW t \in Clock,
         action = "ACK" => j.afterAck # "NONE",
         action = "DISCONNECT" => j.terminal # NoIntent
  PROVE  Step(j, HandleSuccessfulTx(j, action, t))
<1>1. /\ {"ISO_WAIT_RESPONSE", "ISO_WAIT_CONSECUTIVE", "TP20_WAIT_SETUP", "TP20_WAIT_PARAMS",
          "TP20_WAIT_SESSION_ACK", "TP20_WAIT_REQUEST_ACK", "TP20_WAIT_CHANNEL_TEST"}
           \subseteq Phases \ ({"NONE"} \union DisconnectPhases)
      /\ "TP20_WAIT_DISCONNECT" \in Phases \ {"NONE"}
  BY DEF Phases, DisconnectPhases
<1>2. After(t, TestWait) \in Clock /\ After(t, DisconnectWait) \in Clock
  BY AfterInClock, Delays, SMTT(30)
<1>3. CASE action = "ISO_REQUEST"  BY <1>1, <1>2, <1>3, PhaseStep, ZenonT(60) DEF HandleSuccessfulTx
<1>4. CASE action = "ISO_FLOW_CONTROL"  BY <1>1, <1>2, <1>4, PhaseStep, ZenonT(60) DEF HandleSuccessfulTx
<1>5. CASE action = "SETUP"  BY <1>1, <1>2, <1>5, PhaseStep, ZenonT(60) DEF HandleSuccessfulTx
<1>6. CASE action = "PARAMS"  BY <1>1, <1>2, <1>6, PhaseStep, ZenonT(60) DEF HandleSuccessfulTx
<1>7. CASE action = "SESSION"  BY <1>1, <1>2, <1>7, PhaseStep, ZenonT(60) DEF HandleSuccessfulTx
<1>8. CASE action = "REQUEST"  BY <1>1, <1>2, <1>8, PhaseStep, ZenonT(60) DEF HandleSuccessfulTx
<1>9. CASE action = "ACK"  BY <1>9, ApplyAfterAckStep, SMTT(30) DEF HandleSuccessfulTx
<1>10. CASE action = "CHANNEL_TEST"  BY <1>1, <1>2, <1>10, PhaseStep, ZenonT(60) DEF HandleSuccessfulTx
<1>11. CASE action = "DISCONNECT"  BY <1>1, <1>2, <1>11, PhaseStep, ZenonT(60) DEF HandleSuccessfulTx
<1> QED
  BY <1>3, <1>4, <1>5, <1>6, <1>7, <1>8, <1>9, <1>10, <1>11 DEF TxActions

LEMMA TxRefusedStep ==
  ASSUME NEW j, GoodJob(j), j.tx # "NONE", NEW t \in Clock
  PROVE  Step(j, TxRefused(j, t))
<1> DEFINE k == [j EXCEPT !.attempts = @ + 1, !.due = After(t, RetryDelay)]
           l == [j EXCEPT !.farewell = TRUE]
<1>1. j \in Job /\ j.completed \in Nat /\ j.attempts \in 0 .. (MaxAttempts - 1)
  BY DEF GoodJob, Job
<1>2. After(t, RetryDelay) \in Clock
  BY AfterInClock, Delays
<1>3. ASSUME j.attempts + 1 < MaxAttempts
      PROVE  Step(j, k)
  <2>1. PICK n \in 0 .. (MaxAttempts - 1) : n = j.attempts + 1
    BY <1>1, <1>3, CountAssumption
  <2>2. k = [j EXCEPT !.attempts = n, !.due = After(t, RetryDelay)]
    BY <2>1
  <2> HIDE DEF k
  <2>3. k \in Job
    BY <1>1, <1>2, <2>2 DEF Job
  <2>4. /\ k.tx = j.tx /\ k.phase = j.phase /\ k.terminal = j.terminal /\ k.outcome = j.outcome
        /\ k.afterAck = j.afterAck
        /\ k.id = j.id /\ k.active = j.active /\ k.request = j.request /\ k.completed = j.completed
    BY <1>1, <2>2 DEF Job
  <2> QED
    BY <1>1, <2>3, <2>4 DEF Step, GoodJob, Finished
<1>4. /\ l \in Job /\ l.tx = j.tx /\ l.phase = j.phase /\ l.terminal = j.terminal
      /\ l.outcome = j.outcome /\ l.afterAck = j.afterAck
      /\ l.id = j.id /\ l.active = j.active /\ l.request = j.request /\ l.completed = j.completed
  BY <1>1 DEF Job
<1> HIDE DEF k, l
<1>5. Step(j, l) /\ GoodJob(l)
  BY <1>1, <1>4 DEF Step, GoodJob, Finished
<1>6. ASSUME j.tx = "DISCONNECT"
      PROVE  Step(j, FinalizeTerminalIntent(l))
  <2>1. l.terminal # NoIntent
    BY <1>4, <1>6 DEF GoodJob
  <2> QED
    BY <1>5, <2>1, FinalizeStep, StepTrans
<1>7. Step(j, Fail(ClearPendingTx(j), "TX_FAILED"))
  <2>1. Step(j, ClearPendingTx(j)) /\ GoodJob(ClearPendingTx(j))
    BY ClearPendingTxStep DEF Step
  <2>2. Step(ClearPendingTx(j), Fail(ClearPendingTx(j), "TX_FAILED"))
    BY <2>1, FailStep DEF Errors
  <2> QED
    BY <2>1, <2>2, StepTrans
<1> QED
  BY <1>3, <1>6, <1>7 DEF TxRefused, k, l

LEMMA TransmitStep ==
  ASSUME NEW j, GoodJob(j), NEW t \in Clock, NEW accepted \in BOOLEAN
  PROVE  Step(j, Transmit(j, t, accepted))
<1>1. CASE ~Offers(j, t)
  BY <1>1, StepRefl DEF Transmit
<1>2. CASE Offers(j, t) /\ accepted
  <2> DEFINE c == ClearPendingTx(j)
  <2>1. j.tx \in TxActions \ {"NONE"}
    BY <1>2 DEF Offers, GoodJob, Job
  <2>2. /\ j.tx = "ACK" => j.afterAck # "NONE"
        /\ j.tx = "DISCONNECT" => j.terminal # NoIntent
    BY DEF GoodJob
  <2>3. /\ Step(j, c) /\ GoodJob(c) /\ c.tx = "NONE"
        /\ c.afterAck = j.afterAck /\ c.terminal = j.terminal
    BY ClearPendingTxStep DEF Step
  <2> HIDE DEF c
  <2>4. Step(c, HandleSuccessfulTx(c, j.tx, t))
    BY <2>1, <2>2, <2>3, HandleSuccessfulTxStep
  <2>5. Step(j, HandleSuccessfulTx(c, j.tx, t))
    BY <2>3, <2>4, StepTrans
  <2> QED
    BY <1>2, <2>5 DEF Transmit, c
<1>3. CASE Offers(j, t) /\ ~accepted
  BY <1>3, TxRefusedStep DEF Transmit, Offers
<1> QED
  BY <1>1, <1>2, <1>3

LEMMA EndIfDueStep ==
  ASSUME NEW j, GoodJob(j), NEW t
  PROVE  Step(j, EndIfDue(j, t))
<1>1. Step(j, Fail(j, "ABORTED")) /\ Step(j, Fail(j, "TIMEOUT")) /\ Step(j, j)
  BY FailStep, StepRefl DEF Errors
<1> QED
  BY <1>1 DEF EndIfDue

LEMMA RepeatIfDueStep ==
  ASSUME NEW j, GoodJob(j), NEW t
  PROVE  Step(j, RepeatIfDue(j, t))
<1>1. /\ "CHANNEL_TEST" \in TxActions /\ "TP20_SEND_CHANNEL_TEST" \in Phases \ {"NONE"}
      /\ "TP20_SEND_CHANNEL_TEST" \notin DisconnectPhases
  BY DEF TxActions, Phases, DisconnectPhases
<1>2. /\ Step(j, StageKwpRequest(j, FALSE)) /\ Step(j, j)
      /\ Step(j, StageTx(j, "CHANNEL_TEST", "TP20_SEND_CHANNEL_TEST"))
  BY <1>1, StageKwpRequestStep, StageTxStep, StepRefl
<1> QED
  BY <1>2 DEF RepeatIfDue

LEMMA KwpOutcomeType ==
  ASSUME NEW reply \in Reply, NEW session \in BOOLEAN
  PROVE  KwpOutcome(reply, session) \in AfterAcks \ {"NONE"}
<1>1. CASE reply = "PENDING"  BY <1>1 DEF KwpOutcome, AfterAcks
<1>2. CASE reply = "REFUSED"  BY <1>2 DEF KwpOutcome, AfterAcks
<1>3. CASE reply = "POSITIVE"  BY <1>3 DEF KwpOutcome, AfterAcks
<1> QED
  BY <1>1, <1>2, <1>3 DEF Reply

LEMMA CompleteIsoPayloadStep ==
  ASSUME NEW j, GoodJob(j), NEW reply \in Reply
  PROVE  Step(j, CompleteIsoPayload(j, reply))
<1>1. /\ "ISO_WAIT_RESPONSE" \in Phases \ {"NONE"} /\ "ISO_WAIT_RESPONSE" \notin DisconnectPhases
      /\ 0 \in Clock
  BY Delays, SMTT(30) DEF Phases, DisconnectPhases
<1>2. /\ Step(j, [j EXCEPT !.phase = "ISO_WAIT_RESPONSE"])
      /\ Step(j, Fail(j, "PROTOCOL")) /\ Step(j, RequestFinish(j, "COMPLETE", "NONE"))
  BY <1>1, PhaseStep, FailStep, RequestFinishStep, ZenonT(60) DEF Outcomes, Errors
<1>3. CASE reply = "PENDING"  BY <1>2, <1>3 DEF CompleteIsoPayload
<1>4. CASE reply = "REFUSED"  BY <1>2, <1>4 DEF CompleteIsoPayload
<1>5. CASE reply = "POSITIVE"  BY <1>2, <1>5 DEF CompleteIsoPayload
<1> QED
  BY <1>3, <1>4, <1>5 DEF Reply

LEMMA DataFragmentStep ==
  ASSUME NEW j, GoodJob(j), NEW reply \in {"PARTIAL"} \union Reply, now \in Clock,
         NEW last \in BOOLEAN, NEW wantsAck \in BOOLEAN, NEW session \in BOOLEAN
  PROVE  Step(j, DataFragment(j, reply, last, wantsAck, session))
<1> DEFINE filled == [j EXCEPT !.reply = reply]
           outcome == IF reply = "PARTIAL" THEN WaitResponse(session) ELSE KwpOutcome(reply, session)
<1>1. Step(j, filled) /\ GoodJob(filled)
  BY ReplyStep DEF Step
<1>2. outcome \in AfterAcks \ {"NONE"}
  BY KwpOutcomeType DEF WaitResponse, AfterAcks
<1>3. DataFragment(j, reply, last, wantsAck, session) \in
        {Fail(filled, "PROTOCOL"), StageAck(filled, outcome), Continue(filled, outcome, now),
         HandleKwpPayloadOutcome(filled, outcome, now)}
  <2> HIDE DEF filled, outcome
  <2>1. CASE last # (reply # "PARTIAL")
    BY Zenon, <2>1 DEF DataFragment, filled, outcome
  <2>2. CASE last = (reply # "PARTIAL") /\ wantsAck
    BY <2>2 DEF DataFragment, filled, outcome
  <2>3. CASE last = (reply # "PARTIAL") /\ ~wantsAck /\ reply = "PARTIAL"
    BY <2>3 DEF DataFragment, filled, outcome
  <2>4. CASE last = (reply # "PARTIAL") /\ ~wantsAck /\ reply # "PARTIAL"
    BY <2>4 DEF DataFragment, filled, outcome
  <2> QED
    BY <2>1, <2>2, <2>3, <2>4
<1> HIDE DEF filled, outcome
<1>4. /\ Step(filled, Fail(filled, "PROTOCOL")) /\ Step(filled, StageAck(filled, outcome))
      /\ Step(filled, Continue(filled, outcome, now))
      /\ Step(filled, HandleKwpPayloadOutcome(filled, outcome, now))
  BY <1>1, <1>2, FailStep, StageAckStep, ContinueStep, HandleKwpPayloadOutcomeStep DEF Errors
<1> QED
  BY <1>1, <1>3, <1>4, StepTrans

LEMMA BeginJobGood ==
  ASSUME mailbox \in [id : Nat, request : Request], NEW t \in Clock
  PROVE  /\ GoodJob(BeginJob(t)) /\ BeginJob(t).active
         /\ BeginJob(t).id = mailbox.id /\ BeginJob(t).completed >= 0
         /\ ~Finished(BeginJob(t))
<1> DEFINE fresh == [IdleJob EXCEPT !.active = TRUE, !.id = mailbox.id, !.request = mailbox.request,
                                    !.deadline = After(t, Timeout)]
<1>1. /\ 0 \in Clock /\ 0 \in 0 .. (MaxAttempts - 1) /\ After(t, Timeout) \in Clock
      /\ mailbox.id \in Nat /\ mailbox.request \in Request
  BY Delays, AfterInClock, CountAssumption
<1>2. /\ "NONE" \in TxActions /\ "NONE" \in AfterAcks /\ NoIntent \in Ending /\ "NONE" \in Phases
      /\ "ISO_SEND_REQUEST" \in Phases /\ "ISO_SEND_REQUEST" \notin DisconnectPhases
      /\ "TP20_SEND_SETUP" \in Phases /\ "TP20_SEND_SETUP" \notin DisconnectPhases
      /\ "ISO_REQUEST" \in TxActions /\ "SETUP" \in TxActions
  BY DEF TxActions, AfterAcks, Ending, Phases, DisconnectPhases
<1>3. fresh \in Job
  BY <1>1, <1>2 DEF Job, IdleJob
<1>4. fresh.active /\ fresh.id = mailbox.id /\ fresh.completed = 0
  BY DEF IdleJob
<1> HIDE DEF fresh
<1>5. /\ Step(fresh, StageTx(fresh, "ISO_REQUEST", "ISO_SEND_REQUEST"))
      /\ ~Finished(StageTx(fresh, "ISO_REQUEST", "ISO_SEND_REQUEST"))
      /\ Step(fresh, StageTx(fresh, "SETUP", "TP20_SEND_SETUP"))
      /\ ~Finished(StageTx(fresh, "SETUP", "TP20_SEND_SETUP"))
  BY <1>2, <1>3, StageTxJob
<1>6. Step(fresh, BeginJob(t)) /\ ~Finished(BeginJob(t))
  BY <1>5 DEF BeginJob, fresh
<1> QED
  BY <1>4, <1>6 DEF Step

-----------------------------------------------------------------------------
(* The invariant. *)

(* SlotOwnership, holder by holder. *)
Owned ==
  /\ busy <=> Submitting \/ ready \/ tick.at = "claimed" \/ job.active
  /\ Submitting => ~ready /\ tick.at # "claimed" /\ ~job.active
  /\ ready => tick.at # "claimed" /\ ~job.active
  /\ tick.at = "claimed" => ~job.active
  /\ ready \/ tick.at = "claimed" =>
       published = [id |-> mailbox.id, state |-> "QUEUED", completed |-> 0]
  /\ job.active => published.id = job.id

(* Where a tick is at work on the job. *)
JobPlaces == {"refusing", "begun", "uncancelled", "sending"}

(* While a submitter hands its command over, clients already see it queued.  *)
(* Ids count up, so an id above the published one was never used.  The       *)
(* published result follows the job: it never runs ahead of it, and holds an *)
(* outcome exactly when the job has one.  A tick works on a job that has not *)
(* ended.                                                                    *)
TransportInv ==
  /\ TypeOK
  /\ Owned
  /\ GoodJob(job)
  /\ client.at = "posting" => published = [id |-> mailbox.id, state |-> "QUEUED", completed |-> 0]
  /\ nextId = published.id + 1
  /\ job.active => /\ published.completed <= job.completed
                   /\ Finished(job) => published.state \in Outcomes
                   /\ ~Finished(job) => published.state \in {"QUEUED", "ACTIVE"}
  /\ tick.at \in JobPlaces => job.active /\ ~Finished(job)

TickRecord == [at : TickPlaces, late : BOOLEAN]

(* What a step of a tick or a received frame comes to: the job, or the one   *)
(* the mailbox or the tick held, moves on to j.                              *)
JobMoves(j) ==
  /\ GoodJob(j) /\ j.active /\ j.id = published.id /\ j.completed >= published.completed
  /\ \E publishes \in BOOLEAN : Settle(j, publishes)
  /\ \/ job.active /\ ~Finished(job) /\ ready' = ready
     \/ ~job.active /\ ready /\ ready' = FALSE
     \/ tick.at = "claimed" /\ ready' = ready
  /\ now' \in Clock /\ abortId' \in Nat
  /\ tick' \in TickRecord /\ tick'.at # "claimed"
  /\ tick'.at \in JobPlaces => ~Finished(j)
  /\ UNCHANGED <<busy, mailbox, nextId, cancelId, client>>

LEMMA OneOwner == SlotOwnership <=> Owned
<1>1. /\ "submitter" \in Holders <=> Submitting
      /\ "mailbox" \in Holders <=> ready
      /\ "tick" \in Holders <=> tick.at = "claimed"
      /\ "job" \in Holders <=> job.active
      /\ Holders \subseteq {"submitter", "mailbox", "tick", "job"}
  BY DEF Holders
<1>2. Holders # {} <=> Submitting \/ ready \/ tick.at = "claimed" \/ job.active
  BY <1>1
<1>3. (\A one, other \in Holders : one = other) <=>
        /\ Submitting => ~ready /\ tick.at # "claimed" /\ ~job.active
        /\ ready => tick.at # "claimed" /\ ~job.active
        /\ tick.at = "claimed" => ~job.active
  BY <1>1
<1> QED
  BY <1>2, <1>3 DEF SlotOwnership, Owned

LEMMA InitInv == Init => TransportInv
<1> SUFFICES ASSUME Init PROVE TransportInv
  OBVIOUS
<1>1. /\ 0 \in Clock /\ 0 \in 0 .. (MaxAttempts - 1)
      /\ IdleJob.request \in Request
  BY Delays, CountAssumption DEF Request, IdleJob
<1>2. /\ "NONE" \in TxActions /\ "NONE" \in AfterAcks /\ NoIntent \in Ending /\ "NONE" \in Phases
      /\ "NONE" \notin DisconnectPhases
  BY DEF TxActions, AfterAcks, Ending, Phases, DisconnectPhases
<1>3. IdleJob \in Job
  BY <1>1, <1>2 DEF Job, IdleJob
<1>4. /\ IdleJob.tx = "NONE" /\ IdleJob.phase = "NONE" /\ ~IdleJob.active
  BY DEF IdleJob
<1>5. GoodJob(IdleJob)
  BY <1>2, <1>3, <1>4 DEF GoodJob
<1>6. TypeOK
  BY <1>1, <1>3 DEF Init, TypeOK, TickPlaces
<1>7. Owned
  BY <1>4 DEF Init, Owned, Submitting
<1> QED
  BY <1>4, <1>5, <1>6, <1>7 DEF Init, TransportInv, JobPlaces

(* The published result after a move of the job. *)
LEMMA SettleShows ==
  ASSUME TransportInv, NEW j, JobMoves(j)
  PROVE  /\ job' = j
         /\ published' \in [id : Nat, state : {"IDLE", "QUEUED", "ACTIVE"} \union Outcomes, completed : Nat]
         /\ published'.id = published.id
         /\ published'.completed >= published.completed /\ published'.completed <= j.completed
         /\ Finished(j) => published'.state \in Outcomes
         /\ ~Finished(j) => \/ published' = published
                            \/ published'.state = "ACTIVE"
<1>1. /\ job' = j
      /\ published' = published \/ published' = Shown(j)
      /\ Finished(j) => published' = Shown(j)
  BY DEF JobMoves, Settle
<1>2. /\ j.id = published.id /\ j.completed >= published.completed /\ j.active
      /\ j \in Job /\ (Finished(j) => j.outcome.state \in Outcomes)
  BY DEF JobMoves, GoodJob
<1>3. j.id \in Nat /\ j.completed \in Nat
  BY <1>2 DEF Job
<1>4. published \in [id : Nat, state : {"IDLE", "QUEUED", "ACTIVE"} \union Outcomes, completed : Nat]
  BY DEF TransportInv, TypeOK
<1>5. published.completed \in Nat /\ published.completed <= j.completed
  BY <1>2, <1>3, <1>4
<1>6. CASE published' = Shown(j)
  <2>1. /\ Shown(j).id = j.id /\ Shown(j).completed = j.completed
        /\ Finished(j) => Shown(j).state = j.outcome.state
        /\ ~Finished(j) => Shown(j).state = "ACTIVE"
        /\ Shown(j) = [id |-> j.id, state |-> Shown(j).state, completed |-> j.completed]
    BY DEF Shown
  <2>2. Shown(j).state \in {"IDLE", "QUEUED", "ACTIVE"} \union Outcomes
    BY <1>2, <2>1
  <2>3. Shown(j) \in [id : Nat, state : {"IDLE", "QUEUED", "ACTIVE"} \union Outcomes, completed : Nat]
    BY <1>3, <2>1, <2>2
  <2> QED
    BY <1>1, <1>2, <1>3, <1>5, <1>6, <2>1, <2>3
<1>7. CASE published' = published /\ ~Finished(j)
  BY <1>1, <1>2, <1>4, <1>5, <1>7
<1> QED
  BY <1>1, <1>6, <1>7

LEMMA JobMovesInv ==
  ASSUME TransportInv, NEW j, JobMoves(j)
  PROVE  TransportInv'
<1>1. /\ job' = j /\ GoodJob(j) /\ j \in Job /\ j.active /\ j.id = published.id
      /\ now' \in Clock /\ abortId' \in Nat
      /\ tick' \in TickRecord /\ tick'.at # "claimed" /\ (tick'.at \in JobPlaces => ~Finished(j))
      /\ UNCHANGED <<busy, mailbox, nextId, cancelId, client>>
  BY SettleShows DEF JobMoves, GoodJob
<1>2. /\ ready' \in BOOLEAN /\ ~ready'
  <2>1. CASE (job.active \/ tick.at = "claimed") /\ ready' = ready
    BY Zenon, <2>1 DEF TransportInv, TypeOK, Owned
  <2>2. CASE ready' = FALSE
    BY <2>2
  <2> QED
    BY <2>1, <2>2 DEF JobMoves
<1>3. TypeOK'
  BY <1>1, <1>2, SettleShows DEF TransportInv, TypeOK, Job, TickRecord
<1>4. Owned'
  <2>1. busy /\ ~Submitting
    BY DEF JobMoves, TransportInv, Owned
  <2> QED
    BY <1>1, <1>2, <2>1, SettleShows DEF Owned, Submitting
<1>5. GoodJob(job)'
  BY <1>1 DEF GoodJob, Finished
<1>6. client'.at # "posting"
  BY <1>1 DEF JobMoves, TransportInv, Owned, Submitting
<1>7. nextId' = published'.id + 1
  BY <1>1, SettleShows DEF TransportInv
<1>8. ~Finished(j) => published'.state \in {"QUEUED", "ACTIVE"}
  <2>1. published.state \in {"QUEUED", "ACTIVE"}
    BY DEF JobMoves, TransportInv, Owned
  <2> QED
    BY <2>1, SettleShows
<1>9. job'.active => /\ published'.completed <= job'.completed
                     /\ Finished(job') => published'.state \in Outcomes
                     /\ ~Finished(job') => published'.state \in {"QUEUED", "ACTIVE"}
  BY <1>1, <1>8, SettleShows
<1> QED
  BY <1>1, <1>3, <1>4, <1>5, <1>6, <1>7, <1>9 DEF TransportInv, Finished

-----------------------------------------------------------------------------
(* Every step of the CAN task is a move of the job, a tick that finds        *)
(* nothing to do or takes the mailbox, or the release of the slot.           *)

CanTaskMoves == \E j : JobMoves(j)

(* The job under way moves on. *)
LEMMA StepMoves ==
  ASSUME TransportInv, job.active, ~Finished(job), NEW j, Step(job, j),
         NEW publishes \in BOOLEAN, Settle(j, publishes),
         ready' = ready, now' \in Clock, abortId' \in Nat,
         tick' \in TickRecord, tick'.at # "claimed", tick'.at \in JobPlaces => ~Finished(j),
         UNCHANGED <<busy, mailbox, nextId, cancelId, client>>
  PROVE  CanTaskMoves
<1>1. GoodJob(j) /\ j.active = job.active /\ j.id = job.id /\ j.completed >= job.completed
  BY DEF Step
<1>2. job.active /\ job.id = published.id /\ published.completed <= job.completed
  BY DEF TransportInv, Owned
<1>3. /\ job.completed \in Nat /\ published.completed \in Nat /\ j.completed \in Nat
  BY <1>1 DEF TransportInv, TypeOK, Job, GoodJob
<1>4. j.completed >= published.completed
  BY <1>1, <1>2, <1>3
<1>5. JobMoves(j)
  BY <1>1, <1>2, <1>4 DEF JobMoves
<1> QED
  BY <1>5 DEF CanTaskMoves

(* The job in the mailbox, or taken from it, begins and moves on. *)
LEMMA ClaimMoves ==
  ASSUME TransportInv, \/ ~job.active /\ ready /\ ready' = FALSE
                       \/ tick.at = "claimed" /\ ready' = ready,
         NEW t \in Clock,
         NEW j, Step(BeginJob(t), j), NEW publishes \in BOOLEAN, Settle(j, publishes),
         now' \in Clock, abortId' \in Nat,
         tick' \in TickRecord, tick'.at # "claimed", tick'.at \in JobPlaces => ~Finished(j),
         UNCHANGED <<busy, mailbox, nextId, cancelId, client>>
  PROVE  CanTaskMoves
<1>1. mailbox \in [id : Nat, request : Request]
  BY DEF TransportInv, TypeOK
<1>2. GoodJob(j) /\ j.active /\ j.id = mailbox.id /\ j.completed >= BeginJob(t).completed
  BY <1>1, BeginJobGood DEF Step
<1>3. published.id = mailbox.id /\ published.completed = 0
  BY DEF TransportInv, Owned
<1>4. j.completed >= 0
  BY <1>2 DEF GoodJob, Job
<1>5. JobMoves(j)
  BY <1>2, <1>3, <1>4 DEF JobMoves
<1> QED
  BY <1>5 DEF CanTaskMoves

LEMMA GoesTo ==
  ASSUME TransportInv, NEW place \in TickPlaces, GoTo(place)
  PROVE  /\ tick' \in TickRecord /\ tick'.at = place
         /\ tick'.late <=> tick.late /\ place # "between"
BY DEF GoTo, TickRecord

(* A check moves the job on, and ends the tick when it ended the job. *)
LEMMA CheckedMoves ==
  ASSUME TransportInv, job.active, ~Finished(job), NEW j, Step(job, j), Checked(j),
         ready' = ready, now' \in Clock, abortId' \in Nat,
         UNCHANGED <<busy, mailbox, nextId, cancelId, client>>
  PROVE  CanTaskMoves
<1> DEFINE place == IF Finished(j) THEN "between" ELSE "sending"
<1>1. Settle(j, FALSE) /\ GoTo(place) /\ place \in TickPlaces
  BY DEF Checked, TickPlaces
<1>2. place # "claimed" /\ (place \in JobPlaces => ~Finished(j))
  BY DEF JobPlaces
<1> HIDE DEF place
<1> QED
  BY <1>1, <1>2, GoesTo, StepMoves

(* The look for a cancel ends the job, or leaves it. *)
LEMMA LookMoves ==
  ASSUME TransportInv, job.active, ~Finished(job), LookAtCancel,
         now' \in Clock, UNCHANGED <<busy, ready, mailbox, nextId, cancelId, abortId, client>>
  PROVE  CanTaskMoves
<1>1. GoodJob(job) /\ abortId' \in Nat
  BY DEF TransportInv, TypeOK
<1>2. CASE Checked(RequestFinish(job, "CANCELLED", "CANCELLED"))
  <2>1. Step(job, RequestFinish(job, "CANCELLED", "CANCELLED"))
    BY <1>1, RequestFinishStep DEF Outcomes, Errors
  <2> QED
    BY <1>1, <1>2, <2>1, CheckedMoves
<1>3. CASE GoTo("uncancelled") /\ UNCHANGED <<published, job>>
  <2>1. Step(job, job) /\ Settle(job, FALSE)
    BY <1>1, <1>3, StepRefl DEF Settle
  <2>2. "uncancelled" \in TickPlaces
    BY DEF TickPlaces
  <2> QED
    BY <1>1, <1>3, <2>1, <2>2, GoesTo, StepMoves
<1> QED
  BY <1>2, <1>3 DEF LookAtCancel

LEMMA TickMoves ==
  ASSUME TransportInv, NEW t \in Clock, NEW accepted \in BOOLEAN,
         TickBeginJob \/ TickRefuse \/ TickNewJob \/ TickJob(t) \/ TickChecks
           \/ TickSend(accepted) \/ TickCleanup(t, accepted)
  PROVE  CanTaskMoves
<1>1. /\ GoodJob(job) /\ mailbox \in [id : Nat, request : Request] /\ abortId \in Nat /\ now \in Clock
      /\ tick \in TickRecord
      /\ tick.at \in JobPlaces => job.active /\ ~Finished(job)
  BY DEF TransportInv, TypeOK, TickRecord
<1>2. "between" \in TickPlaces /\ "between" \notin JobPlaces \union {"claimed"}
  BY DEF TickPlaces, JobPlaces
<1>3. CASE TickBeginJob
  <2> DEFINE place == IF cancelId = mailbox.id THEN "refusing" ELSE "begun"
  <2>1. /\ tick.at = "claimed" /\ Settle(BeginJob(now), TRUE) /\ GoTo(place)
        /\ UNCHANGED <<now, busy, ready, mailbox, nextId, cancelId, abortId, client>>
    BY <1>3 DEF TickBeginJob
  <2>2. place \in TickPlaces /\ place # "claimed"
    BY DEF TickPlaces
  <2>3. GoodJob(BeginJob(now)) /\ ~Finished(BeginJob(now))
    BY <1>1, BeginJobGood
  <2>4. Step(BeginJob(now), BeginJob(now))
    BY <2>3, StepRefl
  <2> HIDE DEF place
  <2> QED
    BY <1>1, <2>1, <2>2, <2>3, <2>4, GoesTo, ClaimMoves
<1>4. CASE TickRefuse
  <2>1. Step(job, Finish(job, "CANCELLED", "CANCELLED"))
    BY <1>1, FinishStep DEF Outcomes, Errors
  <2>2. /\ tick.at = "refusing" /\ Settle(Finish(job, "CANCELLED", "CANCELLED"), TRUE) /\ GoTo("between")
        /\ UNCHANGED <<now, busy, ready, mailbox, nextId, cancelId, abortId, client>>
    BY <1>4 DEF TickRefuse
  <2>3. job.active /\ ~Finished(job)
    BY <1>1, <2>2 DEF JobPlaces
  <2> QED
    BY <1>1, <1>2, <2>1, <2>2, <2>3, GoesTo, StepMoves
<1>5. CASE TickNewJob
  <2>1. job.active /\ ~Finished(job)
    BY <1>1, <1>5 DEF TickNewJob, JobPlaces
  <2> QED
    BY <1>1, <1>5, <2>1, LookMoves DEF TickNewJob
<1>6. CASE TickJob(t)
  BY <1>1, <1>6, LookMoves DEF TickJob, Begin
<1>7. CASE TickChecks
  <2> DEFINE k == EndIfDue(job, now)
  <2>1. job.active /\ ~Finished(job)
    BY <1>1, <1>7 DEF TickChecks, JobPlaces
  <2>2. Step(job, k) /\ GoodJob(k)
    BY <1>1, EndIfDueStep DEF Step
  <2>3. Checked(RepeatIfDue(k, now))
    BY <1>7 DEF TickChecks
  <2>4. abortId' \in Nat /\ UNCHANGED <<now, busy, ready, mailbox, nextId, cancelId, client>>
    BY <1>1, <1>7 DEF TickChecks
  <2> HIDE DEF k
  <2>5. Step(job, RepeatIfDue(k, now))
    BY <1>1, <2>2, RepeatIfDueStep, StepTrans
  <2> QED
    BY <1>1, <2>1, <2>3, <2>4, <2>5, CheckedMoves
<1>8. CASE TickSend(accepted)
  <2>1. /\ tick.at = "sending" /\ Settle(Transmit(job, now, accepted), Offers(job, now)) /\ GoTo("between")
        /\ UNCHANGED <<now, busy, ready, mailbox, nextId, cancelId, abortId, client>>
    BY <1>8 DEF TickSend
  <2>2. job.active /\ ~Finished(job)
    BY <1>1, <2>1 DEF JobPlaces
  <2>3. Offers(job, now) \in BOOLEAN
    BY Zenon DEF Offers
  <2>4. Step(job, Transmit(job, now, accepted))
    BY <1>1, TransmitStep
  <2> QED
    BY <1>1, <1>2, <2>1, <2>2, <2>3, <2>4, GoesTo, StepMoves
<1>9. CASE TickCleanup(t, accepted)
  <2>1. /\ job.active /\ ~Finished(job) /\ job.terminal # NoIntent /\ now' = t /\ tick' = tick
        /\ tick.at = "between"
        /\ UNCHANGED <<busy, ready, mailbox, nextId, cancelId, abortId, client>>
    BY <1>9 DEF TickCleanup, Begin
  <2>2. CASE Settle(FinalizeTerminalIntent(job), TRUE)
    BY <1>1, <1>2, <2>1, <2>2, FinalizeStep, StepMoves
  <2>3. CASE Settle(Transmit(job, t, accepted), Offers(job, t))
    <3>1. Offers(job, t) \in BOOLEAN
      BY Zenon DEF Offers
    <3> QED
      BY <1>1, <1>2, <2>1, <2>3, <3>1, TransmitStep, StepMoves
  <2> QED
    BY <1>9, <2>2, <2>3 DEF TickCleanup
<1> QED
  BY <1>3, <1>4, <1>5, <1>6, <1>7, <1>8, <1>9

LEMMA ObservedMoves ==
  ASSUME TransportInv, Observing, NEW j, Step(job, j), Observed(j)
  PROVE  CanTaskMoves
<1>1. (j.terminal = NoIntent) \in BOOLEAN
  OBVIOUS
<1>2. /\ now' \in Clock /\ abortId' \in Nat
      /\ tick' \in TickRecord /\ tick'.at # "claimed" /\ tick'.at \notin JobPlaces
  BY DEF Observed, Observing, TransportInv, TypeOK, TickRecord, JobPlaces
<1> QED
  BY <1>1, <1>2, StepMoves DEF Observed, Observing

LEMMA ObserveMoves ==
  ASSUME TransportInv, Observe
  PROVE  CanTaskMoves
<1>1. GoodJob(job) /\ now \in Clock /\ mailbox \in [id : Nat, request : Request] /\ abortId \in Nat
  BY DEF TransportInv, TypeOK
<1>2. Step(job, Fail(job, "PROTOCOL")) /\ Step(job, Finish(job, "FAILED", "PROTOCOL"))
  BY <1>1, FailStep, FinishStep DEF Errors, Outcomes
<1>3. CASE ObserveIso
  <2>1. \A reply \in Reply : Step(job, CompleteIsoPayload(job, reply))
    BY <1>1, CompleteIsoPayloadStep
  <2>2. Step(job, StageTx(job, "ISO_FLOW_CONTROL", "ISO_SEND_FLOW_CONTROL"))
    BY <1>1, StageTxStep DEF TxActions, Phases, DisconnectPhases
  <2> QED
    BY <1>2, <1>3, <2>1, <2>2, ObservedMoves DEF ObserveIso
<1>4. CASE ObserveSetup
  <2> DEFINE k == [job EXCEPT !.open = TRUE]
  <2>1. job \in Job
    BY <1>1 DEF GoodJob
  <2>2. k \in Job
    BY <2>1, ZenonT(60) DEF Job
  <2>3. /\ k.id = job.id /\ k.active = job.active /\ k.request = job.request
        /\ k.completed = job.completed /\ k.completed \in Nat
    BY <2>1 DEF Job
  <2> HIDE DEF k
  <2>4. Step(k, StageTx(k, "PARAMS", "TP20_SEND_PARAMS"))
    BY <2>2, StageTxJob DEF TxActions, Phases, DisconnectPhases
  <2>5. Step(job, StageTx(k, "PARAMS", "TP20_SEND_PARAMS"))
    BY <2>3, <2>4 DEF Step
  <2> QED
    BY <1>2, <1>4, <2>5, ObservedMoves DEF ObserveSetup, k
<1>5. CASE ObserveParams
  <2>1. job.request.session \in BOOLEAN
    BY <1>1 DEF GoodJob, Job, Request
  <2>2. Step(job, StageKwpRequest(job, job.request.session))
    BY <1>1, <2>1, StageKwpRequestStep
  <2> QED
    BY <1>2, <1>5, <2>2, ObservedMoves DEF ObserveParams
<1>6. CASE ObserveChannelTest
  <2>1. After(now, TestInterval) \in Clock
    BY <1>1, AfterInClock, Delays
  <2>2. "TP20_WAIT_REPEAT" \in Phases \ {"NONE"} /\ "TP20_WAIT_REPEAT" \notin DisconnectPhases
    BY DEF Phases, DisconnectPhases
  <2>3. Step(job, [job EXCEPT !.phase = "TP20_WAIT_REPEAT", !.due = After(now, TestInterval)])
    BY <1>1, <2>1, <2>2, PhaseStep, ZenonT(60)
  <2> QED
    BY <1>6, <2>3, ObservedMoves DEF ObserveChannelTest
<1>7. CASE ObserveDisconnect
  <2>1. job.terminal # NoIntent
    BY <1>1, <1>7 DEF ObserveDisconnect, GoodJob, DisconnectPhases
  <2> QED
    BY <1>1, <1>7, <2>1, FinalizeStep, ObservedMoves DEF ObserveDisconnect
<1>8. ASSUME NEW session \in BOOLEAN, ObserveKwp(session)
      PROVE  CanTaskMoves
  <2>1. WaitResponse(session) \in AfterAcks \ {"NONE"}
    BY DEF WaitResponse, AfterAcks
  <2>2. Step(job, Continue(job, WaitResponse(session), now))
    BY <1>1, <2>1, ContinueStep
  <2>3. ReplyAfter(job.reply) \subseteq {"PARTIAL"} \union Reply
    BY DEF ReplyAfter
  <2>4. \A reply \in ReplyAfter(job.reply), last \in BOOLEAN, wantsAck \in BOOLEAN :
          Step(job, DataFragment(job, reply, last, wantsAck, session))
    BY <1>1, <2>3, DataFragmentStep
  <2> QED
    BY <1>2, <1>8, <2>2, <2>4, ObservedMoves DEF ObserveKwp
<1>9. CASE ObserveTester
  <2>1. Step(job, Finish(job, "FAILED", "EXTERNAL_TESTER_COLLISION"))
    BY <1>1, FinishStep DEF Errors, Outcomes
  <2> QED
    BY <1>9, <2>1, ObservedMoves DEF ObserveTester
<1>10. CASE ObserveTesterQueued
  <2>1. GoodJob(BeginJob(now))
    BY <1>1, BeginJobGood
  <2>2. Step(BeginJob(now), Finish(BeginJob(now), "FAILED", "EXTERNAL_TESTER_COLLISION"))
    BY <2>1, FinishStep DEF Errors, Outcomes
  <2>3. tick \in TickRecord /\ "between" \notin JobPlaces \union {"claimed"}
    BY DEF TransportInv, TypeOK, TickRecord, JobPlaces
  <2> QED
    BY <1>1, <1>10, <2>2, <2>3, ClaimMoves DEF ObserveTesterQueued
<1> QED
  BY <1>3, <1>4, <1>5, <1>6, <1>7, <1>8, <1>9, <1>10 DEF Observe

-----------------------------------------------------------------------------
(* The client's steps and the release. *)

(* Nothing but the client's own state and the request to cancel or abort. *)
LEMMA IntentInv ==
  ASSUME TransportInv, client.at \in {"idle", "cancelling", "aborting"},
         client' \in [at : {"idle", "cancelling", "aborting"}, id : Nat],
         cancelId' \in Nat, abortId' \in Nat, tick' \in TickRecord, tick'.at = tick.at,
         UNCHANGED <<now, busy, ready, mailbox, nextId, published, job>>
  PROVE  TransportInv'
<1>1. ~Submitting /\ ~Submitting' /\ client'.at # "posting"
  BY DEF Submitting
<1>2. TypeOK'
  BY DEF TransportInv, TypeOK, Job, TickRecord
<1>3. Owned'
  BY Zenon, <1>1 DEF TransportInv, Owned
<1>4. GoodJob(job)'
  BY DEF TransportInv, GoodJob, Finished
<1> QED
  BY <1>1, <1>2, <1>3, <1>4 DEF TransportInv, Finished

LEMMA SubmitClaimInv == TransportInv /\ SubmitClaim => TransportInv'
<1> SUFFICES ASSUME TransportInv, SubmitClaim PROVE TransportInv'
  OBVIOUS
<1>1. /\ client.at = "idle" /\ ~busy /\ busy' = TRUE
      /\ client' = [client EXCEPT !.at = "claimed"]
      /\ UNCHANGED <<now, ready, mailbox, nextId, cancelId, abortId, published, job, tick>>
  BY DEF SubmitClaim
<1>2. client \in [at : {"idle", "claimed", "posting", "cancelling", "aborting"}, id : Nat]
  BY DEF TransportInv, TypeOK
<1>3. /\ client' \in [at : {"idle", "claimed", "posting", "cancelling", "aborting"}, id : Nat]
      /\ client'.at = "claimed"
  BY <1>1, <1>2
<1>4. ~ready /\ tick.at # "claimed" /\ ~job.active /\ Submitting'
  BY <1>1, <1>3 DEF TransportInv, Owned, Submitting
<1>5. TypeOK'
  BY <1>1, <1>3 DEF TransportInv, TypeOK, Job
<1>6. Owned'
  BY <1>1, <1>4 DEF Owned
<1>7. GoodJob(job)'
  BY <1>1 DEF TransportInv, GoodJob, Finished
<1> QED
  BY <1>1, <1>3, <1>4, <1>5, <1>6, <1>7 DEF TransportInv, Finished

LEMMA SubmitPublishInv ==
  ASSUME TransportInv, NEW request \in Request, SubmitPublish(request)
  PROVE  TransportInv'
<1>1. /\ client.at = "claimed" /\ nextId' = nextId + 1
      /\ mailbox' = [id |-> nextId, request |-> request]
      /\ published' = [id |-> nextId, state |-> "QUEUED", completed |-> 0]
      /\ client' = [client EXCEPT !.at = "posting"]
      /\ UNCHANGED <<now, busy, ready, cancelId, abortId, job, tick>>
  BY DEF SubmitPublish
<1>2. /\ client \in [at : {"idle", "claimed", "posting", "cancelling", "aborting"}, id : Nat]
      /\ nextId \in Nat
  BY DEF TransportInv, TypeOK
<1>3. /\ client' \in [at : {"idle", "claimed", "posting", "cancelling", "aborting"}, id : Nat]
      /\ client'.at = "posting"
  BY <1>1, <1>2
<1>4. busy /\ ~ready /\ tick.at # "claimed" /\ ~job.active /\ Submitting'
  BY <1>1, <1>3 DEF TransportInv, Owned, Submitting
<1>5. TypeOK'
  <2>1. mailbox' \in [id : Nat, request : Request] /\ nextId' \in Nat
    BY <1>1, <1>2
  <2>2. published' \in [id : Nat, state : {"IDLE", "QUEUED", "ACTIVE"} \union Outcomes, completed : Nat]
    BY <1>1, <1>2
  <2> QED
    BY <1>1, <1>3, <2>1, <2>2 DEF TransportInv, TypeOK, Job
<1>6. Owned'
  BY <1>1, <1>4 DEF Owned
<1>7. GoodJob(job)'
  BY <1>1 DEF TransportInv, GoodJob, Finished
<1>8. nextId' = published'.id + 1 /\ published' = [id |-> mailbox'.id, state |-> "QUEUED", completed |-> 0]
  BY <1>1
<1> QED
  BY <1>1, <1>4, <1>5, <1>6, <1>7, <1>8 DEF TransportInv

LEMMA SubmitPostInv == TransportInv /\ SubmitPost => TransportInv'
<1> SUFFICES ASSUME TransportInv, SubmitPost PROVE TransportInv'
  OBVIOUS
<1>1. /\ client.at = "posting" /\ ready' = TRUE
      /\ client' = [client EXCEPT !.at = "idle"]
      /\ UNCHANGED <<now, busy, mailbox, nextId, cancelId, abortId, published, job, tick>>
  BY DEF SubmitPost
<1>2. client \in [at : {"idle", "claimed", "posting", "cancelling", "aborting"}, id : Nat]
  BY DEF TransportInv, TypeOK
<1>3. /\ client' \in [at : {"idle", "claimed", "posting", "cancelling", "aborting"}, id : Nat]
      /\ client'.at = "idle"
  BY <1>1, <1>2
<1>4. busy /\ tick.at # "claimed" /\ ~job.active /\ ~Submitting'
  BY <1>1, <1>3 DEF TransportInv, Owned, Submitting
<1>5. published = [id |-> mailbox.id, state |-> "QUEUED", completed |-> 0]
  BY <1>1 DEF TransportInv
<1>6. TypeOK'
  BY <1>1, <1>3 DEF TransportInv, TypeOK, Job
<1>7. Owned'
  BY <1>1, <1>4, <1>5 DEF Owned
<1>8. GoodJob(job)'
  BY <1>1 DEF TransportInv, GoodJob, Finished
<1> QED
  BY <1>1, <1>3, <1>4, <1>6, <1>7, <1>8 DEF TransportInv

LEMMA ReleaseInv == TransportInv /\ Release => TransportInv'
<1> SUFFICES ASSUME TransportInv, Release PROVE TransportInv'
  OBVIOUS
<1>1. /\ job.active /\ Finished(job) /\ job' = IdleJob /\ busy' = FALSE
      /\ cancelId' \in {0, cancelId} /\ abortId' \in {0, abortId}
      /\ UNCHANGED <<now, ready, mailbox, nextId, published, tick, client>>
  BY DEF Release
<1>2. ~ready /\ tick.at # "claimed" /\ ~Submitting
  BY <1>1 DEF TransportInv, Owned
<1>3. 0 \in Clock /\ 0 \in 0 .. (MaxAttempts - 1) /\ IdleJob.request \in Request
  BY Delays, CountAssumption DEF Request, IdleJob
<1>4. /\ "NONE" \in TxActions /\ "NONE" \in AfterAcks /\ NoIntent \in Ending /\ "NONE" \in Phases
      /\ "NONE" \notin DisconnectPhases
  BY DEF TxActions, AfterAcks, Ending, Phases, DisconnectPhases
<1>5. IdleJob \in Job
  BY <1>3, <1>4 DEF Job, IdleJob
<1>6. IdleJob.tx = "NONE" /\ IdleJob.phase = "NONE" /\ ~IdleJob.active
  BY DEF IdleJob
<1>7. TypeOK'
  <2>1. cancelId' \in Nat /\ abortId' \in Nat
    BY <1>1 DEF TransportInv, TypeOK
  <2>2. job' \in Job
    BY <1>1, <1>5
  <2> QED
    BY <1>1, <2>1, <2>2 DEF TransportInv, TypeOK, Job
<1>8. Owned'
  BY <1>1, <1>2, <1>6 DEF Owned, Submitting
<1>9. GoodJob(job)'
  BY <1>1, <1>4, <1>5, <1>6 DEF GoodJob, Finished
<1> QED
  BY <1>1, <1>2, <1>6, <1>7, <1>8, <1>9 DEF TransportInv, Submitting

LEMMA StutterInv == TransportInv /\ UNCHANGED vars => TransportInv'
<1> SUFFICES ASSUME TransportInv, UNCHANGED vars PROVE TransportInv'
  OBVIOUS
<1> QED
  BY DEF vars, TransportInv, TypeOK, Owned, Submitting, GoodJob, Finished, Job

LEMMA TickIdleInv ==
  ASSUME TransportInv, NEW t \in Clock, TickIdle(t)
  PROVE  TransportInv'
<1>1. /\ now' \in Clock
      /\ UNCHANGED <<busy, ready, mailbox, nextId, cancelId, abortId, published, job, tick, client>>
  BY DEF TickIdle, Begin
<1> QED
  BY <1>1 DEF TransportInv, TypeOK, Owned, Submitting, GoodJob, Finished, Job

LEMMA TickClaimInv ==
  ASSUME TransportInv, NEW t \in Clock, TickClaim(t)
  PROVE  TransportInv'
<1>1. /\ ~job.active /\ ready /\ ready' = FALSE /\ now' = t /\ GoTo("claimed") /\ "claimed" \in TickPlaces
      /\ UNCHANGED <<busy, mailbox, nextId, cancelId, abortId, published, job, client>>
  BY DEF TickClaim, Begin, TickPlaces
<1>2. tick' \in TickRecord /\ tick'.at = "claimed"
  BY <1>1, GoesTo
<1>3. TypeOK'
  BY <1>1, <1>2 DEF TransportInv, TypeOK, TickRecord, Job
<1>4. Owned'
  BY <1>1, <1>2 DEF TransportInv, Owned, Submitting
<1>5. GoodJob(job)'
  BY <1>1 DEF TransportInv, GoodJob, Finished
<1> QED
  BY <1>1, <1>2, <1>3, <1>4, <1>5 DEF TransportInv, Finished, JobPlaces

(* The steps of the transport, by what they do to the slot. *)
LEMMA StepKinds ==
  ASSUME TransportInv, Next
  PROVE  \/ CanTaskMoves
         \/ Release
         \/ SubmitClaim
         \/ \E request \in Request : SubmitPublish(request)
         \/ SubmitPost
         \/ \E t \in Clock : TickIdle(t) \/ TickClaim(t)
         \/ StoreCancel \/ StoreAbort
         \/ \E intention \in {"cancelling", "aborting"} : Check(intention)
<1>1. ASSUME NEW step \in 0 .. MaxStep, TickStart(step)
      PROVE  CanTaskMoves \/ \E t \in Clock : TickIdle(t) \/ TickClaim(t)
  <2>1. step \in Nat
    <3>1. MaxStep \in Nat
      <4>1. PICK h \in Nat : h = HalfClock
        BY ClockAssumption
      <4> QED
        BY <4>1, ClockAssumption
    <3> QED
      BY <3>1
  <2>2. PICK t \in Clock : t = After(now, step)
    BY <2>1, AfterInClock DEF TransportInv, TypeOK
  <2>3. TickIdle(t) \/ TickClaim(t) \/ TickJob(t) \/ \E accepted \in BOOLEAN : TickCleanup(t, accepted)
    BY <1>1, <2>2 DEF TickStart
  <2> QED
    BY <2>3, TickMoves
<1>2. TickOn => CanTaskMoves
  <2>1. \E t \in Clock : TRUE
    BY DEF TransportInv, TypeOK
  <2> QED
    BY <2>1, TickMoves DEF TickOn
<1>3. Observe => CanTaskMoves
  BY ObserveMoves
<1> QED
  BY <1>1, <1>2, <1>3 DEF Next, Begun

LEMMA TransportStep == TransportInv /\ [Next]_vars => TransportInv'
<1> SUFFICES ASSUME TransportInv, [Next]_vars PROVE TransportInv'
  OBVIOUS
<1>1. client \in [at : {"idle", "claimed", "posting", "cancelling", "aborting"}, id : Nat]
  BY DEF TransportInv, TypeOK
<1>2. CASE CanTaskMoves
  BY <1>2, JobMovesInv DEF CanTaskMoves
<1>3. CASE StoreCancel \/ StoreAbort
  <2>1. /\ client.at \in {"cancelling", "aborting"} /\ client' = [client EXCEPT !.at = "idle"]
        /\ cancelId' \in {cancelId, client.id} /\ abortId' \in {abortId, client.id}
        /\ UNCHANGED <<now, busy, ready, mailbox, nextId, published, job>>
    BY <1>3 DEF StoreCancel, StoreAbort
  <2>3. tick' \in TickRecord /\ tick'.at = tick.at
    <3>1. tick \in TickRecord /\ PastLook \in BOOLEAN
      BY DEF TransportInv, TypeOK, TickRecord, PastLook
    <3>2. CASE StoreCancel
      <4>1. PICK late \in BOOLEAN : tick' = [tick EXCEPT !.late = late]
        BY <3>1, <3>2 DEF StoreCancel, TickRecord
      <4> QED
        BY <3>1, <4>1 DEF TickRecord
    <3>3. CASE StoreAbort
      BY <3>1, <3>3 DEF StoreAbort
    <3> QED
      BY <1>3, <3>2, <3>3
  <2>2. /\ client' \in [at : {"idle", "cancelling", "aborting"}, id : Nat]
        /\ client.id \in Nat /\ cancelId \in Nat /\ abortId \in Nat
    BY <1>1, <2>1 DEF TransportInv, TypeOK
  <2> QED
    BY <2>1, <2>2, <2>3, IntentInv
<1>4. ASSUME NEW intention \in {"cancelling", "aborting"}, Check(intention)
      PROVE  TransportInv'
  <2>1. /\ client.at = "idle" /\ client' = [at |-> intention, id |-> published.id]
        /\ UNCHANGED <<now, busy, ready, mailbox, nextId, cancelId, abortId, published, job, tick>>
    BY <1>4 DEF Check
  <2>2. published.id \in Nat /\ cancelId \in Nat /\ abortId \in Nat /\ tick \in TickRecord
    BY DEF TransportInv, TypeOK, TickRecord
  <2> QED
    BY <2>1, <2>2, IntentInv
<1> QED
  BY <1>2, <1>3, <1>4, StepKinds, ReleaseInv, SubmitClaimInv, SubmitPublishInv, SubmitPostInv,
     TickIdleInv, TickClaimInv, StutterInv

-----------------------------------------------------------------------------
(* The invariant holds. *)
LEMMA TransportInvariant == Spec => []TransportInv
BY InitInv, TransportStep, PTL DEF Spec

(* Every variable keeps its type for every clock and every bound; a frame is *)
(* given up after at most kDiagnosticTxMaximumAttempts refusals.             *)
THEOREM TransportTypeOK == Spec => []TypeOK
<1>1. TransportInv => TypeOK
  BY DEF TransportInv
<1> QED
  BY <1>1, TransportInvariant, PTL

(* The slot has exactly one owner while busy is set and none otherwise, so   *)
(* mailbox and result have one writer at a time.                             *)
THEOREM SlotHasOneOwner == Spec => []SlotOwnership
<1>1. TransportInv => SlotOwnership
  BY OneOwner DEF TransportInv
<1> QED
  BY <1>1, TransportInvariant, PTL

-----------------------------------------------------------------------------
(* Refinement. *)

LEMMA SlotInit == Init => Slot!Init
BY DEF Init, Slot!Init, SlotState

LEMMA SlotStep ==
  ASSUME TransportInv, TransportInv', [Next]_vars
  PROVE  [Slot!Next]_<<SlotState, published>>
<1>1. ASSUME NEW j, JobMoves(j)
      PROVE  [Slot!Next]_<<SlotState, published>>
  <2>1. /\ busy /\ busy' = busy /\ client' = client /\ client.at # "claimed"
        /\ published.state \in {"QUEUED", "ACTIVE"}
    BY <1>1 DEF JobMoves, TransportInv, Owned, Submitting
  <2>2. SlotState = "running"
    BY <2>1 DEF SlotState, Outcomes
  <2>3. /\ published \in [id : Nat, state : {"IDLE", "QUEUED", "ACTIVE"} \union Outcomes, completed : Nat]
        /\ published' \in [id : Nat, state : {"IDLE", "QUEUED", "ACTIVE"} \union Outcomes, completed : Nat]
        /\ published'.id = published.id /\ published'.completed >= published.completed
    BY <1>1, SettleShows DEF TransportInv, TypeOK
  <2>4. \A state : published'.state = state => Slot!Forward(state)
    BY <2>3 DEF Slot!Forward
  <2>5. CASE Finished(j)
    <3>1. published'.state \in Outcomes
      BY <1>1, <2>5, SettleShows
    <3>2. SlotState' = "done"
      BY <2>1, <3>1 DEF SlotState
    <3> QED
      BY <2>2, <2>4, <3>1, <3>2 DEF Slot!End, Slot!Next, Slot!Outcome, Outcomes
  <2>6. CASE published' = published
    <3>1. SlotState' = SlotState
      BY <2>1, <2>6 DEF SlotState
    <3> QED
      BY <2>6, <3>1
  <2>7. CASE published'.state = "ACTIVE"
    <3>1. SlotState' = "running"
      BY <2>1, <2>7 DEF SlotState, Outcomes
    <3> QED
      BY <2>2, <2>4, <2>7, <3>1 DEF Slot!Progress, Slot!Next
  <2> QED
    BY <1>1, <2>5, <2>6, <2>7, SettleShows
<1>2. ASSUME Release
      PROVE  Slot!Next
  <2>1. job.active /\ Finished(job) /\ busy' = FALSE /\ published' = published
    BY <1>2 DEF Release
  <2>2. busy /\ client.at # "claimed" /\ published.state \in Outcomes
    BY <2>1 DEF TransportInv, Owned, Submitting
  <2>3. SlotState = "done" /\ SlotState' = "free"
    BY <2>1, <2>2 DEF SlotState
  <2> QED
    BY <2>1, <2>3 DEF Slot!Free, Slot!Next
<1>3. ASSUME SubmitClaim
      PROVE  Slot!Next
  <2>1. /\ ~busy /\ busy' = TRUE /\ client' = [client EXCEPT !.at = "claimed"] /\ published' = published
        /\ client \in [at : {"idle", "claimed", "posting", "cancelling", "aborting"}, id : Nat]
    BY <1>3 DEF SubmitClaim, TransportInv, TypeOK
  <2>2. client'.at = "claimed"
    BY <2>1
  <2>3. SlotState = "free" /\ SlotState' = "taken"
    BY <2>1, <2>2 DEF SlotState
  <2> QED
    BY <2>1, <2>3 DEF Slot!Take, Slot!Next
<1>4. ASSUME NEW request \in Request, SubmitPublish(request)
      PROVE  Slot!Next
  <2>1. /\ client.at = "claimed" /\ client' = [client EXCEPT !.at = "posting"] /\ busy' = busy
        /\ published' = [id |-> nextId, state |-> "QUEUED", completed |-> 0]
        /\ client \in [at : {"idle", "claimed", "posting", "cancelling", "aborting"}, id : Nat]
        /\ nextId = published.id + 1
    BY <1>4 DEF SubmitPublish, TransportInv, TypeOK
  <2>2. busy /\ client'.at = "posting" /\ published'.state = "QUEUED"
    BY <2>1 DEF TransportInv, Owned, Submitting
  <2>3. SlotState = "taken" /\ SlotState' = "running"
    BY <2>1, <2>2 DEF SlotState, Outcomes
  <2> QED
    BY <2>1, <2>3 DEF Slot!Queue, Slot!Next
<1>5. ASSUME client.at # "claimed", client'.at # "claimed", UNCHANGED <<busy, published>>
      PROVE  UNCHANGED <<SlotState, published>>
  BY <1>5 DEF SlotState
<1>6. client \in [at : {"idle", "claimed", "posting", "cancelling", "aborting"}, id : Nat]
  BY DEF TransportInv, TypeOK
<1>7. ASSUME SubmitPost \/ StoreCancel \/ StoreAbort \/ \E i \in {"cancelling", "aborting"} : Check(i)
      PROVE  UNCHANGED <<SlotState, published>>
  <2>1. client.at # "claimed" /\ client'.at # "claimed" /\ UNCHANGED <<busy, published>>
    BY <1>6, <1>7 DEF SubmitPost, StoreCancel, StoreAbort, Check
  <2> QED
    BY <1>5, <2>1
<1>8. ASSUME (\E t \in Clock : TickIdle(t) \/ TickClaim(t)) \/ UNCHANGED vars
      PROVE  UNCHANGED <<SlotState, published>>
  BY <1>8 DEF TickIdle, TickClaim, vars, SlotState
<1> QED
  BY <1>1, <1>2, <1>3, <1>4, <1>7, <1>8, StepKinds DEF CanTaskMoves

(* The mailbox, the job and the result, spread over two cores, are one slot  *)
(* with new ids, a result that never goes back, and one outcome per job.     *)
THEOREM TransportImplementsSlot == Spec => ImplementsSlot
<1>1. TransportInv /\ TransportInv' /\ [Next]_vars => [Slot!Next]_<<SlotState, published>>
  BY SlotStep
<1> QED
  BY <1>1, SlotInit, TransportInvariant, PTL DEF Spec, ImplementsSlot, Slot!Spec

-----------------------------------------------------------------------------
(* Requests and the goodbye: what the phase of a job says of them. *)

(* The frame that is staged while a phase waits for the driver to take it. *)
Staged(phase) ==
  CASE phase = "ISO_SEND_REQUEST" -> "ISO_REQUEST"
    [] phase = "ISO_SEND_FLOW_CONTROL" -> "ISO_FLOW_CONTROL"
    [] phase = "TP20_SEND_SETUP" -> "SETUP"
    [] phase = "TP20_SEND_PARAMS" -> "PARAMS"
    [] phase = "TP20_SEND_SESSION" -> "SESSION"
    [] phase = "TP20_SEND_REQUEST" -> "REQUEST"
    [] phase = "TP20_SEND_ACK" -> "ACK"
    [] phase = "TP20_SEND_CHANNEL_TEST" -> "CHANNEL_TEST"
    [] phase = "TP20_SEND_DISCONNECT" -> "DISCONNECT"
    [] OTHER -> "NONE"

(* No application request is unanswered, and at least one is still to be sent. *)
ReadyPhases ==
  {"ISO_SEND_REQUEST", "TP20_SEND_SETUP", "TP20_WAIT_SETUP", "TP20_SEND_PARAMS", "TP20_WAIT_PARAMS",
   "TP20_SEND_SESSION", "TP20_WAIT_SESSION_ACK", "TP20_WAIT_SESSION_RESPONSE", "TP20_SEND_REQUEST",
   "TP20_WAIT_REPEAT", "TP20_SEND_CHANNEL_TEST", "TP20_WAIT_CHANNEL_TEST"}
ReadyAcks == {"WAIT_SESSION_RESPONSE", "SESSION_COMPLETE"}
Ready(j) == j.requests = j.completed /\ j.completed < j.request.repeat

(* One was sent and is not answered yet. *)
AwaitingPhases ==
  {"ISO_WAIT_RESPONSE", "ISO_SEND_FLOW_CONTROL", "ISO_WAIT_CONSECUTIVE",
   "TP20_WAIT_REQUEST_ACK", "TP20_WAIT_REQUEST_RESPONSE"}
AwaitingAcks == {"WAIT_REQUEST_RESPONSE", "REQUEST_PENDING", "REQUEST_COMPLETE"}
Awaiting(j) == j.requests = j.completed + 1 /\ j.requests <= j.request.repeat

SetupPhases == {"TP20_SEND_SETUP", "TP20_WAIT_SETUP"}

(* What holds of a job wherever it is. *)
Sound(j) ==
  /\ j.requests <= j.completed + 1
  /\ j.requests <= j.request.repeat
  /\ j.completed <= j.requests
  /\ j.open => j.request.protocol = "VW_TP20"

(* What an exchange may go on with. *)
Permits(j, outcome) ==
  /\ outcome \in ReadyAcks => Ready(j)
  /\ outcome \in AwaitingAcks => Awaiting(j)

(* The phase may follow. *)
Fits(j, phase) ==
  /\ phase \in ReadyPhases => Ready(j)
  /\ phase \in AwaitingPhases => Awaiting(j)
  /\ phase = "TP20_SEND_ACK" => Permits(j, j.afterAck)
  /\ phase \in SetupPhases => ~j.open /\ j.request.protocol = "VW_TP20"
  /\ j.terminal # NoIntent /\ phase # "NONE" => phase \in DisconnectPhases
  /\ phase = "TP20_WAIT_DISCONNECT" => j.farewell

Parted(j) ==
  j.active /\ j.open =>
    \/ j.farewell /\ j.outcome = j.terminal
    \/ j.outcome.error = "EXTERNAL_TESTER_COLLISION"

Ordered(j) ==
  /\ Sound(j)
  /\ j.tx = Staged(j.phase)
  /\ Fits(j, j.phase)
  /\ Finished(j) => Parted(j)

(* k comes of j in order, and no request was sent. *)
Follows(j, k) == Ordered(k) /\ k.requests = j.requests

(* What the two have in common when only the exchange moved. *)
Carried(j, k) ==
  /\ k.request = j.request /\ k.open = j.open /\ k.requests = j.requests
  /\ k.completed = j.completed /\ k.active = j.active /\ k.farewell = j.farewell

LEMMA CarriedSound ==
  ASSUME NEW j, NEW k, Carried(j, k), Sound(j)
  PROVE  /\ Sound(k) /\ (Ready(j) => Ready(k)) /\ (Awaiting(j) => Awaiting(k))
         /\ \A outcome : Permits(j, outcome) => Permits(k, outcome)
BY DEF Carried, Sound, Ready, Awaiting, Permits

LEMMA StageTxFollows ==
  ASSUME NEW j \in Job, Sound(j), NEW phase \in Phases \ {"NONE"}, Fits(j, phase)
  PROVE  Follows(j, StageTx(j, Staged(phase), phase))
<1> DEFINE k == StageTx(j, Staged(phase), phase)
<1>1. /\ k.tx = Staged(phase) /\ k.phase = phase /\ k.terminal = j.terminal
      /\ k.afterAck = j.afterAck /\ Carried(j, k)
  BY DEF Job, StageTx, Carried
<1> HIDE DEF k
<1>2. Sound(k) /\ k.requests = j.requests
  BY <1>1, CarriedSound DEF Carried
<1>3. Fits(k, phase)
  BY <1>1, CarriedSound DEF Fits, Carried
<1> QED
  BY <1>1, <1>2, <1>3 DEF Follows, Ordered, Finished, k

LEMMA FinishFollows ==
  ASSUME NEW j \in Job, Sound(j), NEW state, NEW error,
         j.active /\ j.open => \/ j.farewell /\ j.terminal = [state |-> state, error |-> error]
                               \/ error = "EXTERNAL_TESTER_COLLISION"
  PROVE  Follows(j, Finish(j, state, error)) /\ Finished(Finish(j, state, error))
<1> DEFINE c == ClearPendingTx(j)
           ending == [state |-> state, error |-> error]
           k == [c EXCEPT !.phase = "NONE", !.outcome = ending]
<1>1. /\ k.tx = "NONE" /\ k.phase = "NONE" /\ k.terminal = j.terminal
      /\ k.outcome = ending /\ Carried(j, k)
  BY DEF Job, ClearPendingTx, Carried
<1>2. ending.error = error
  OBVIOUS
<1>3. k = Finish(j, state, error)
  BY DEF Finish
<1> HIDE DEF c, k
<1>4. Sound(k) /\ k.requests = j.requests
  BY <1>1, CarriedSound DEF Carried
<1>5. Fits(k, "NONE") /\ Staged("NONE") = "NONE"
  BY DEF Fits, ReadyPhases, AwaitingPhases, SetupPhases, Staged
<1>6. Parted(k)
  BY <1>1, <1>2 DEF Parted, Carried
<1> QED
  BY <1>1, <1>3, <1>4, <1>5, <1>6 DEF Follows, Ordered, Finished

LEMMA RequestFinishFollows ==
  ASSUME NEW j \in Job, Sound(j), NEW state \in Outcomes, NEW error \in Errors
  PROVE  /\ Follows(j, RequestFinish(j, state, error))
         /\ RequestFinish(j, state, error).phase \in {"NONE", "TP20_SEND_DISCONNECT"}
<1>1. CASE j.request.protocol = "VW_TP20" /\ j.open
  <2> DEFINE ending == [state |-> state, error |-> error]
             k == [j EXCEPT !.terminal = ending]
             phase == "TP20_SEND_DISCONNECT"
  <2>1. ending \in Ending
    BY DEF Ending, Errors
  <2> HIDE DEF ending
  <2>2. k \in Job /\ Carried(j, k)
    BY <2>1 DEF Job, Carried
  <2>3. StageTx(k, "DISCONNECT", phase).phase = phase
    BY DEF StageTx, Job
  <2>4. RequestFinish(j, state, error) = StageTx(k, "DISCONNECT", phase)
    BY <1>1 DEF RequestFinish, StageDisconnect, ending
  <2> HIDE DEF k
  <2>5. /\ phase \in Phases \ {"NONE"} /\ Staged(phase) = "DISCONNECT"
        /\ Fits(k, phase)
    BY DEF Phases, Staged, Fits, ReadyPhases, AwaitingPhases, SetupPhases, DisconnectPhases
  <2>6. Follows(k, StageTx(k, "DISCONNECT", phase))
    BY <2>2, <2>5, StageTxFollows, CarriedSound
  <2> QED
    BY <2>2, <2>3, <2>4, <2>6 DEF Follows, Carried
<1>2. CASE ~(j.request.protocol = "VW_TP20" /\ j.open)
  BY <1>2, FinishFollows DEF RequestFinish, Sound, Finished
<1> QED
  BY <1>1, <1>2

LEMMA FailFollows ==
  ASSUME NEW j \in Job, Sound(j), NEW error \in Errors
  PROVE  Follows(j, Fail(j, error)) /\ Fail(j, error).phase \in {"NONE", "TP20_SEND_DISCONNECT"}
BY RequestFinishFollows DEF Fail, Outcomes

LEMMA FinalizeFollows ==
  ASSUME NEW j \in Job, Sound(j), j.terminal # NoIntent, j.farewell
  PROVE  Follows(j, FinalizeTerminalIntent(j))
<1>1. j.terminal \in Ending
  BY DEF Job
<1>2. j.terminal = [state |-> j.terminal.state, error |-> j.terminal.error]
  BY <1>1 DEF Ending
<1> QED
  BY <1>2, FinishFollows DEF FinalizeTerminalIntent

(* A request is staged only when none is unanswered. *)
LEMMA StageKwpRequestFollows ==
  ASSUME NEW j \in Job, Sound(j), Ready(j), j.terminal = NoIntent, NEW session \in BOOLEAN
  PROVE  Follows(j, StageKwpRequest(j, session))
<1> DEFINE k == [j EXCEPT !.reply = "NONE"]
<1>1. k \in Job /\ Carried(j, k) /\ k.terminal = j.terminal
  BY DEF Job, Carried
<1> HIDE DEF k
<1>2. Sound(k) /\ Ready(k) /\ k.terminal = NoIntent /\ k.requests = j.requests
  BY <1>1, CarriedSound DEF Carried
<1>3. \A phase \in {"TP20_SEND_SESSION", "TP20_SEND_REQUEST"} :
        phase \in Phases \ {"NONE"} /\ Fits(k, phase)
  BY <1>2 DEF Phases, Fits, AwaitingPhases, SetupPhases
<1>4. Staged("TP20_SEND_SESSION") = "SESSION" /\ Staged("TP20_SEND_REQUEST") = "REQUEST"
  BY DEF Staged
<1>5. /\ Follows(k, StageTx(k, "SESSION", "TP20_SEND_SESSION"))
      /\ Follows(k, StageTx(k, "REQUEST", "TP20_SEND_REQUEST"))
  BY <1>1, <1>2, <1>3, <1>4, StageTxFollows
<1>6. StageKwpRequest(j, session) \in
        {StageTx(k, "SESSION", "TP20_SEND_SESSION"), StageTx(k, "REQUEST", "TP20_SEND_REQUEST")}
  BY DEF StageKwpRequest, k
<1> QED
  BY <1>2, <1>5, <1>6 DEF Follows

(* The answer is credited to the one request that was sent. *)
LEMMA CompleteKwpRequestFollows ==
  ASSUME NEW j \in Job, Sound(j), Awaiting(j), j.tx = "NONE", j.terminal = NoIntent, NEW t \in Clock
  PROVE  Follows(j, CompleteKwpRequest(j, t))
<1>1. j.completed \in Nat /\ j.requests \in Nat /\ j.request \in Request
  BY DEF Job
<1>2. PICK repeat \in Nat : repeat = j.request.repeat
  BY <1>1, CountAssumption DEF Request
<1>3. PICK n \in Nat : n = j.completed + 1
  BY <1>1
<1>4. n = j.requests /\ n <= repeat
  BY <1>1, <1>2, <1>3 DEF Awaiting
<1> DEFINE k == [j EXCEPT !.completed = n]
           l == [j EXCEPT !.completed = n, !.phase = "TP20_WAIT_REPEAT",
                          !.repeatAt = After(t, RepeatInterval), !.due = After(t, TestInterval)]
<1>5. CompleteKwpRequest(j, t) =
        IF n >= repeat THEN RequestFinish(k, "COMPLETE", "NONE") ELSE l
  BY <1>2, <1>3 DEF CompleteKwpRequest
<1>6. /\ k \in Job /\ k.completed = n /\ k.requests = n /\ k.request = j.request /\ k.open = j.open
  BY <1>4 DEF Job
<1>7. /\ l.completed = n /\ l.requests = n /\ l.request = j.request /\ l.open = j.open
      /\ l.phase = "TP20_WAIT_REPEAT" /\ l.tx = "NONE" /\ l.terminal = NoIntent
  BY <1>4 DEF Job
<1> HIDE DEF k, l
<1>8. Sound(k) /\ Sound(l)
  BY <1>2, <1>3, <1>4, <1>6, <1>7 DEF Sound
<1>9. Follows(k, RequestFinish(k, "COMPLETE", "NONE"))
  BY <1>6, <1>8, RequestFinishFollows DEF Outcomes, Errors
<1>10. ASSUME ~(n >= repeat)
       PROVE  Follows(j, l)
  <2>1. Ready(l)
    BY <1>2, <1>3, <1>7, <1>10 DEF Ready
  <2>2. Fits(l, "TP20_WAIT_REPEAT") /\ Staged("TP20_WAIT_REPEAT") = "NONE"
    BY <1>7, <2>1 DEF Fits, AwaitingPhases, SetupPhases, Staged
  <2> QED
    BY <1>4, <1>7, <1>8, <2>2 DEF Follows, Ordered, Finished
<1> QED
  BY <1>4, <1>5, <1>6, <1>9, <1>10 DEF Follows

(* The phase changes and nothing is staged. *)
LEMMA PhaseFollows ==
  ASSUME NEW j \in Job, NEW k, Sound(j), Carried(j, k), j.terminal = NoIntent,
         k.terminal = j.terminal, k.tx = "NONE", k.phase \in Phases \ {"NONE"},
         Staged(k.phase) = "NONE", Fits(j, k.phase)
  PROVE  Follows(j, k)
<1>1. Sound(k) /\ k.requests = j.requests
  BY CarriedSound DEF Carried
<1>2. k.phase # "TP20_SEND_ACK"
  BY DEF Staged
<1>3. Fits(k, k.phase)
  BY <1>2, CarriedSound DEF Fits, Carried
<1> QED
  BY <1>1, <1>3 DEF Follows, Ordered, Finished

LEMMA ContinueFollows ==
  ASSUME NEW j \in Job, Sound(j), j.tx = "NONE", j.terminal = NoIntent,
         NEW outcome \in AfterAcks \ {"NONE"}, Permits(j, outcome), NEW t \in Clock
  PROVE  Follows(j, Continue(j, outcome, t))
<1> DEFINE k1 == [j EXCEPT !.phase = "TP20_WAIT_SESSION_RESPONSE"]
           k2 == [j EXCEPT !.phase = "TP20_WAIT_REQUEST_RESPONSE"]
           k3 == [j EXCEPT !.reply = "NONE", !.phase = "TP20_WAIT_REQUEST_RESPONSE"]
<1>1. /\ Carried(j, k1) /\ k1.terminal = j.terminal /\ k1.tx = "NONE"
      /\ k1.phase = "TP20_WAIT_SESSION_RESPONSE"
  BY DEF Job, Carried
<1>2. /\ Carried(j, k2) /\ k2.terminal = j.terminal /\ k2.tx = "NONE"
      /\ k2.phase = "TP20_WAIT_REQUEST_RESPONSE"
  BY DEF Job, Carried
<1>3. /\ Carried(j, k3) /\ k3.terminal = j.terminal /\ k3.tx = "NONE"
      /\ k3.phase = "TP20_WAIT_REQUEST_RESPONSE"
  BY DEF Job, Carried
<1>4. \A phase \in {"TP20_WAIT_SESSION_RESPONSE", "TP20_WAIT_REQUEST_RESPONSE"} :
        phase \in Phases \ {"NONE"} /\ Staged(phase) = "NONE"
  BY DEF Phases, Staged
<1>5. /\ Ready(j) => Fits(j, "TP20_WAIT_SESSION_RESPONSE")
      /\ Awaiting(j) => Fits(j, "TP20_WAIT_REQUEST_RESPONSE")
  BY DEF Fits, ReadyPhases, AwaitingPhases, SetupPhases
<1>6. CASE outcome = "WAIT_SESSION_RESPONSE"
  <2>1. Continue(j, outcome, t) = k1 /\ Ready(j)
    BY <1>6 DEF Continue, Permits, ReadyAcks
  <2> HIDE DEF k1
  <2> QED
    BY <1>1, <1>4, <1>5, <2>1, PhaseFollows
<1>7. CASE outcome = "WAIT_REQUEST_RESPONSE"
  <2>1. Continue(j, outcome, t) = k2 /\ Awaiting(j)
    BY <1>7 DEF Continue, Permits, AwaitingAcks
  <2> HIDE DEF k2
  <2> QED
    BY <1>2, <1>4, <1>5, <2>1, PhaseFollows
<1>8. CASE outcome = "REQUEST_PENDING"
  <2>1. Continue(j, outcome, t) = k3 /\ Awaiting(j)
    BY <1>8 DEF Continue, Permits, AwaitingAcks
  <2> HIDE DEF k3
  <2> QED
    BY <1>3, <1>4, <1>5, <2>1, PhaseFollows
<1>9. CASE outcome = "SESSION_COMPLETE"
  BY <1>9, StageKwpRequestFollows DEF Continue, Permits, ReadyAcks
<1>10. CASE outcome = "REQUEST_COMPLETE"
  BY <1>10, CompleteKwpRequestFollows DEF Continue, Permits, AwaitingAcks
<1>11. CASE outcome = "FAILED"
  BY <1>11, FailFollows DEF Continue, Errors
<1> QED
  BY <1>6, <1>7, <1>8, <1>9, <1>10, <1>11 DEF AfterAcks

LEMMA StagedInverse ==
  ASSUME NEW phase \in Phases, Staged(phase) # "NONE"
  PROVE  <<phase, Staged(phase)>> \in
           {<<"ISO_SEND_REQUEST", "ISO_REQUEST">>, <<"ISO_SEND_FLOW_CONTROL", "ISO_FLOW_CONTROL">>,
            <<"TP20_SEND_SETUP", "SETUP">>, <<"TP20_SEND_PARAMS", "PARAMS">>,
            <<"TP20_SEND_SESSION", "SESSION">>, <<"TP20_SEND_REQUEST", "REQUEST">>,
            <<"TP20_SEND_ACK", "ACK">>, <<"TP20_SEND_CHANNEL_TEST", "CHANNEL_TEST">>,
            <<"TP20_SEND_DISCONNECT", "DISCONNECT">>}
BY DEF Phases, Staged

LEMMA ClearPendingTxCarries ==
  ASSUME NEW j \in Job
  PROVE  /\ Carried(j, ClearPendingTx(j)) /\ ClearPendingTx(j) \in Job
         /\ ClearPendingTx(j).tx = "NONE" /\ ClearPendingTx(j).terminal = j.terminal
         /\ ClearPendingTx(j).afterAck = j.afterAck
<1>1. 0 \in Clock /\ 0 \in 0 .. (MaxAttempts - 1) /\ "NONE" \in TxActions
  BY Delays, CountAssumption DEF TxActions
<1> QED
  BY <1>1 DEF Job, ClearPendingTx, Carried

LEMMA ApplyAfterAckFollows ==
  ASSUME NEW j \in Job, Sound(j), j.tx = "NONE", j.terminal = NoIntent, j.afterAck # "NONE",
         Permits(j, j.afterAck), NEW t \in Clock
  PROVE  Follows(j, ApplyAfterAck(j, t))
<1> DEFINE k == [j EXCEPT !.afterAck = "NONE"]
<1>1. j.afterAck \in AfterAcks \ {"NONE"} /\ "NONE" \in AfterAcks
  BY DEF Job, AfterAcks
<1>2. k \in Job /\ Carried(j, k) /\ k.terminal = j.terminal /\ k.tx = j.tx
  BY <1>1 DEF Job, Carried
<1>3. ApplyAfterAck(j, t) = Continue(k, j.afterAck, t)
  BY DEF ApplyAfterAck
<1> HIDE DEF k
<1>4. Sound(k) /\ Permits(k, j.afterAck) /\ k.requests = j.requests
  BY <1>2, CarriedSound DEF Carried
<1>5. Follows(k, Continue(k, j.afterAck, t))
  BY <1>1, <1>2, <1>4, ContinueFollows
<1> QED
  BY <1>3, <1>4, <1>5 DEF Follows

(* The request that was sent is the one that is awaited from now on. *)
LEMMA RequestSent ==
  ASSUME NEW j \in Job, Sound(j), Ready(j), j.tx = "NONE", j.terminal = NoIntent,
         NEW phase \in {"ISO_WAIT_RESPONSE", "TP20_WAIT_REQUEST_ACK"}
  PROVE  Ordered([j EXCEPT !.phase = phase, !.requests = @ + 1])
<1>1. j.completed \in Nat /\ j.requests \in Nat /\ j.request \in Request
  BY DEF Job
<1>2. PICK repeat \in Nat : repeat = j.request.repeat
  BY <1>1, CountAssumption DEF Request
<1>3. PICK n \in Nat : n = j.completed
  BY <1>1
<1>4. PICK m \in Nat : m = n + 1
  BY <1>3
<1>5. j.requests = n /\ m <= repeat
  BY <1>2, <1>3, <1>4 DEF Ready
<1> DEFINE k == [j EXCEPT !.phase = phase, !.requests = m]
<1>6. [j EXCEPT !.phase = phase, !.requests = @ + 1] = k
  BY <1>4, <1>5
<1>7. /\ k.phase = phase /\ k.requests = m /\ k.completed = n /\ k.request = j.request
      /\ k.open = j.open /\ k.tx = "NONE" /\ k.terminal = NoIntent
  BY <1>3 DEF Job
<1> HIDE DEF k
<1>8. Sound(k) /\ Awaiting(k)
  BY <1>2, <1>3, <1>4, <1>5, <1>7 DEF Sound, Awaiting
<1>9. Fits(k, phase) /\ Staged(phase) = "NONE" /\ phase # "NONE"
  BY <1>7, <1>8 DEF Fits, ReadyPhases, SetupPhases, Staged
<1> QED
  BY <1>6, <1>7, <1>8, <1>9 DEF Ordered, Finished

(* Only two frames are application requests. *)
LEMMA HandleSuccessfulTxOrdered ==
  ASSUME NEW j, GoodJob(j), Ordered(j), j.tx # "NONE", NEW t \in Clock
  PROVE  LET k == HandleSuccessfulTx(ClearPendingTx(j), j.tx, t)
         IN  /\ Ordered(k)
             /\ j.tx \notin {"ISO_REQUEST", "REQUEST"} => k.requests = j.requests
<1> DEFINE c == ClearPendingTx(j)
           action == j.tx
<1>1. j \in Job /\ j.phase \in Phases /\ action \in TxActions \ {"NONE"} /\ action = Staged(j.phase)
  BY DEF GoodJob, Job, Ordered
<1>2. Carried(j, c) /\ c \in Job /\ c.tx = "NONE" /\ c.terminal = j.terminal /\ c.afterAck = j.afterAck
  BY <1>1, ClearPendingTxCarries
<1>3. HandleSuccessfulTx(ClearPendingTx(j), j.tx, t) = HandleSuccessfulTx(c, action, t)
  OBVIOUS
<1> HIDE DEF c
<1>4. Sound(c) /\ c.requests = j.requests /\ (Ready(j) => Ready(c)) /\ (Awaiting(j) => Awaiting(c))
  BY <1>2, CarriedSound DEF Ordered, Carried
<1>5. Fits(j, j.phase)
  BY DEF Ordered
<1>6. action # "DISCONNECT" => c.terminal = NoIntent
  <2>1. j.phase # "NONE" /\ (j.phase \in DisconnectPhases => action = "DISCONNECT" \/ action = "NONE")
    BY <1>1 DEF Staged, DisconnectPhases
  <2> QED
    BY <1>1, <1>2, <1>5, <2>1 DEF Fits
<1>7. ASSUME NEW phase \in Phases \ {"NONE"}, NEW k, Carried(c, k), k.terminal = c.terminal, k.tx = "NONE",
             k.phase = phase, Staged(phase) = "NONE", Fits(c, phase), action # "DISCONNECT"
      PROVE  Follows(j, k)
  BY <1>2, <1>4, <1>6, <1>7, PhaseFollows DEF Follows
<1>8. CASE action = "ISO_REQUEST"
  <2>1. j.phase = "ISO_SEND_REQUEST"
    BY <1>1, <1>8, StagedInverse
  <2>2. Ready(c)
    BY <1>4, <1>5, <2>1 DEF Fits, ReadyPhases
  <2>3. Ordered([c EXCEPT !.phase = "ISO_WAIT_RESPONSE", !.requests = @ + 1])
    BY <1>2, <1>4, <1>6, <1>8, <2>2, RequestSent
  <2> QED
    BY <1>3, <1>8, <2>3 DEF HandleSuccessfulTx
<1>9. CASE action = "REQUEST"
  <2>1. j.phase = "TP20_SEND_REQUEST"
    BY <1>1, <1>9, StagedInverse
  <2>2. Ready(c)
    BY <1>4, <1>5, <2>1 DEF Fits, ReadyPhases
  <2>3. Ordered([c EXCEPT !.phase = "TP20_WAIT_REQUEST_ACK", !.requests = @ + 1])
    BY <1>2, <1>4, <1>6, <1>9, <2>2, RequestSent
  <2> QED
    BY <1>3, <1>9, <2>3 DEF HandleSuccessfulTx
<1>10. CASE action = "ISO_FLOW_CONTROL"
  <2> DEFINE k == [c EXCEPT !.phase = "ISO_WAIT_CONSECUTIVE"]
  <2>1. j.phase = "ISO_SEND_FLOW_CONTROL"
    BY <1>1, <1>10, StagedInverse
  <2>2. Awaiting(c)
    BY <1>4, <1>5, <2>1 DEF Fits, AwaitingPhases
  <2>3. /\ k.phase = "ISO_WAIT_CONSECUTIVE" /\ Carried(c, k) /\ k.terminal = c.terminal /\ k.tx = "NONE"
        /\ HandleSuccessfulTx(c, action, t) = k
    BY <1>2, <1>10 DEF Job, Carried, HandleSuccessfulTx
  <2>4. /\ "ISO_WAIT_CONSECUTIVE" \in Phases \ {"NONE"} /\ Staged("ISO_WAIT_CONSECUTIVE") = "NONE"
        /\ Fits(c, "ISO_WAIT_CONSECUTIVE")
    BY <1>6, <1>10, <2>2 DEF Phases, Staged, Fits, ReadyPhases, SetupPhases
  <2> HIDE DEF k
  <2> QED
    BY <1>3, <1>7, <1>10, <2>3, <2>4 DEF Follows
<1>11. CASE action = "SETUP"
  <2> DEFINE k == [c EXCEPT !.phase = "TP20_WAIT_SETUP"]
  <2>1. j.phase = "TP20_SEND_SETUP"
    BY <1>1, <1>11, StagedInverse
  <2>2. Ready(c) /\ ~c.open /\ c.request.protocol = "VW_TP20"
    BY <1>2, <1>4, <1>5, <2>1 DEF Fits, ReadyPhases, SetupPhases, Carried
  <2>3. /\ k.phase = "TP20_WAIT_SETUP" /\ Carried(c, k) /\ k.terminal = c.terminal /\ k.tx = "NONE"
        /\ HandleSuccessfulTx(c, action, t) = k
    BY <1>2, <1>11 DEF Job, Carried, HandleSuccessfulTx
  <2>4. /\ "TP20_WAIT_SETUP" \in Phases \ {"NONE"} /\ Staged("TP20_WAIT_SETUP") = "NONE"
        /\ Fits(c, "TP20_WAIT_SETUP")
    BY <1>6, <1>11, <2>2 DEF Phases, Staged, Fits, AwaitingPhases
  <2> HIDE DEF k
  <2> QED
    BY <1>3, <1>7, <1>11, <2>3, <2>4 DEF Follows
<1>12. CASE action = "PARAMS"
  <2> DEFINE k == [c EXCEPT !.phase = "TP20_WAIT_PARAMS"]
  <2>1. j.phase = "TP20_SEND_PARAMS"
    BY <1>1, <1>12, StagedInverse
  <2>2. Ready(c)
    BY <1>4, <1>5, <2>1 DEF Fits, ReadyPhases
  <2>3. /\ k.phase = "TP20_WAIT_PARAMS" /\ Carried(c, k) /\ k.terminal = c.terminal /\ k.tx = "NONE"
        /\ HandleSuccessfulTx(c, action, t) = k
    BY <1>2, <1>12 DEF Job, Carried, HandleSuccessfulTx
  <2>4. /\ "TP20_WAIT_PARAMS" \in Phases \ {"NONE"} /\ Staged("TP20_WAIT_PARAMS") = "NONE"
        /\ Fits(c, "TP20_WAIT_PARAMS")
    BY <1>6, <1>12, <2>2 DEF Phases, Staged, Fits, AwaitingPhases, SetupPhases
  <2> HIDE DEF k
  <2> QED
    BY <1>3, <1>7, <1>12, <2>3, <2>4 DEF Follows
<1>13. CASE action = "SESSION"
  <2> DEFINE k == [c EXCEPT !.phase = "TP20_WAIT_SESSION_ACK"]
  <2>1. j.phase = "TP20_SEND_SESSION"
    BY <1>1, <1>13, StagedInverse
  <2>2. Ready(c)
    BY <1>4, <1>5, <2>1 DEF Fits, ReadyPhases
  <2>3. /\ k.phase = "TP20_WAIT_SESSION_ACK" /\ Carried(c, k) /\ k.terminal = c.terminal /\ k.tx = "NONE"
        /\ HandleSuccessfulTx(c, action, t) = k
    BY <1>2, <1>13 DEF Job, Carried, HandleSuccessfulTx
  <2>4. /\ "TP20_WAIT_SESSION_ACK" \in Phases \ {"NONE"} /\ Staged("TP20_WAIT_SESSION_ACK") = "NONE"
        /\ Fits(c, "TP20_WAIT_SESSION_ACK")
    BY <1>6, <1>13, <2>2 DEF Phases, Staged, Fits, AwaitingPhases, SetupPhases
  <2> HIDE DEF k
  <2> QED
    BY <1>3, <1>7, <1>13, <2>3, <2>4 DEF Follows
<1>14. CASE action = "CHANNEL_TEST"
  <2> DEFINE k == [c EXCEPT !.phase = "TP20_WAIT_CHANNEL_TEST", !.due = After(t, TestWait)]
  <2>1. j.phase = "TP20_SEND_CHANNEL_TEST"
    BY <1>1, <1>14, StagedInverse
  <2>2. Ready(c)
    BY <1>4, <1>5, <2>1 DEF Fits, ReadyPhases
  <2>3. /\ k.phase = "TP20_WAIT_CHANNEL_TEST" /\ Carried(c, k) /\ k.terminal = c.terminal /\ k.tx = "NONE"
        /\ HandleSuccessfulTx(c, action, t) = k
    BY <1>2, <1>14 DEF Job, Carried, HandleSuccessfulTx
  <2>4. /\ "TP20_WAIT_CHANNEL_TEST" \in Phases \ {"NONE"} /\ Staged("TP20_WAIT_CHANNEL_TEST") = "NONE"
        /\ Fits(c, "TP20_WAIT_CHANNEL_TEST")
    BY <1>6, <1>14, <2>2 DEF Phases, Staged, Fits, AwaitingPhases, SetupPhases
  <2> HIDE DEF k
  <2> QED
    BY <1>3, <1>7, <1>14, <2>3, <2>4 DEF Follows
<1>15. CASE action = "ACK"
  <2>1. j.phase = "TP20_SEND_ACK"
    BY <1>1, <1>15, StagedInverse
  <2>2. Permits(c, c.afterAck) /\ c.afterAck # "NONE"
    BY <1>2, <1>5, <1>15, <2>1, CarriedSound DEF Fits, Ordered, GoodJob
  <2> QED
    BY <1>2, <1>3, <1>4, <1>6, <1>15, <2>2, ApplyAfterAckFollows DEF HandleSuccessfulTx, Follows
<1>16. CASE action = "DISCONNECT"
  <2> DEFINE k == [c EXCEPT !.phase = "TP20_WAIT_DISCONNECT", !.farewell = TRUE,
                            !.due = After(t, DisconnectWait)]
  <2>1. /\ k.phase = "TP20_WAIT_DISCONNECT" /\ k.tx = "NONE" /\ k.farewell
        /\ k.request = c.request /\ k.open = c.open /\ k.requests = c.requests /\ k.completed = c.completed
        /\ HandleSuccessfulTx(c, action, t) = k
    BY <1>2, <1>16 DEF Job, HandleSuccessfulTx
  <2> HIDE DEF k
  <2>2. Sound(k)
    BY <1>4, <2>1 DEF Sound
  <2>3. Staged("TP20_WAIT_DISCONNECT") = "NONE" /\ Fits(k, "TP20_WAIT_DISCONNECT")
    BY <2>1 DEF Staged, Fits, ReadyPhases, AwaitingPhases, SetupPhases, DisconnectPhases
  <2> QED
    BY <1>3, <1>4, <2>1, <2>2, <2>3 DEF Ordered, Finished
<1> QED
  BY <1>1, <1>8, <1>9, <1>10, <1>11, <1>12, <1>13, <1>14, <1>15, <1>16 DEF TxActions

(* Nothing the order depends on has changed. *)
LEMMA SameOrder ==
  ASSUME NEW j, NEW k, Ordered(j), Carried(j, k), k.tx = j.tx, k.phase = j.phase,
         k.terminal = j.terminal, k.afterAck = j.afterAck, k.outcome = j.outcome
  PROVE  Follows(j, k)
<1>1. Sound(k) /\ k.requests = j.requests
  BY CarriedSound DEF Ordered, Carried
<1>2. Fits(k, k.phase)
  BY CarriedSound DEF Ordered, Fits, Carried
<1>3. Finished(k) => Parted(k)
  BY DEF Ordered, Finished, Parted, Carried
<1> QED
  BY <1>1, <1>2, <1>3 DEF Follows, Ordered

LEMMA TxRefusedFollows ==
  ASSUME NEW j, GoodJob(j), Ordered(j), j.tx # "NONE", NEW t \in Clock
  PROVE  Follows(j, TxRefused(j, t))
<1>1. j \in Job /\ Sound(j)
  BY DEF GoodJob, Ordered
<1>2. CASE j.attempts + 1 < MaxAttempts
  <2> DEFINE n == j.attempts + 1
             k == [j EXCEPT !.attempts = n, !.due = After(t, RetryDelay)]
  <2>1. TxRefused(j, t) = k
    BY <1>2 DEF TxRefused
  <2> HIDE DEF n
  <2>2. /\ Carried(j, k) /\ k.tx = j.tx /\ k.phase = j.phase /\ k.terminal = j.terminal
        /\ k.afterAck = j.afterAck /\ k.outcome = j.outcome
    BY <1>1 DEF Job, Carried
  <2> HIDE DEF k
  <2> QED
    BY <2>1, <2>2, SameOrder
<1>3. CASE ~(j.attempts + 1 < MaxAttempts) /\ j.tx = "DISCONNECT"
  <2> DEFINE l == [j EXCEPT !.farewell = TRUE]
  <2>1. /\ l \in Job /\ l.terminal = j.terminal /\ l.farewell /\ l.requests = j.requests
        /\ l.completed = j.completed /\ l.request = j.request /\ l.open = j.open
    BY <1>1 DEF Job
  <2>2. TxRefused(j, t) = FinalizeTerminalIntent(l)
    BY <1>3 DEF TxRefused
  <2> HIDE DEF l
  <2>3. Sound(l) /\ l.terminal # NoIntent
    BY <1>1, <1>3, <2>1 DEF Sound, GoodJob
  <2> QED
    BY <2>1, <2>2, <2>3, FinalizeFollows DEF Follows
<1>4. CASE ~(j.attempts + 1 < MaxAttempts) /\ j.tx # "DISCONNECT"
  <2> DEFINE c == ClearPendingTx(j)
  <2>1. Carried(j, c) /\ c \in Job
    BY <1>1, ClearPendingTxCarries
  <2>2. TxRefused(j, t) = Fail(c, "TX_FAILED")
    BY <1>4 DEF TxRefused
  <2> HIDE DEF c
  <2>3. Sound(c) /\ c.requests = j.requests
    BY <1>1, <2>1, CarriedSound DEF Carried
  <2> QED
    BY <2>1, <2>2, <2>3, FailFollows DEF Follows, Errors
<1> QED
  BY <1>2, <1>3, <1>4

LEMMA TransmitOrdered ==
  ASSUME NEW j, GoodJob(j), Ordered(j), NEW t \in Clock, NEW accepted \in BOOLEAN
  PROVE  /\ Ordered(Transmit(j, t, accepted))
         /\ j.phase \in DisconnectPhases \union {"NONE"} => Transmit(j, t, accepted).requests = j.requests
<1>1. j.phase \in DisconnectPhases \union {"NONE"} => j.tx \notin {"ISO_REQUEST", "REQUEST"}
  BY DEF Ordered, Staged, DisconnectPhases
<1>2. CASE ~Offers(j, t)
  BY <1>2 DEF Transmit
<1>3. CASE Offers(j, t) /\ accepted
  <2>1. Transmit(j, t, accepted) = HandleSuccessfulTx(ClearPendingTx(j), j.tx, t)
    BY <1>3 DEF Transmit
  <2> QED
    BY <1>1, <1>3, <2>1, HandleSuccessfulTxOrdered DEF Offers
<1>4. CASE Offers(j, t) /\ ~accepted
  BY <1>4, TxRefusedFollows DEF Transmit, Offers, Follows
<1> QED
  BY <1>2, <1>3, <1>4

LEMMA EndIfDueFollows ==
  ASSUME NEW j \in Job, Ordered(j), NEW t
  PROVE  Follows(j, EndIfDue(j, t))
<1>1. Follows(j, Fail(j, "ABORTED")) /\ Follows(j, Fail(j, "TIMEOUT")) /\ Follows(j, j)
  BY FailFollows DEF Ordered, Follows, Errors
<1> QED
  BY <1>1 DEF EndIfDue

LEMMA RepeatIfDueFollows ==
  ASSUME NEW j \in Job, Ordered(j), NEW t
  PROVE  Follows(j, RepeatIfDue(j, t))
<1>1. Follows(j, j)
  BY DEF Follows
<1>2. ASSUME j.phase = "TP20_WAIT_REPEAT"
      PROVE  /\ Follows(j, StageKwpRequest(j, FALSE))
             /\ Follows(j, StageTx(j, "CHANNEL_TEST", "TP20_SEND_CHANNEL_TEST"))
  <2>1. Ready(j) /\ j.terminal = NoIntent /\ Sound(j)
    BY <1>2 DEF Ordered, Fits, ReadyPhases, DisconnectPhases
  <2>2. /\ "TP20_SEND_CHANNEL_TEST" \in Phases \ {"NONE"} /\ Staged("TP20_SEND_CHANNEL_TEST") = "CHANNEL_TEST"
        /\ Fits(j, "TP20_SEND_CHANNEL_TEST")
    BY <2>1 DEF Phases, Staged, Fits, AwaitingPhases, SetupPhases
  <2>3. Follows(j, StageTx(j, "CHANNEL_TEST", "TP20_SEND_CHANNEL_TEST"))
    BY <2>1, <2>2, StageTxFollows
  <2> QED
    BY <2>1, <2>3, StageKwpRequestFollows
<1> QED
  BY <1>1, <1>2 DEF RepeatIfDue

(* A job that is claimed has sent nothing and opened no channel. *)
LEMMA BeginJobOrdered ==
  ASSUME mailbox \in [id : Nat, request : Request], NEW t \in Clock
  PROVE  /\ Ordered(BeginJob(t)) /\ BeginJob(t).requests = 0 /\ ~BeginJob(t).open
         /\ BeginJob(t) \in Job
<1> DEFINE fresh == [IdleJob EXCEPT !.active = TRUE, !.id = mailbox.id, !.request = mailbox.request,
                                    !.deadline = After(t, Timeout)]
<1>1. /\ 0 \in Clock /\ 0 \in 0 .. (MaxAttempts - 1) /\ After(t, Timeout) \in Clock
      /\ mailbox.id \in Nat /\ mailbox.request \in Request
  BY Delays, AfterInClock, CountAssumption
<1>2. /\ "NONE" \in TxActions /\ "NONE" \in AfterAcks /\ NoIntent \in Ending /\ "NONE" \in Phases
  BY DEF TxActions, AfterAcks, Ending, Phases
<1>3. /\ fresh \in Job /\ fresh.requests = 0 /\ fresh.completed = 0 /\ ~fresh.open
      /\ fresh.terminal = NoIntent /\ fresh.request = mailbox.request
  BY <1>1, <1>2 DEF Job, IdleJob
<1>4. BeginJob(t) =
        IF mailbox.request.protocol = "ISO_TP"
        THEN StageTx(fresh, "ISO_REQUEST", "ISO_SEND_REQUEST")
        ELSE StageTx(fresh, "SETUP", "TP20_SEND_SETUP")
  BY DEF BeginJob
<1> HIDE DEF fresh
<1>5. PICK repeat \in Nat : repeat = mailbox.request.repeat /\ repeat >= 1
  BY <1>1, CountAssumption DEF Request
<1>6. Sound(fresh) /\ Ready(fresh)
  BY <1>3, <1>5 DEF Sound, Ready
<1>7. /\ "ISO_SEND_REQUEST" \in Phases \ {"NONE"} /\ Staged("ISO_SEND_REQUEST") = "ISO_REQUEST"
      /\ "TP20_SEND_SETUP" \in Phases \ {"NONE"} /\ Staged("TP20_SEND_SETUP") = "SETUP"
  BY DEF Phases, Staged
<1>8. Fits(fresh, "ISO_SEND_REQUEST")
  BY <1>3, <1>6 DEF Fits, AwaitingPhases, SetupPhases
<1>9. mailbox.request.protocol # "ISO_TP" => Fits(fresh, "TP20_SEND_SETUP")
  <2>1. mailbox.request.protocol \in {"ISO_TP", "VW_TP20"}
    BY <1>1 DEF Request
  <2> QED
    BY <1>3, <1>6, <2>1 DEF Fits, AwaitingPhases
<1>10. Follows(fresh, BeginJob(t))
  BY <1>3, <1>4, <1>6, <1>7, <1>8, <1>9, StageTxFollows
<1>11. ~BeginJob(t).open
  BY <1>3, <1>4 DEF StageTx, Job
<1>12. BeginJob(t) \in Job
  BY BeginJobGood DEF GoodJob
<1> QED
  BY <1>3, <1>10, <1>11, <1>12 DEF Follows

LEMMA CompleteIsoPayloadFollows ==
  ASSUME NEW j \in Job, Ordered(j), j.phase \in {"ISO_WAIT_RESPONSE", "ISO_WAIT_CONSECUTIVE"},
         NEW reply \in Reply
  PROVE  Follows(j, CompleteIsoPayload(j, reply))
<1> DEFINE k == [j EXCEPT !.phase = "ISO_WAIT_RESPONSE"]
<1>1. Sound(j) /\ Awaiting(j) /\ j.terminal = NoIntent /\ j.tx = "NONE"
  BY DEF Ordered, Fits, AwaitingPhases, DisconnectPhases, Staged
<1>2. Carried(j, k) /\ k.terminal = j.terminal /\ k.tx = j.tx /\ k.phase = "ISO_WAIT_RESPONSE"
  BY DEF Job, Carried
<1>3. /\ "ISO_WAIT_RESPONSE" \in Phases \ {"NONE"} /\ Staged("ISO_WAIT_RESPONSE") = "NONE"
      /\ Fits(j, "ISO_WAIT_RESPONSE")
  BY <1>1 DEF Phases, Staged, Fits, ReadyPhases, SetupPhases
<1>4. CASE reply = "PENDING"
  <2>1. CompleteIsoPayload(j, reply) = k
    BY <1>4 DEF CompleteIsoPayload
  <2> HIDE DEF k
  <2> QED
    BY <1>1, <1>2, <1>3, <2>1, PhaseFollows
<1>5. CASE reply = "REFUSED"
  BY <1>1, <1>5, FailFollows DEF CompleteIsoPayload, Errors
<1>6. CASE reply = "POSITIVE"
  BY <1>1, <1>6, RequestFinishFollows DEF CompleteIsoPayload, Errors, Outcomes
<1> QED
  BY <1>4, <1>5, <1>6 DEF Reply

LEMMA StageAckFollows ==
  ASSUME NEW j \in Job, Sound(j), j.terminal = NoIntent,
         NEW outcome \in AfterAcks \ {"NONE"}, Permits(j, outcome)
  PROVE  Follows(j, StageAck(j, outcome))
<1> DEFINE k == [j EXCEPT !.afterAck = outcome]
           phase == "TP20_SEND_ACK"
<1>1. k \in Job /\ Carried(j, k) /\ k.terminal = j.terminal /\ k.afterAck = outcome
  BY DEF Job, Carried
<1>2. StageAck(j, outcome) = StageTx(k, "ACK", phase)
  BY DEF StageAck
<1> HIDE DEF k
<1>3. Sound(k) /\ Permits(k, outcome) /\ k.requests = j.requests
  BY <1>1, CarriedSound DEF Carried
<1>4. phase \in Phases \ {"NONE"} /\ Staged(phase) = "ACK" /\ Fits(k, phase)
  BY <1>1, <1>3 DEF Phases, Staged, Fits, ReadyPhases, AwaitingPhases, SetupPhases
<1>5. Follows(k, StageTx(k, "ACK", phase))
  BY <1>1, <1>3, <1>4, StageTxFollows
<1> QED
  BY <1>2, <1>3, <1>5 DEF Follows

LEMMA HandleKwpPayloadOutcomeFollows ==
  ASSUME NEW j \in Job, Sound(j), j.tx = "NONE", j.terminal = NoIntent,
         NEW outcome \in AfterAcks \ {"NONE"}, Permits(j, outcome), NEW t \in Clock
  PROVE  Follows(j, HandleKwpPayloadOutcome(j, outcome, t))
<1> DEFINE k == [j EXCEPT !.reply = "NONE"]
<1>1. k \in Job /\ Carried(j, k) /\ k.terminal = j.terminal /\ k.tx = j.tx
  BY DEF Job, Carried
<1>2. HandleKwpPayloadOutcome(j, outcome, t) \in {Continue(k, outcome, t), Continue(j, outcome, t)}
  BY DEF HandleKwpPayloadOutcome
<1> HIDE DEF k
<1>3. Sound(k) /\ Permits(k, outcome) /\ k.requests = j.requests
  BY <1>1, CarriedSound DEF Carried
<1>4. Follows(k, Continue(k, outcome, t)) /\ Follows(j, Continue(j, outcome, t))
  BY <1>1, <1>3, ContinueFollows
<1> QED
  BY <1>2, <1>3, <1>4 DEF Follows

(* An exchange knows which request its answer belongs to. *)
LEMMA DataFragmentFollows ==
  ASSUME NEW j \in Job, Ordered(j), now \in Clock, NEW session \in BOOLEAN, j.phase \in Exchange(session),
         NEW reply \in {"PARTIAL"} \union Reply, NEW last \in BOOLEAN, NEW wantsAck \in BOOLEAN
  PROVE  Follows(j, DataFragment(j, reply, last, wantsAck, session))
<1> DEFINE filled == [j EXCEPT !.reply = reply]
           outcome == IF reply = "PARTIAL" THEN WaitResponse(session) ELSE KwpOutcome(reply, session)
<1>1. Sound(j) /\ j.tx = "NONE" /\ j.terminal = NoIntent /\ (session => Ready(j)) /\ (~session => Awaiting(j))
  BY DEF Ordered, Fits, Exchange, ReadyPhases, AwaitingPhases, DisconnectPhases, Staged
<1>2. filled \in Job /\ Carried(j, filled) /\ filled.terminal = j.terminal /\ filled.tx = j.tx
  BY DEF Job, Carried
<1>3. /\ outcome \in AfterAcks \ {"NONE"}
      /\ session => outcome \notin AwaitingAcks
      /\ ~session => outcome \notin ReadyAcks
  <2>1. CASE reply = "PARTIAL"
    BY <2>1 DEF WaitResponse, AfterAcks, AwaitingAcks, ReadyAcks
  <2>2. CASE reply = "PENDING"
    BY <2>2 DEF KwpOutcome, AfterAcks, AwaitingAcks, ReadyAcks
  <2>3. CASE reply = "REFUSED"
    BY <2>3 DEF KwpOutcome, AfterAcks, AwaitingAcks, ReadyAcks
  <2>4. CASE reply = "POSITIVE"
    BY <2>4 DEF KwpOutcome, AfterAcks, AwaitingAcks, ReadyAcks
  <2> QED
    BY <2>1, <2>2, <2>3, <2>4 DEF Reply
<1>4. DataFragment(j, reply, last, wantsAck, session) \in
        {Fail(filled, "PROTOCOL"), StageAck(filled, outcome), Continue(filled, outcome, now),
         HandleKwpPayloadOutcome(filled, outcome, now)}
  <2> HIDE DEF filled, outcome
  <2>1. CASE last # (reply # "PARTIAL")
    BY Zenon, <2>1 DEF DataFragment, filled, outcome
  <2>2. CASE last = (reply # "PARTIAL") /\ wantsAck
    BY <2>2 DEF DataFragment, filled, outcome
  <2>3. CASE last = (reply # "PARTIAL") /\ ~wantsAck /\ reply = "PARTIAL"
    BY <2>3 DEF DataFragment, filled, outcome
  <2>4. CASE last = (reply # "PARTIAL") /\ ~wantsAck /\ reply # "PARTIAL"
    BY <2>4 DEF DataFragment, filled, outcome
  <2> QED
    BY <2>1, <2>2, <2>3, <2>4
<1> HIDE DEF filled, outcome
<1>5. Sound(filled) /\ filled.requests = j.requests /\ Permits(filled, outcome)
  BY <1>1, <1>2, <1>3, CarriedSound DEF Carried, Permits
<1>6. /\ Follows(filled, Fail(filled, "PROTOCOL")) /\ Follows(filled, StageAck(filled, outcome))
      /\ Follows(filled, Continue(filled, outcome, now))
      /\ Follows(filled, HandleKwpPayloadOutcome(filled, outcome, now))
  BY <1>1, <1>2, <1>3, <1>5, FailFollows, StageAckFollows, ContinueFollows,
     HandleKwpPayloadOutcomeFollows DEF Errors
<1> QED
  BY <1>4, <1>5, <1>6 DEF Follows

-----------------------------------------------------------------------------
(* The steps keep the order. *)

JobInOrder ==
  /\ Ordered(job)
  /\ ~job.active => job = IdleJob

(* A tick that has looked for a cancel and works on a cancelled job had it    *)
(* stored since, or only says goodbye.  A job refused as it begins has opened *)
(* no channel.                                                               *)
CancelSeen ==
  /\ tick.at = "refusing" => ~job.open
  /\ tick.at = "uncancelled" /\ cancelId = job.id => tick.late
  /\ tick.at = "sending" /\ cancelId = job.id => tick.late \/ job.phase \in DisconnectPhases

(* The step sends no request of a job that was cancelled in time. *)
KeepsCancel == job'.requests > job.requests => cancelId # job.id \/ tick.late

(* A step that sends nothing keeps the cancel, whatever the job came to. *)
LEMMA SendsNothing ==
  ASSUME TransportInv, job'.requests = job.requests
  PROVE  KeepsCancel
<1>1. job.requests \in Nat
  BY DEF TransportInv, TypeOK, Job
<1> QED
  BY <1>1 DEF KeepsCancel

(* A check keeps the order; one that looked for a cancel and found it leaves   *)
(* the goodbye.                                                               *)
LEMMA CheckedOrdered ==
  ASSUME TransportInv, NEW j, Step(job, j), Follows(job, j), Checked(j), cancelId' = cancelId,
         cancelId = job.id => tick.late \/ j.phase \in {"NONE", "TP20_SEND_DISCONNECT"}
  PROVE  Ordered(job') /\ CancelSeen' /\ KeepsCancel
<1> DEFINE place == IF Finished(j) THEN "between" ELSE "sending"
<1>1. job' = j /\ GoTo(place) /\ place \in TickPlaces
  BY DEF Checked, Settle, TickPlaces
<1>2. /\ place \notin {"uncancelled", "refusing"}
      /\ place = "sending" => ~Finished(j)
  OBVIOUS
<1> HIDE DEF place
<1>3. tick'.at = place /\ (tick'.late <=> tick.late /\ place # "between")
  BY <1>1, GoesTo
<1>4. j.id = job.id /\ Ordered(j) /\ j.requests = job.requests
  BY DEF Step, Follows
<1>5. CancelSeen'
  BY <1>1, <1>2, <1>3, <1>4 DEF CancelSeen, Finished, DisconnectPhases
<1> QED
  BY <1>1, <1>4, <1>5, SendsNothing

LEMMA LookOrdered ==
  ASSUME TransportInv, JobInOrder, LookAtCancel, cancelId' = cancelId
  PROVE  Ordered(job') /\ CancelSeen' /\ KeepsCancel
<1>1. GoodJob(job) /\ job \in Job /\ Ordered(job) /\ Sound(job)
  BY DEF TransportInv, TypeOK, JobInOrder, Ordered
<1>2. CASE Checked(RequestFinish(job, "CANCELLED", "CANCELLED"))
  <2>1. Step(job, RequestFinish(job, "CANCELLED", "CANCELLED"))
    BY <1>1, RequestFinishStep DEF Outcomes, Errors
  <2>2. /\ Follows(job, RequestFinish(job, "CANCELLED", "CANCELLED"))
        /\ RequestFinish(job, "CANCELLED", "CANCELLED").phase \in {"NONE", "TP20_SEND_DISCONNECT"}
    BY <1>1, RequestFinishFollows DEF Outcomes, Errors
  <2> QED
    BY <1>2, <2>1, <2>2, CheckedOrdered
<1>3. CASE cancelId # job.id /\ GoTo("uncancelled") /\ UNCHANGED <<published, job>>
  <2>1. tick'.at = "uncancelled"
    BY <1>3, GoesTo DEF TickPlaces
  <2>2. CancelSeen'
    BY <1>3, <2>1 DEF CancelSeen
  <2>3. job' = job
    BY <1>3
  <2> QED
    BY <1>1, <2>2, <2>3, SendsNothing
<1> QED
  BY <1>2, <1>3 DEF LookAtCancel

(* The steps of a tick on the job. *)
LEMMA TickOrdered ==
  ASSUME TransportInv, JobInOrder, CancelSeen, NEW t \in Clock, NEW accepted \in BOOLEAN,
         TickBeginJob \/ TickRefuse \/ TickNewJob \/ TickJob(t) \/ TickChecks
           \/ TickSend(accepted) \/ TickCleanup(t, accepted)
  PROVE  Ordered(job') /\ CancelSeen' /\ KeepsCancel
<1>1. /\ GoodJob(job) /\ job \in Job /\ Ordered(job) /\ mailbox \in [id : Nat, request : Request]
      /\ now \in Clock /\ IdleJob.requests = 0
      /\ tick.at \in JobPlaces => job.active /\ ~Finished(job)
      /\ tick.at = "claimed" => job = IdleJob
  BY DEF TransportInv, TypeOK, JobInOrder, IdleJob, Owned
<1>2. ASSUME NEW place \in {"between", "refusing", "begun"}, GoTo(place),
             place = "refusing" => ~job'.open
      PROVE  CancelSeen'
  <2>1. tick'.at = place
    BY <1>2, GoesTo DEF TickPlaces
  <2> QED
    BY <1>2, <2>1 DEF CancelSeen
<1>3. CASE TickBeginJob
  <2>1. /\ job' = BeginJob(now) /\ job = IdleJob
        /\ GoTo(IF cancelId = mailbox.id THEN "refusing" ELSE "begun")
    BY <1>1, <1>3 DEF TickBeginJob, Settle
  <2>2. Ordered(BeginJob(now)) /\ BeginJob(now).requests = 0 /\ ~BeginJob(now).open
    BY <1>1, BeginJobOrdered
  <2>3. CancelSeen'
    BY <1>2, <2>1, <2>2
  <2>4. job'.requests = job.requests
    BY <1>1, <2>1, <2>2
  <2> QED
    BY <2>1, <2>2, <2>3, <2>4, SendsNothing
<1>4. CASE TickRefuse
  <2>1. job' = Finish(job, "CANCELLED", "CANCELLED") /\ GoTo("between")
    BY <1>4 DEF TickRefuse, Settle
  <2>2. tick.at = "refusing" /\ ~job.open
    BY <1>4 DEF TickRefuse, CancelSeen
  <2>3. Follows(job, job')
    BY <1>1, <2>1, <2>2, FinishFollows DEF Ordered
  <2>4. CancelSeen'
    BY <1>2, <2>1
  <2> QED
    BY <2>3, <2>4, SendsNothing DEF Follows
<1>5. CASE TickNewJob
  BY <1>5, LookOrdered DEF TickNewJob
<1>6. CASE TickJob(t)
  BY <1>6, LookOrdered DEF TickJob
<1>7. CASE TickChecks
  <2> DEFINE e == EndIfDue(job, now)
             r == RepeatIfDue(e, now)
  <2>1. Checked(r) /\ cancelId' = cancelId /\ tick.at = "uncancelled"
    BY <1>7 DEF TickChecks
  <2>2. Step(job, e) /\ GoodJob(e) /\ e \in Job
    BY <1>1, EndIfDueStep DEF Step, GoodJob
  <2>3. Follows(job, e)
    BY <1>1, EndIfDueFollows
  <2> HIDE DEF e
  <2>4. Step(e, r)
    BY <2>2, RepeatIfDueStep
  <2>5. Follows(e, r)
    BY <2>2, <2>3, RepeatIfDueFollows DEF Follows
  <2> HIDE DEF r
  <2>6. Step(job, r) /\ Follows(job, r)
    BY <1>1, <2>2, <2>3, <2>4, <2>5, StepTrans DEF Follows
  <2>7. cancelId = job.id => tick.late
    BY <2>1 DEF CancelSeen
  <2> QED
    BY <2>1, <2>6, <2>7, CheckedOrdered
<1>8. CASE TickSend(accepted)
  <2>1. tick.at = "sending" /\ job' = Transmit(job, now, accepted) /\ GoTo("between")
    BY <1>8 DEF TickSend, Settle
  <2>2. /\ Ordered(job')
        /\ job.phase \in DisconnectPhases \union {"NONE"} => job'.requests = job.requests
    BY <1>1, <2>1, TransmitOrdered
  <2>3. KeepsCancel
    <3>1. CASE job.phase \in DisconnectPhases
      BY <2>2, <3>1, SendsNothing
    <3>2. CASE job.phase \notin DisconnectPhases
      BY <2>1, <3>2 DEF CancelSeen, KeepsCancel
    <3> QED
      BY <3>1, <3>2
  <2> QED
    BY <1>2, <2>1, <2>2, <2>3
<1>9. CASE TickCleanup(t, accepted)
  <2>1. job.terminal # NoIntent /\ ~Finished(job) /\ tick' = tick /\ tick.at = "between"
    BY <1>9 DEF TickCleanup, Begin
  <2>2. job.phase \in DisconnectPhases
    BY <1>1, <2>1 DEF Ordered, Fits, Finished
  <2>3. CancelSeen'
    BY <2>1 DEF CancelSeen
  <2>4. CASE DisconnectExpired(t) /\ job' = FinalizeTerminalIntent(job)
    <3>1. job.farewell /\ Sound(job)
      BY <1>1, <2>4 DEF Ordered, Fits, DisconnectExpired
    <3>2. Follows(job, job')
      BY <1>1, <2>1, <2>4, <3>1, FinalizeFollows
    <3> QED
      BY <2>3, <3>2, SendsNothing DEF Follows
  <2>5. CASE job' = Transmit(job, t, accepted)
    <3>1. Ordered(job') /\ job'.requests = job.requests
      BY <1>1, <2>2, <2>5, TransmitOrdered
    <3> QED
      BY <2>3, <3>1, SendsNothing
  <2> QED
    BY <1>9, <2>4, <2>5 DEF TickCleanup, Settle
<1> QED
  BY <1>3, <1>4, <1>5, <1>6, <1>7, <1>8, <1>9

LEMMA ObserveOrdered ==
  ASSUME TransportInv, JobInOrder, Observe
  PROVE  Ordered(job') /\ job'.requests = job.requests
<1>1. /\ job \in Job /\ Ordered(job) /\ Sound(job) /\ mailbox \in [id : Nat, request : Request]
      /\ now \in Clock /\ job.request.session \in BOOLEAN /\ IdleJob.requests = 0
  BY DEF TransportInv, TypeOK, JobInOrder, Ordered, IdleJob, Job, Request
<1>2. ASSUME NEW k, Follows(job, k), Observed(k)
      PROVE  Ordered(job') /\ job'.requests = job.requests
  BY <1>2 DEF Observed, Settle, Follows
<1>3. Follows(job, Fail(job, "PROTOCOL"))
  BY <1>1, FailFollows DEF Errors
<1>4. ASSUME job.phase \in ReadyPhases \union AwaitingPhases
      PROVE  job.terminal = NoIntent
  BY <1>1, <1>4 DEF Ordered, Fits, ReadyPhases, AwaitingPhases, DisconnectPhases
<1>5. CASE ObserveIso
  <2>1. /\ job.phase \in {"ISO_WAIT_RESPONSE", "ISO_WAIT_CONSECUTIVE"}
        /\ \/ \E reply \in Reply : Observed(CompleteIsoPayload(job, reply))
           \/ Observed(StageTx(job, "ISO_FLOW_CONTROL", "ISO_SEND_FLOW_CONTROL"))
           \/ Observed(Fail(job, "PROTOCOL"))
    BY <1>5 DEF ObserveIso
  <2>2. Awaiting(job) /\ job.terminal = NoIntent
    BY <1>1, <1>4, <2>1 DEF Ordered, Fits, AwaitingPhases
  <2>3. /\ "ISO_SEND_FLOW_CONTROL" \in Phases \ {"NONE"}
        /\ Staged("ISO_SEND_FLOW_CONTROL") = "ISO_FLOW_CONTROL"
        /\ Fits(job, "ISO_SEND_FLOW_CONTROL")
    BY <2>2 DEF Phases, Staged, Fits, ReadyPhases, SetupPhases
  <2>4. Follows(job, StageTx(job, "ISO_FLOW_CONTROL", "ISO_SEND_FLOW_CONTROL"))
    BY <1>1, <2>3, StageTxFollows
  <2>5. \A reply \in Reply : Follows(job, CompleteIsoPayload(job, reply))
    BY <1>1, <2>1, CompleteIsoPayloadFollows
  <2> QED
    BY <1>2, <1>3, <2>1, <2>4, <2>5
<1>6. CASE ObserveSetup
  <2>1. /\ job.phase = "TP20_WAIT_SETUP"
        /\ \/ Observed(StageTx([job EXCEPT !.open = TRUE], "PARAMS", "TP20_SEND_PARAMS"))
           \/ Observed(Finish(job, "FAILED", "PROTOCOL"))
    BY <1>6 DEF ObserveSetup
  <2>2. Ready(job) /\ ~job.open /\ job.request.protocol = "VW_TP20" /\ job.terminal = NoIntent
    BY <1>1, <1>4, <2>1 DEF Ordered, Fits, ReadyPhases, SetupPhases
  <2> DEFINE k == [job EXCEPT !.open = TRUE]
  <2>3. /\ k \in Job /\ k.request = job.request /\ k.requests = job.requests
        /\ k.completed = job.completed /\ k.terminal = job.terminal
    BY <1>1 DEF Job
  <2> HIDE DEF k
  <2>4. Sound(k) /\ Ready(k)
    BY <1>1, <2>2, <2>3 DEF Sound, Ready
  <2>5. /\ "TP20_SEND_PARAMS" \in Phases \ {"NONE"} /\ Staged("TP20_SEND_PARAMS") = "PARAMS"
        /\ Fits(k, "TP20_SEND_PARAMS")
    BY <2>2, <2>3, <2>4 DEF Phases, Staged, Fits, AwaitingPhases, SetupPhases
  <2>6. Follows(k, StageTx(k, "PARAMS", "TP20_SEND_PARAMS"))
    BY <2>3, <2>4, <2>5, StageTxFollows
  <2>7. Follows(job, StageTx(k, "PARAMS", "TP20_SEND_PARAMS"))
    BY <2>3, <2>6 DEF Follows
  <2>8. Follows(job, Finish(job, "FAILED", "PROTOCOL"))
    BY <1>1, <2>2, FinishFollows
  <2> QED
    BY <1>2, <2>1, <2>7, <2>8 DEF k
<1>7. CASE ObserveParams
  <2>1. /\ job.phase = "TP20_WAIT_PARAMS"
        /\ \/ Observed(StageKwpRequest(job, job.request.session))
           \/ Observed(Fail(job, "PROTOCOL"))
    BY <1>7 DEF ObserveParams
  <2>2. Ready(job) /\ job.terminal = NoIntent
    BY <1>1, <1>4, <2>1 DEF Ordered, Fits, ReadyPhases
  <2>3. Follows(job, StageKwpRequest(job, job.request.session))
    BY <1>1, <2>2, StageKwpRequestFollows
  <2> QED
    BY <1>2, <1>3, <2>1, <2>3
<1>8. CASE ObserveChannelTest
  <2> DEFINE k == [job EXCEPT !.phase = "TP20_WAIT_REPEAT", !.due = After(now, TestInterval)]
  <2>1. job.phase = "TP20_WAIT_CHANNEL_TEST" /\ Observed(k)
    BY <1>8 DEF ObserveChannelTest
  <2>2. Ready(job) /\ job.terminal = NoIntent /\ job.tx = "NONE"
    BY <1>1, <1>4, <2>1 DEF Ordered, Fits, ReadyPhases, Staged
  <2>3. Carried(job, k) /\ k.terminal = job.terminal /\ k.tx = "NONE" /\ k.phase = "TP20_WAIT_REPEAT"
    BY <1>1, <2>2 DEF Job, Carried
  <2>4. /\ "TP20_WAIT_REPEAT" \in Phases \ {"NONE"} /\ Staged("TP20_WAIT_REPEAT") = "NONE"
        /\ Fits(job, "TP20_WAIT_REPEAT")
    BY <2>2 DEF Phases, Staged, Fits, AwaitingPhases, SetupPhases
  <2> HIDE DEF k
  <2>5. Follows(job, k)
    BY <1>1, <2>2, <2>3, <2>4, PhaseFollows
  <2> QED
    BY <1>2, <2>1, <2>5
<1>9. CASE ObserveDisconnect
  <2>1. job.phase = "TP20_WAIT_DISCONNECT" /\ Observed(FinalizeTerminalIntent(job))
    BY <1>9 DEF ObserveDisconnect
  <2>2. job.farewell /\ job.terminal # NoIntent
    BY <1>1, <2>1 DEF Ordered, Fits, TransportInv, GoodJob, DisconnectPhases
  <2>3. Follows(job, FinalizeTerminalIntent(job))
    BY <1>1, <2>2, FinalizeFollows
  <2> QED
    BY <1>2, <2>1, <2>3
<1>10. ASSUME NEW session \in BOOLEAN, ObserveKwp(session)
       PROVE  Ordered(job') /\ job'.requests = job.requests
  <2>1. /\ job.phase \in Exchange(session)
        /\ \/ Observed(Continue(job, WaitResponse(session), now))
           \/ \E reply \in ReplyAfter(job.reply), last \in BOOLEAN, wantsAck \in BOOLEAN :
                Observed(DataFragment(job, reply, last, wantsAck, session))
           \/ Observed(Fail(job, "PROTOCOL"))
    BY <1>10 DEF ObserveKwp
  <2>2. /\ session => Ready(job)
        /\ ~session => Awaiting(job)
        /\ job.terminal = NoIntent /\ job.tx = "NONE"
    BY <1>1, <2>1 DEF Ordered, Fits, Exchange, ReadyPhases, AwaitingPhases, DisconnectPhases, Staged
  <2>3. WaitResponse(session) \in AfterAcks \ {"NONE"} /\ Permits(job, WaitResponse(session))
    BY <2>2 DEF WaitResponse, AfterAcks, Permits, ReadyAcks, AwaitingAcks
  <2>4. Follows(job, Continue(job, WaitResponse(session), now))
    BY <1>1, <2>2, <2>3, ContinueFollows
  <2>5. ReplyAfter(job.reply) \subseteq {"PARTIAL"} \union Reply
    BY DEF ReplyAfter
  <2>6. \A reply \in ReplyAfter(job.reply), last \in BOOLEAN, wantsAck \in BOOLEAN :
          Follows(job, DataFragment(job, reply, last, wantsAck, session))
    BY <1>1, <2>1, <2>5, DataFragmentFollows
  <2> QED
    BY <1>2, <1>3, <2>1, <2>4, <2>6
<1>11. CASE ObserveTester
  <2>1. Follows(job, Finish(job, "FAILED", "EXTERNAL_TESTER_COLLISION"))
    BY <1>1, FinishFollows
  <2> QED
    BY <1>2, <1>11, <2>1 DEF ObserveTester
<1>12. CASE ObserveTesterQueued
  <2>1. job' = Finish(BeginJob(now), "FAILED", "EXTERNAL_TESTER_COLLISION") /\ job = IdleJob
    BY <1>12 DEF ObserveTesterQueued, Settle, JobInOrder
  <2>2. Ordered(BeginJob(now)) /\ BeginJob(now).requests = 0 /\ BeginJob(now) \in Job
    BY <1>1, BeginJobOrdered
  <2>3. Follows(BeginJob(now), job')
    BY <2>1, <2>2, FinishFollows DEF Ordered
  <2> QED
    BY <1>1, <2>1, <2>2, <2>3 DEF Follows
<1> QED
  BY <1>5, <1>6, <1>7, <1>8, <1>9, <1>10, <1>11, <1>12 DEF Observe

(* The idle job is in order. *)
LEMMA IdleOrdered == Ordered(IdleJob) /\ IdleJob.requests = 0 /\ ~IdleJob.active
<1>1. /\ IdleJob.requests = 0 /\ IdleJob.completed = 0 /\ IdleJob.request.repeat = 1 /\ ~IdleJob.open
      /\ IdleJob.tx = "NONE" /\ IdleJob.phase = "NONE" /\ ~IdleJob.active
  BY DEF IdleJob
<1>2. Sound(IdleJob)
  BY <1>1 DEF Sound
<1>3. Staged("NONE") = "NONE" /\ Fits(IdleJob, "NONE")
  BY DEF Staged, Fits, ReadyPhases, AwaitingPhases, SetupPhases
<1> QED
  BY <1>1, <1>2, <1>3 DEF Ordered, Parted

LEMMA OrderStep ==
  ASSUME TransportInv, JobInOrder, CancelSeen, [Next]_vars
  PROVE  JobInOrder' /\ CancelSeen' /\ KeepsCancel
<1>1. Ordered(job) /\ (~job.active => job = IdleJob)
  BY DEF JobInOrder
<1>2. ASSUME job' = job
      PROVE  JobInOrder' /\ KeepsCancel
  BY <1>1, <1>2, SendsNothing
     DEF JobInOrder, Ordered, Sound, Fits, Ready, Awaiting, Permits, Finished, Parted
<1>3. ASSUME Ordered(job'), job'.active
      PROVE  JobInOrder'
  BY <1>3 DEF JobInOrder, Ordered, Sound, Fits, Ready, Awaiting, Permits, Finished, Parted
<1>4. ASSUME tick'.at \notin {"refusing", "uncancelled", "sending"}
      PROVE  CancelSeen'
  BY <1>4 DEF CancelSeen
<1>5. ASSUME NEW t \in Clock, NEW accepted \in BOOLEAN,
             TickBeginJob \/ TickRefuse \/ TickNewJob \/ TickJob(t) \/ TickChecks
               \/ TickSend(accepted) \/ TickCleanup(t, accepted)
      PROVE  JobInOrder' /\ CancelSeen' /\ KeepsCancel
  <2>1. job'.active
    BY <1>5, TickMoves, SettleShows DEF CanTaskMoves, JobMoves
  <2> QED
    BY <1>3, <1>5, <2>1, TickOrdered
<1>6. CASE Observe
  <2>1. job'.active
    BY <1>6, ObserveMoves, SettleShows DEF CanTaskMoves, JobMoves
  <2>2. tick'.at = "between"
    BY <1>6 DEF Observe, ObserveIso, ObserveSetup, ObserveParams, ObserveChannelTest,
       ObserveDisconnect, ObserveKwp, ObserveTester, ObserveTesterQueued, Observed, Observing
  <2> QED
    BY <1>3, <1>4, <1>6, <2>1, <2>2, ObserveOrdered, SendsNothing
<1>7. CASE Release
  <2>1. job' = IdleJob /\ tick' = tick /\ Finished(job)
    BY <1>7 DEF Release
  <2>2. JobInOrder'
    BY <2>1, IdleOrdered
       DEF JobInOrder, Ordered, Sound, Fits, Ready, Awaiting, Permits, Finished, Parted
  <2>3. CancelSeen'
    BY <1>4, <2>1 DEF TransportInv, JobPlaces
  <2>4. KeepsCancel
    <3>1. job.requests \in Nat /\ job'.requests = 0
      BY <2>1, IdleOrdered DEF TransportInv, TypeOK, Job
    <3> QED
      BY <3>1 DEF KeepsCancel
  <2> QED
    BY <2>2, <2>3, <2>4
<1>8. CASE \/ SubmitClaim \/ SubmitPost \/ StoreAbort
           \/ \E request \in Request : SubmitPublish(request)
           \/ \E intention \in {"cancelling", "aborting"} : Check(intention)
           \/ UNCHANGED vars
  <2>1. UNCHANGED <<cancelId, job, tick>>
    BY <1>8 DEF SubmitClaim, SubmitPost, StoreAbort, SubmitPublish, Check, vars
  <2> QED
    BY <1>2, <2>1 DEF CancelSeen
<1>9. CASE \E t \in Clock : TickIdle(t) \/ TickClaim(t)
  <2>1. /\ job' = job
        /\ tick'.at \in {"between", "claimed"}
    BY <1>9, GoesTo DEF TickIdle, TickClaim, Begin, TickPlaces
  <2> QED
    BY <1>2, <1>4, <2>1
<1>10. CASE StoreCancel
  <2>1. /\ job' = job /\ cancelId' = client.id
        /\ tick' = [tick EXCEPT !.late = IF cancelId = client.id THEN @ ELSE PastLook]
    BY <1>10 DEF StoreCancel
  <2>2. tick \in TickRecord
    BY DEF TransportInv, TypeOK, TickRecord
  <2>3. /\ tick'.at = tick.at
        /\ tick'.late = IF cancelId = client.id THEN tick.late ELSE PastLook
    BY <2>1, <2>2 DEF TickRecord
  <2>4. CancelSeen'
    BY <2>1, <2>3 DEF CancelSeen, PastLook
  <2> QED
    BY <1>2, <2>1, <2>4
<1>11. ASSUME Next
       PROVE  \/ \E t \in Clock, accepted \in BOOLEAN :
                   \/ TickBeginJob \/ TickRefuse \/ TickNewJob \/ TickJob(t) \/ TickChecks
                   \/ TickSend(accepted) \/ TickCleanup(t, accepted)
              \/ \E t \in Clock : TickIdle(t) \/ TickClaim(t)
              \/ Observe \/ Release \/ SubmitClaim \/ Begun
              \/ \E intention \in {"cancelling", "aborting"} : Check(intention)
  <2>1. now \in Clock
    BY DEF TransportInv, TypeOK
  <2>2. ASSUME NEW step \in 0 .. MaxStep
        PROVE  After(now, step) \in Clock
    <3>1. step \in Nat
      <4>1. PICK h \in Nat : h = HalfClock
        BY ClockAssumption
      <4>2. MaxStep \in Nat
        BY <4>1, ClockAssumption
      <4> QED
        BY <4>2
    <3> QED
      BY <2>1, <3>1, AfterInClock
  <2>3. ASSUME NEW step \in 0 .. MaxStep, TickStart(step)
        PROVE  \E t \in Clock : \/ TickIdle(t) \/ TickClaim(t) \/ TickJob(t)
                                \/ \E accepted \in BOOLEAN : TickCleanup(t, accepted)
    BY <2>2, <2>3 DEF TickStart
  <2> QED
    BY <1>11, <2>1, <2>3 DEF Next, TickOn
<1> QED
  BY <1>5, <1>6, <1>7, <1>8, <1>9, <1>10, <1>11 DEF Begun

LEMMA OrderInvariant == Spec => [](TransportInv /\ JobInOrder /\ CancelSeen)
<1>1. Init => JobInOrder /\ CancelSeen
  BY IdleOrdered DEF Init, JobInOrder, CancelSeen
<1>2. TransportInv /\ JobInOrder /\ CancelSeen /\ [Next]_vars => JobInOrder' /\ CancelSeen'
  BY OrderStep
<1> QED
  BY <1>1, <1>2, TransportInvariant, PTL DEF Spec

(* No application request is sent again before the one before it is answered, *)
(* nor one more than was asked for, and no answer counts without a request.   *)
THEOREM RequestsAreNotRepeated == Spec => []RequestsNotRepeated
<1>1. JobInOrder => RequestsNotRepeated
  BY DEF JobInOrder, Ordered, Sound, RequestsNotRepeated
<1> QED
  BY <1>1, OrderInvariant, PTL

(* A job that opened a channel ends after it said goodbye, or gave that up,   *)
(* with the outcome it had before; another tester excepted.                   *)
THEOREM CleanupIsKept == Spec => []CleanupKept
<1>1. JobInOrder => CleanupKept
  BY DEF JobInOrder, Ordered, Parted, CleanupKept
<1> QED
  BY <1>1, OrderInvariant, PTL

(* Once a cancel is stored no request of its job is sent, but by a tick that  *)
(* had looked for a cancel before it was stored.                             *)
THEOREM CancelledJobsSendNothing == Spec => CancelIsRespected
<1>1. TransportInv /\ JobInOrder /\ CancelSeen /\ [Next]_vars =>
        [job'.requests > job.requests => cancelId # job.id \/ tick.late]_vars
  BY OrderStep DEF KeepsCancel
<1> QED
  BY <1>1, OrderInvariant, PTL DEF Spec, CancelIsRespected
=============================================================================
