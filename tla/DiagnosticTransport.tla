--------------------------- MODULE DiagnosticTransport ---------------------------
(***************************************************************************)
(* core/diagnostic_transport.cpp: one command mailbox, one job.  Clients on *)
(* core 0 submit, cancel and abort; they hold the application lock, so they *)
(* are one process (client).  The CAN task owns the job: it claims the      *)
(* mailbox, transmits at most one frame per tick, and is shown every frame  *)
(* the buses deliver.  The ECU and other testers may send anything.         *)
(*                                                                         *)
(* What interleaves is client steps and the steps of the CAN task.  A tick  *)
(* is several: it takes the mailbox, looks at cancel_job_id (once for a job *)
(* of the mailbox, once more for every job), looks at abort_job_id, and     *)
(* offers a frame to the driver; a client may store either id between two.  *)
(* finishImmediately is two: it publishes the outcome, then frees the slot. *)
(* A step reads at most one word that clients write, and what it publishes  *)
(* follows that at once.  Only Release looks at both ids: of a finished job *)
(* at most one store can still be on its way, and it falls before or after. *)
(*                                                                         *)
(* Frames are abstracted to what the handlers tell apart.  A sequence       *)
(* number is only compared with the expected one, and the ECU may send      *)
(* either, so it is not kept.  Every error a received frame causes is       *)
(* "PROTOCOL".                                                              *)
(***************************************************************************)
EXTENDS Naturals

CONSTANTS
  ClockModulus,     \* 2^32: the clock counts milliseconds modulo this
  Timeout,          \* request.timeout_ms
  RepeatInterval,   \* request.repeat_interval_ms
  RetryDelay,       \* kDiagnosticTxRetryDelayMs
  MaxAttempts,      \* kDiagnosticTxMaximumAttempts
  DisconnectWait,   \* kTp20DisconnectTimeoutMs
  TestInterval,     \* kTp20ChannelTestIntervalMs
  TestWait,         \* kTp20ChannelTestTimeoutMs
  MaxRepeat,        \* bound of the model: request.repeat_count
  MaxJobs,          \* bound of the model: jobs submitted
  MaxStep           \* bound of the model: milliseconds between two ticks

HalfClock == ClockModulus \div 2

ASSUME ClockAssumption ==
  /\ ClockModulus \in Nat /\ HalfClock \in Nat /\ ClockModulus = 2 * HalfClock
  /\ MaxStep \in 1 .. (HalfClock - 1)
  /\ \A delay \in {Timeout, RepeatInterval, RetryDelay, DisconnectWait, TestInterval, TestWait} :
       delay \in 1 .. (HalfClock - 1)
ASSUME CountAssumption ==
  MaxAttempts \in Nat \ {0} /\ MaxRepeat \in Nat \ {0} /\ MaxJobs \in Nat

VARIABLES
  now,        \* last_now_ms
  busy,       \* busy
  ready,      \* command_state = kMailboxReady
  mailbox,    \* command_mailbox: [id, request]
  nextId,     \* next_job_id
  cancelId,   \* cancel_job_id
  abortId,    \* abort_job_id
  published,  \* the result clients read: [id, state, completed]
  job,        \* ActiveJob
  tick,       \* where the CAN task is in diagnosticTransportTick, and (history) whether
              \* the cancel was stored since this tick looked for one
  client      \* where the client is, and the id it is about to cancel or abort

vars == <<now, busy, ready, mailbox, nextId, cancelId, abortId, published, job, tick, client>>

Clock == 0 .. (ClockModulus - 1)

(* ISO-TP requests are not repeated; a KWP session is entered or not. *)
Request ==
  {r \in [protocol : {"ISO_TP", "VW_TP20"}, repeat : 1 .. MaxRepeat, session : BOOLEAN] :
     r.protocol = "ISO_TP" => r.repeat = 1 /\ ~r.session}

NoIntent == [state |-> "NONE", error |-> "NONE"]

IdleJob ==
  [active |-> FALSE, id |-> 0,
   request |-> [protocol |-> "ISO_TP", repeat |-> 1, session |-> FALSE],
   phase |-> "NONE",
   tx |-> "NONE", attempts |-> 0,
   deadline |-> 0,          \* deadline_ms
   repeatAt |-> 0,          \* tp20_repeat_not_before_ms
   due |-> 0,               \* the time the phase waits for: until the frame may be offered
                            \* (again), until the ECU must have answered the disconnect or
                            \* the channel test, or until the channel is tested
   open |-> FALSE,          \* tp20_channel_open
   reply |-> "NONE",        \* the assembled response: nothing, a part, or what it says
   afterAck |-> "NONE",
   terminal |-> NoIntent,   \* the outcome cleanup has to end with
   outcome |-> NoIntent,    \* result.state and result.error once it ended
   completed |-> 0,         \* result.completed_requests
   requests |-> 0,          \* history: application requests the driver took
   farewell |-> FALSE]      \* history: the disconnect was sent, or given up

-----------------------------------------------------------------------------
(* Time. *)

After(t, delay) == (t + delay) % ClockModulus

(* The signed difference is not negative. *)
TimeReached(t, time) == (t + ClockModulus - time) % ClockModulus < HalfClock

-----------------------------------------------------------------------------
(* Functions from a job to the job after a step of the code. *)

(* stageTx: the frame may go out at once, which the code writes as time 0. *)
StageTx(j, action, sending) ==
  [j EXCEPT !.tx = action, !.attempts = 0, !.due = 0, !.phase = sending]

ClearPendingTx(j) == [j EXCEPT !.tx = "NONE", !.attempts = 0, !.due = 0]

(* finishImmediately up to the publication; Release is the rest.  The intent *)
(* stays readable until then.                                                *)
Finish(j, state, error) ==
  [ClearPendingTx(j) EXCEPT !.phase = "NONE", !.outcome = [state |-> state, error |-> error]]

StageDisconnect(j, state, error) ==
  StageTx([j EXCEPT !.terminal = [state |-> state, error |-> error]],
          "DISCONNECT", "TP20_SEND_DISCONNECT")

(* Defect: the job ends although the ECU's channel is still open. *)
RequestFinish_LeavesOpen(j, state, error) == Finish(j, state, error)

RequestFinish(j, state, error) ==
  IF j.request.protocol = "VW_TP20" /\ j.open
  THEN StageDisconnect(j, state, error)
  ELSE Finish(j, state, error)

Fail(j, error) == RequestFinish(j, "FAILED", error)

FinalizeTerminalIntent(j) == Finish(j, j.terminal.state, j.terminal.error)

StageKwpRequest(j, session) ==
  IF session
  THEN StageTx([j EXCEPT !.reply = "NONE"], "SESSION", "TP20_SEND_SESSION")
  ELSE StageTx([j EXCEPT !.reply = "NONE"], "REQUEST", "TP20_SEND_REQUEST")

CompleteKwpRequest(j, t) ==
  IF j.completed + 1 >= j.request.repeat
  THEN RequestFinish([j EXCEPT !.completed = @ + 1], "COMPLETE", "NONE")
  ELSE [j EXCEPT !.completed = @ + 1, !.phase = "TP20_WAIT_REPEAT",
                 !.repeatAt = After(t, RepeatInterval),
                 !.due = After(t, TestInterval)]

(* What a KWP exchange does next; shared by applyAfterAck and                *)
(* handleKwpPayloadOutcome.                                                  *)
Continue(j, outcome, t) ==
  CASE outcome = "WAIT_SESSION_RESPONSE" -> [j EXCEPT !.phase = "TP20_WAIT_SESSION_RESPONSE"]
    [] outcome = "WAIT_REQUEST_RESPONSE" -> [j EXCEPT !.phase = "TP20_WAIT_REQUEST_RESPONSE"]
    [] outcome = "SESSION_COMPLETE" -> StageKwpRequest(j, FALSE)
    [] outcome = "REQUEST_PENDING" ->
         [j EXCEPT !.reply = "NONE", !.phase = "TP20_WAIT_REQUEST_RESPONSE"]
    [] outcome = "REQUEST_COMPLETE" -> CompleteKwpRequest(j, t)
    [] outcome = "FAILED" -> Fail(j, "PROTOCOL")

(* After our acknowledgement went out.  A session answer "response pending"  *)
(* is not cleared on this path.                                              *)
ApplyAfterAck(j, t) == Continue([j EXCEPT !.afterAck = "NONE"], j.afterAck, t)

(* When the ECU wanted no acknowledgement. *)
HandleKwpPayloadOutcome(j, outcome, t) ==
  Continue(IF outcome = "WAIT_SESSION_RESPONSE" THEN [j EXCEPT !.reply = "NONE"] ELSE j,
           outcome, t)

KwpOutcome(reply, session) ==
  CASE reply = "PENDING" -> IF session THEN "WAIT_SESSION_RESPONSE" ELSE "REQUEST_PENDING"
    [] reply = "REFUSED" -> "FAILED"
    [] reply = "POSITIVE" -> IF session THEN "SESSION_COMPLETE" ELSE "REQUEST_COMPLETE"

StageAck(j, outcome) == StageTx([j EXCEPT !.afterAck = outcome], "ACK", "TP20_SEND_ACK")

HandleSuccessfulTx(j, action, t) ==
  CASE action = "ISO_REQUEST" -> [j EXCEPT !.phase = "ISO_WAIT_RESPONSE", !.requests = @ + 1]
    [] action = "ISO_FLOW_CONTROL" -> [j EXCEPT !.phase = "ISO_WAIT_CONSECUTIVE"]
    [] action = "SETUP" -> [j EXCEPT !.phase = "TP20_WAIT_SETUP"]
    [] action = "PARAMS" -> [j EXCEPT !.phase = "TP20_WAIT_PARAMS"]
    [] action = "SESSION" -> [j EXCEPT !.phase = "TP20_WAIT_SESSION_ACK"]
    [] action = "REQUEST" -> [j EXCEPT !.phase = "TP20_WAIT_REQUEST_ACK", !.requests = @ + 1]
    [] action = "ACK" -> ApplyAfterAck(j, t)
    [] action = "CHANNEL_TEST" ->
         [j EXCEPT !.phase = "TP20_WAIT_CHANNEL_TEST", !.due = After(t, TestWait)]
    [] action = "DISCONNECT" ->
         [j EXCEPT !.phase = "TP20_WAIT_DISCONNECT", !.farewell = TRUE,
                   !.due = After(t, DisconnectWait)]

(* transmitOnePendingFrame reaches the driver. *)
Offers(j, t) == j.tx # "NONE" /\ TimeReached(t, j.due)

(* Defect: the limit is compared with the attempts before this one. *)
TxRefused_OneMoreTry(j, t) ==
  IF j.attempts < MaxAttempts
  THEN [j EXCEPT !.attempts = @ + 1, !.due = After(t, RetryDelay)]
  ELSE IF j.tx = "DISCONNECT"
       THEN FinalizeTerminalIntent([j EXCEPT !.farewell = TRUE])
       ELSE Fail(ClearPendingTx(j), "TX_FAILED")

(* The driver refused the frame once more. *)
TxRefused(j, t) ==
  IF j.attempts + 1 < MaxAttempts
  THEN [j EXCEPT !.attempts = @ + 1, !.due = After(t, RetryDelay)]
  ELSE IF j.tx = "DISCONNECT"
       THEN FinalizeTerminalIntent([j EXCEPT !.farewell = TRUE])
       ELSE Fail(ClearPendingTx(j), "TX_FAILED")

(* Defect: a frame that was sent stays pending. *)
Transmit_KeepsPending(j, t, accepted) ==
  CASE ~Offers(j, t) -> j
    [] Offers(j, t) /\ accepted -> [HandleSuccessfulTx(j, j.tx, t) EXCEPT !.tx = j.tx]
    [] Offers(j, t) /\ ~accepted -> TxRefused(j, t)

Transmit(j, t, accepted) ==
  CASE ~Offers(j, t) -> j
    [] Offers(j, t) /\ accepted -> HandleSuccessfulTx(ClearPendingTx(j), j.tx, t)
    [] Offers(j, t) /\ ~accepted -> TxRefused(j, t)

BeginJob(t) ==
  LET fresh == [IdleJob EXCEPT !.active = TRUE, !.id = mailbox.id, !.request = mailbox.request,
                               !.deadline = After(t, Timeout)]
  IN  IF mailbox.request.protocol = "ISO_TP"
      THEN StageTx(fresh, "ISO_REQUEST", "ISO_SEND_REQUEST")
      ELSE StageTx(fresh, "SETUP", "TP20_SEND_SETUP")

Expired(j, t) ==
  \/ TimeReached(t, j.deadline)
  \/ j.phase = "TP20_WAIT_CHANNEL_TEST" /\ TimeReached(t, j.due)

(* An abort, then the deadlines. *)
EndIfDue(j, t) ==
  CASE abortId = j.id -> Fail(j, "ABORTED")
    [] abortId # j.id /\ Expired(j, t) -> Fail(j, "TIMEOUT")
    [] OTHER -> j

(* Between two repeats: the next request, or a test that keeps the channel. *)
RepeatIfDue(j, t) ==
  CASE j.phase = "TP20_WAIT_REPEAT" /\ TimeReached(t, j.repeatAt) -> StageKwpRequest(j, FALSE)
    [] /\ j.phase = "TP20_WAIT_REPEAT"
       /\ ~TimeReached(t, j.repeatAt)
       /\ TimeReached(t, j.due) ->
         StageTx(j, "CHANNEL_TEST", "TP20_SEND_CHANNEL_TEST")
    [] OTHER -> j

-----------------------------------------------------------------------------
(* The CAN task. *)

Finished(j) == j.phase = "NONE"

Shown(j) ==
  [id |-> j.id, state |-> IF Finished(j) THEN j.outcome.state ELSE "ACTIVE",
   completed |-> j.completed]

(* The job becomes j; clients see it if it ended or the handler publishes. *)
Settle(j, publishes) ==
  /\ job' = j
  /\ published' = IF Finished(j) \/ publishes THEN Shown(j) ELSE published

(* The tick goes on at this place, or is over. *)
GoTo(place) == tick' = [at |-> place, late |-> tick.late /\ place # "between"]

(* A new tick, at time t. *)
Begin(t) == tick.at = "between" /\ now' = t

TickIdle(t) ==
  /\ Begin(t)
  /\ ~job.active /\ ~ready
  /\ UNCHANGED <<busy, ready, mailbox, nextId, cancelId, abortId, published, job, tick, client>>

(* command_state.exchange. *)
TickClaim(t) ==
  /\ Begin(t)
  /\ ~job.active /\ ready
  /\ ready' = FALSE
  /\ GoTo("claimed")
  /\ UNCHANGED <<busy, mailbox, nextId, cancelId, abortId, published, job, client>>

(* Defect: a command that was cancelled in the mailbox is refused before there *)
(* is a job, and finishImmediately returns early.                             *)
TickBeginJob_RefusesFirst ==
  /\ tick.at = "claimed"
  /\ \/ /\ cancelId = mailbox.id
        /\ GoTo("between")
        /\ UNCHANGED <<published, job>>
     \/ /\ cancelId # mailbox.id
        /\ Settle(BeginJob(now), TRUE)
        /\ GoTo("begun")
  /\ UNCHANGED <<now, busy, ready, mailbox, nextId, cancelId, abortId, client>>

(* The look for a cancel that came while the job was in the mailbox, and       *)
(* beginJob, which both branches call.                                         *)
TickBeginJob ==
  /\ tick.at = "claimed"
  /\ Settle(BeginJob(now), TRUE)
  /\ GoTo(IF cancelId = mailbox.id THEN "refusing" ELSE "begun")
  /\ UNCHANGED <<now, busy, ready, mailbox, nextId, cancelId, abortId, client>>

TickRefuse ==
  /\ tick.at = "refusing"
  /\ Settle(Finish(job, "CANCELLED", "CANCELLED"), TRUE)
  /\ GoTo("between")
  /\ UNCHANGED <<now, busy, ready, mailbox, nextId, cancelId, abortId, client>>

(* A check leaves the job j.  A tick whose job has ended does nothing more. *)
Checked(j) ==
  /\ Settle(j, FALSE)
  /\ GoTo(IF Finished(j) THEN "between" ELSE "sending")

(* Defect: a cancel waits until nothing is pending for the driver. *)
LookAtCancel_WhenIdle ==
  \/ /\ cancelId = job.id /\ job.tx = "NONE"
     /\ Checked(RequestFinish(job, "CANCELLED", "CANCELLED"))
  \/ /\ ~(cancelId = job.id /\ job.tx = "NONE")
     /\ GoTo("uncancelled")
     /\ UNCHANGED <<published, job>>

(* The look at cancel_job_id in every tick of a job. *)
LookAtCancel ==
  \/ /\ cancelId = job.id
     /\ Checked(RequestFinish(job, "CANCELLED", "CANCELLED"))
  \/ /\ cancelId # job.id
     /\ GoTo("uncancelled")
     /\ UNCHANGED <<published, job>>

TickNewJob ==
  /\ tick.at = "begun"
  /\ LookAtCancel
  /\ UNCHANGED <<now, busy, ready, mailbox, nextId, cancelId, abortId, client>>

TickJob(t) ==
  /\ Begin(t)
  /\ job.active /\ ~Finished(job) /\ job.terminal = NoIntent
  /\ LookAtCancel
  /\ UNCHANGED <<busy, ready, mailbox, nextId, cancelId, abortId, client>>

(* The other checks, after that look. *)
TickChecks ==
  /\ tick.at = "uncancelled"
  /\ Checked(RepeatIfDue(EndIfDue(job, now), now))
  /\ abortId' = IF abortId = job.id THEN 0 ELSE abortId
  /\ UNCHANGED <<now, busy, ready, mailbox, nextId, cancelId, client>>

(* transmitOnePendingFrame: at most one frame. *)
TickSend(accepted) ==
  /\ tick.at = "sending"
  /\ Settle(Transmit(job, now, accepted), Offers(job, now))
  /\ GoTo("between")
  /\ UNCHANGED <<now, busy, ready, mailbox, nextId, cancelId, abortId, client>>

DisconnectExpired(t) ==
  job.phase = "TP20_WAIT_DISCONNECT" /\ TimeReached(t, job.due)

(* Once an outcome is decided, only the disconnect is carried out. *)
TickCleanup(t, accepted) ==
  /\ Begin(t)
  /\ job.active /\ ~Finished(job) /\ job.terminal # NoIntent
  /\ \/ /\ DisconnectExpired(t)
        /\ Settle(FinalizeTerminalIntent(job), TRUE)
     \/ /\ ~DisconnectExpired(t)
        /\ Settle(Transmit(job, t, accepted), Offers(job, t))
  /\ UNCHANGED <<busy, ready, mailbox, nextId, cancelId, abortId, tick, client>>

(* The first step of a tick, and the others. *)
TickStart(step) ==
  LET t == After(now, step)
  IN  \/ TickIdle(t) \/ TickClaim(t) \/ TickJob(t)
      \/ \E accepted \in BOOLEAN : TickCleanup(t, accepted)

TickOn ==
  \/ TickBeginJob \/ TickRefuse \/ TickNewJob \/ TickChecks
  \/ \E accepted \in BOOLEAN : TickSend(accepted)

(* The rest of finishImmediately: forget requests about this job, then free *)
(* the slot.                                                                 *)
Release ==
  /\ job.active /\ Finished(job)
  /\ cancelId' = IF cancelId = job.id THEN 0 ELSE cancelId
  /\ abortId' = IF abortId = job.id THEN 0 ELSE abortId
  /\ job' = IdleJob
  /\ busy' = FALSE
  /\ UNCHANGED <<now, ready, mailbox, nextId, published, tick, client>>

-----------------------------------------------------------------------------
(* diagnosticTransportObservePhysicalFrame: a frame read from a bus is shown  *)
(* to the job before the gateway takes it.                                    *)

Reply == {"PENDING", "POSITIVE", "REFUSED"}

Observing == tick.at = "between" /\ job.active /\ ~Finished(job)

(* A handler that starts the cleanup publishes nothing. *)
Observed(j) ==
  /\ Settle(j, j.terminal = NoIntent)
  /\ UNCHANGED <<now, busy, ready, mailbox, nextId, cancelId, abortId, tick, client>>

CompleteIsoPayload(j, reply) ==
  CASE reply = "PENDING" -> [j EXCEPT !.phase = "ISO_WAIT_RESPONSE"]
    [] reply = "REFUSED" -> Fail(j, "PROTOCOL")
    [] reply = "POSITIVE" -> RequestFinish(j, "COMPLETE", "NONE")

(* A single frame, a first frame, the last consecutive frame, or one that is  *)
(* too long or out of sequence; other consecutive frames change nothing here. *)
ObserveIso ==
  /\ Observing
  /\ \/ /\ job.phase \in {"ISO_WAIT_RESPONSE", "ISO_WAIT_CONSECUTIVE"}
        /\ \E reply \in Reply : Observed(CompleteIsoPayload(job, reply))
     \/ /\ job.phase = "ISO_WAIT_RESPONSE"
        /\ Observed(StageTx(job, "ISO_FLOW_CONTROL", "ISO_SEND_FLOW_CONTROL"))
     \/ /\ job.phase \in {"ISO_WAIT_RESPONSE", "ISO_WAIT_CONSECUTIVE"}
        /\ Observed(Fail(job, "PROTOCOL"))

(* Accepted, or rejected or malformed; no channel is open in that case. *)
ObserveSetup ==
  /\ Observing /\ job.phase = "TP20_WAIT_SETUP"
  /\ \/ Observed(StageTx([job EXCEPT !.open = TRUE], "PARAMS", "TP20_SEND_PARAMS"))
     \/ Observed(Finish(job, "FAILED", "PROTOCOL"))

ObserveParams ==
  /\ Observing /\ job.phase = "TP20_WAIT_PARAMS"
  /\ \/ Observed(StageKwpRequest(job, job.request.session))
     \/ Observed(Fail(job, "PROTOCOL"))

ObserveChannelTest ==
  /\ Observing /\ job.phase = "TP20_WAIT_CHANNEL_TEST"
  /\ Observed([job EXCEPT !.phase = "TP20_WAIT_REPEAT", !.due = After(now, TestInterval)])

ObserveDisconnect ==
  /\ Observing /\ job.phase = "TP20_WAIT_DISCONNECT"
  /\ Observed(FinalizeTerminalIntent(job))

Exchange(session) ==
  IF session THEN {"TP20_WAIT_SESSION_ACK", "TP20_WAIT_SESSION_RESPONSE"}
  ELSE {"TP20_WAIT_REQUEST_ACK", "TP20_WAIT_REQUEST_RESPONSE"}
WaitResponse(session) ==
  IF session THEN "WAIT_SESSION_RESPONSE" ELSE "WAIT_REQUEST_RESPONSE"

(* A payload that is whole stays what it was: no more bytes are taken. *)
ReplyAfter(reply) == IF reply \in Reply THEN {reply} ELSE {"PARTIAL"} \union Reply

(* A data fragment that fits, the last of its payload or not.  "Last" and the *)
(* announced length have to agree.                                            *)
DataFragment(j, reply, last, wantsAck, session) ==
  LET filled == [j EXCEPT !.reply = reply]
      outcome == IF reply = "PARTIAL" THEN WaitResponse(session) ELSE KwpOutcome(reply, session)
  IN  CASE last # (reply # "PARTIAL") -> Fail(filled, "PROTOCOL")
        [] last = (reply # "PARTIAL") /\ wantsAck -> StageAck(filled, outcome)
        [] last = (reply # "PARTIAL") /\ ~wantsAck /\ reply = "PARTIAL" ->
             Continue(filled, outcome, now)
        [] last = (reply # "PARTIAL") /\ ~wantsAck /\ reply # "PARTIAL" ->
             HandleKwpPayloadOutcome(filled, outcome, now)

(* An acknowledgement, a fragment, or anything that breaks the contract. *)
ObserveKwp(session) ==
  /\ Observing /\ job.phase \in Exchange(session)
  /\ \/ Observed(Continue(job, WaitResponse(session), now))
     \/ \E reply \in ReplyAfter(job.reply), last \in BOOLEAN, wantsAck \in BOOLEAN :
          Observed(DataFragment(job, reply, last, wantsAck, session))
     \/ Observed(Fail(job, "PROTOCOL"))

(* externalTesterCollision: nothing more is sent, not even a disconnect. *)
ObserveTester ==
  /\ Observing
  /\ Observed(Finish(job, "FAILED", "EXTERNAL_TESTER_COLLISION"))

(* The same for a job that is still in the mailbox. *)
ObserveTesterQueued ==
  /\ tick.at = "between" /\ ~job.active /\ ready
  /\ ready' = FALSE
  /\ Settle(Finish(BeginJob(now), "FAILED", "EXTERNAL_TESTER_COLLISION"), TRUE)
  /\ UNCHANGED <<now, busy, mailbox, nextId, cancelId, abortId, tick, client>>

Observe ==
  \/ ObserveIso \/ ObserveSetup \/ ObserveParams \/ ObserveChannelTest \/ ObserveDisconnect
  \/ \E session \in BOOLEAN : ObserveKwp(session)
  \/ ObserveTester \/ ObserveTesterQueued

-----------------------------------------------------------------------------
(* The client. *)

(* Defect: the slot is checked but not claimed atomically. *)
SubmitClaim_Unchecked ==
  /\ client.at = "idle" /\ nextId <= MaxJobs
  /\ published.state \notin {"QUEUED"}
  /\ busy' = TRUE
  /\ client' = [client EXCEPT !.at = "claimed"]
  /\ UNCHANGED <<now, ready, mailbox, nextId, cancelId, abortId, published, job, tick>>

(* diagnosticTransportSubmit: claim the slot, ... *)
SubmitClaim ==
  /\ client.at = "idle" /\ nextId <= MaxJobs
  /\ ~busy
  /\ busy' = TRUE
  /\ client' = [client EXCEPT !.at = "claimed"]
  /\ UNCHANGED <<now, ready, mailbox, nextId, cancelId, abortId, published, job, tick>>

(* Defect: the id counter does not advance. *)
SubmitPublish_SameId(request) ==
  /\ client.at = "claimed"
  /\ mailbox' = [id |-> nextId, request |-> request]
  /\ published' = [id |-> nextId, state |-> "QUEUED", completed |-> 0]
  /\ client' = [client EXCEPT !.at = "posting"]
  /\ UNCHANGED <<now, busy, ready, nextId, cancelId, abortId, job, tick>>

(* ... fill the mailbox and publish the queued result, ... *)
SubmitPublish(request) ==
  /\ client.at = "claimed"
  /\ nextId' = nextId + 1
  /\ mailbox' = [id |-> nextId, request |-> request]
  /\ published' = [id |-> nextId, state |-> "QUEUED", completed |-> 0]
  /\ client' = [client EXCEPT !.at = "posting"]
  /\ UNCHANGED <<now, busy, ready, cancelId, abortId, job, tick>>

(* ... and hand the mailbox over. *)
SubmitPost ==
  /\ client.at = "posting"
  /\ ready' = TRUE
  /\ client' = [client EXCEPT !.at = "idle"]
  /\ UNCHANGED <<now, busy, mailbox, nextId, cancelId, abortId, published, job, tick>>

(* diagnosticTransportCancel and diagnosticTransportAbort look at the result  *)
(* and then store the id they saw in it.                                      *)
Check(intention) ==
  /\ client.at = "idle"
  /\ busy /\ published.state \in {"QUEUED", "ACTIVE"}
  /\ client' = [at |-> intention, id |-> published.id]
  /\ UNCHANGED <<now, busy, ready, mailbox, nextId, cancelId, abortId, published, job, tick>>

(* The tick under way has looked at cancel_job_id. *)
PastLook == tick.at \in {"uncancelled", "sending"}

StoreCancel ==
  /\ client.at = "cancelling"
  /\ cancelId' = client.id
  /\ tick' = [tick EXCEPT !.late = IF cancelId = client.id THEN @ ELSE PastLook]
  /\ client' = [client EXCEPT !.at = "idle"]
  /\ UNCHANGED <<now, busy, ready, mailbox, nextId, abortId, published, job>>

StoreAbort ==
  /\ client.at = "aborting"
  /\ abortId' = client.id
  /\ client' = [client EXCEPT !.at = "idle"]
  /\ UNCHANGED <<now, busy, ready, mailbox, nextId, cancelId, published, job, tick>>

Begun == (\E request \in Request : SubmitPublish(request)) \/ SubmitPost \/ StoreCancel \/ StoreAbort

-----------------------------------------------------------------------------
Init ==
  /\ now = 0
  /\ busy = FALSE
  /\ ready = FALSE
  /\ mailbox = [id |-> 0, request |-> IdleJob.request]
  /\ nextId = 1
  /\ cancelId = 0
  /\ abortId = 0
  /\ published = [id |-> 0, state |-> "IDLE", completed |-> 0]
  /\ job = IdleJob
  /\ tick = [at |-> "between", late |-> FALSE]
  /\ client = [at |-> "idle", id |-> 0]

Next ==
  \/ \E step \in 0 .. MaxStep : TickStart(step)
  \/ TickOn
  \/ Release
  \/ Observe
  \/ SubmitClaim
  \/ Begun
  \/ \E intention \in {"cancelling", "aborting"} : Check(intention)

Spec == Init /\ [][Next]_vars

(* The CAN task keeps running and its ticks do not all see the same           *)
(* millisecond; a client finishes the call it is in.  Neither drivers nor     *)
(* ECUs owe anything.  Strong fairness for the first step of a tick: while a  *)
(* tick is under way no other can begin.                                      *)
Fairness ==
  /\ SF_vars(\E step \in 1 .. MaxStep : TickStart(step))
  /\ WF_vars(TickOn)
  /\ WF_vars(Release)
  /\ WF_vars(Begun)

FairSpec == Spec /\ Fairness

-----------------------------------------------------------------------------
Phases ==
  {"NONE", "ISO_SEND_REQUEST", "ISO_WAIT_RESPONSE", "ISO_SEND_FLOW_CONTROL", "ISO_WAIT_CONSECUTIVE",
   "TP20_SEND_SETUP", "TP20_WAIT_SETUP", "TP20_SEND_PARAMS", "TP20_WAIT_PARAMS",
   "TP20_SEND_SESSION", "TP20_WAIT_SESSION_ACK", "TP20_WAIT_SESSION_RESPONSE",
   "TP20_SEND_REQUEST", "TP20_WAIT_REQUEST_ACK", "TP20_WAIT_REQUEST_RESPONSE",
   "TP20_SEND_ACK", "TP20_WAIT_REPEAT", "TP20_SEND_CHANNEL_TEST", "TP20_WAIT_CHANNEL_TEST",
   "TP20_SEND_DISCONNECT", "TP20_WAIT_DISCONNECT"}
TxActions ==
  {"NONE", "ISO_REQUEST", "ISO_FLOW_CONTROL", "SETUP", "PARAMS", "SESSION", "REQUEST", "ACK",
   "CHANNEL_TEST", "DISCONNECT"}
AfterAcks ==
  {"NONE", "WAIT_SESSION_RESPONSE", "WAIT_REQUEST_RESPONSE", "SESSION_COMPLETE",
   "REQUEST_PENDING", "REQUEST_COMPLETE", "FAILED"}
Outcomes == {"COMPLETE", "FAILED", "CANCELLED"}
Ending ==
  {NoIntent} \union
  [state : Outcomes,
   error : {"NONE", "TX_FAILED", "TIMEOUT", "PROTOCOL", "EXTERNAL_TESTER_COLLISION",
            "CANCELLED", "ABORTED"}]

Job ==
  [active : BOOLEAN, id : Nat, request : Request, phase : Phases, tx : TxActions,
   attempts : 0 .. (MaxAttempts - 1), deadline : Clock, repeatAt : Clock, due : Clock, open : BOOLEAN,
   reply : {"NONE", "PARTIAL"} \union Reply, afterAck : AfterAcks, terminal : Ending,
   outcome : Ending, completed : Nat, requests : Nat, farewell : BOOLEAN]

TickPlaces == {"between", "claimed", "refusing", "begun", "uncancelled", "sending"}

(* Types.  A frame is offered to the driver fewer than kDiagnosticTxMaximumAttempts *)
(* times before it is given up.                                                     *)
TypeOK ==
  /\ now \in Clock
  /\ busy \in BOOLEAN /\ ready \in BOOLEAN
  /\ mailbox \in [id : Nat, request : Request]
  /\ nextId \in Nat /\ cancelId \in Nat /\ abortId \in Nat
  /\ published \in [id : Nat, state : {"IDLE", "QUEUED", "ACTIVE"} \union Outcomes, completed : Nat]
  /\ job \in Job
  /\ tick \in [at : TickPlaces, late : BOOLEAN]
  /\ client \in [at : {"idle", "claimed", "posting", "cancelling", "aborting"}, id : Nat]

Submitting == client.at \in {"claimed", "posting"}

(* Who holds the slot. *)
Holders ==
  {holder \in {"submitter", "mailbox", "tick", "job"} :
     \/ holder = "submitter" /\ Submitting
     \/ holder = "mailbox" /\ ready
     \/ holder = "tick" /\ tick.at = "claimed"
     \/ holder = "job" /\ job.active}

(* The slot is held by at most one of a submitter, the mailbox, the tick that took   *)
(* it from there and the job, and busy says whether.  This is what makes the mailbox *)
(* and the published result, written from both cores without a lock, have one writer *)
(* at a time.                                                                        *)
SlotOwnership ==
  /\ busy <=> Holders # {}
  /\ \A one, other \in Holders : one = other
  /\ ready \/ tick.at = "claimed" =>
       published = [id |-> mailbox.id, state |-> "QUEUED", completed |-> 0]
  /\ job.active => published.id = job.id

(* An application request reaches the ECU at most once per response (diagnostic      *)
(* operations may not be idempotent: "never retransmits application requests         *)
(* implicitly"), and a response is never credited to a request that was not sent.    *)
RequestsNotRepeated ==
  /\ job.requests <= job.completed + 1
  /\ job.requests <= job.request.repeat
  /\ job.completed <= job.requests

(* A job that opened a TP2.0 channel ends by saying goodbye or after the driver      *)
(* refused that, and with the outcome decided before ("preserve the original         *)
(* terminal outcome").  The exception is another tester, which ends it at once.      *)
CleanupKept ==
  job.active /\ Finished(job) /\ job.open =>
    \/ job.farewell /\ job.outcome = job.terminal
    \/ job.outcome.error = "EXTERNAL_TESTER_COLLISION"

(* After a cancel was accepted, the job sends no application request any more,       *)
(* wherever it was: in the mailbox, waiting for a mailbox of the driver, or between  *)
(* two repeats.  The exception is the tick the cancel came too late for: it had      *)
(* looked already and may offer the one frame it was about to.                       *)
CancelIsRespected ==
  [][job'.requests > job.requests => cancelId # job.id \/ tick.late]_vars

(* Whatever drivers, ECUs and clients do, every job ends and frees the slot.         *)
SlotAlwaysFreed == busy ~> ~busy

(* What a client can tell of the slot. *)
SlotState ==
  CASE ~busy -> "free"
    [] busy /\ client.at = "claimed" -> "taken"
    [] busy /\ client.at # "claimed" /\ published.state \in Outcomes -> "done"
    [] busy /\ client.at # "claimed" /\ published.state \notin Outcomes -> "running"

Slot == INSTANCE DiagnosticSlot WITH slot <- SlotState, result <- published

(* Clients see the slot and the result of the abstract specification: a submit takes  *)
(* the slot only when it is free, ids are new, a result never goes back, and a job    *)
(* has one outcome.                                                                   *)
ImplementsSlot == Slot!Spec

(* "Even a state transition that queues another frame cannot send it until the next  *)
(* tick": so it can then.  A frame that was never offered is due.                    *)
StagedFrameIsDue ==
  job.tx # "NONE" /\ job.attempts = 0 => TimeReached(now, job.due)
=============================================================================
