# SignalScope: specifications and proofs

SignalScope is firmware for an ESP32-S3 that sits between two CAN buses. It
forwards every frame, may rewrite frames by rules, talks to ECUs as a
diagnostic tester, records traffic, replays logs, and serves a web API. This
directory holds TLA+ modules that model parts of it, TLC configurations that
check them, and TLAPS proofs about them. File names are relative to the
repository; the maps from definitions to source lines are in `PROJECT.json`.

## The system

### Tasks

| task | core, priority | owns |
|---|---|---|
| `ss_can` (`canRuntimeTask`, main.cpp:1997) | 1, 3 | gateway queues, diagnostic job, producer side of the trace queue, replay ticks |
| `ss_app` (`applicationRuntimeTask`, main.cpp:2090) | 0, 2 | application callbacks, resource loads, session log ticks, parked power decisions |
| `ss_ui` (`uiRuntimeTask`) | 0, 1 | HTTP handlers |

`ss_app` and `ss_ui` run on the same core (main.cpp:2442-2457). They share the
recursive application lock; the session log and the replay engine have a lock
each. The CAN task takes no lock except the replay lock, and that one only if
it is free. Everything else between the cores goes through atomics.

### Components

| component | state | operations | what makes it correct |
|---|---|---|---|
| Gateway (core/gateway.cpp) | per direction: raw ring (127 usable), egress ring (64); alternating turns; statistics | accept a frame, poll (flush, process), purge on bus transitions, inject a replayed frame, publish statistics | order per direction, no loss or duplication after acceptance, rules applied once, nothing stale after a recovery, replay yields, directions independent |
| Mutation engine (core/mutation_engine.cpp) | candidate, committed shadow, two compiled tables, runtime state per slot, epoch, sequence counter | stage, clear, revert, commit, clear all, control staged / live / legacy, list, apply to a frame | candidate mirrors live when clean, live is what was committed, ids name the right rule, order, atomic publication |
| Rule package loader (core/rule_package.cpp) | none of its own: the candidate is its scratch space | load: clear, stage each row, commit, or revert on any failure | a rejected package changes nothing |
| Diagnostic transport (core/diagnostic_transport.cpp) | command mailbox, one active job with phase and deadlines, cancel and abort ids, published result | submit, cancel, abort, tick, observe a frame, read the result | every job ends once with one outcome, cancel and abort are not lost, a channel opened is closed, results are never torn |
| Trace queue (core/can_trace.cpp) | ring, sequence number, drop counters | start, stop, push, pop | events in order, gaps only where drops are counted, a restart starts clean |
| Session log (fs/session_log.cpp) | capture in RAM, checkpoint files with two alternating manifests, temporary, primary and backup file | start, append, stop, save in chunks, checkpoint, recover at boot, retry, clear | the last good session survives a reset at any step |
| Frame cache, signal cache (core/) | one entry per id or signal with a sequence word | update, read, snapshot, swap on a new DBC | no torn read; no decode across a swap |
| Observation manager (core/) | two double-buffered id tables, reader count | set, add, remove, snapshot, test | a reader never walks a table being rebuilt |
| Replay engine (core/replay_engine.cpp) | frames, cursor, due time | load, start, stop, tick | order and pace, over a clock that wraps |
| Parked power (core/parked_power.cpp, main.cpp:1795) | policy timers, quiesce request and acknowledgement | observe traffic, decide, quiesce CAN, sleep | sleeps only when idle; CAN is quiet before power-down and runs again after a refusal |
| Signal codec (core/signal_codec.cpp) | none | does a signal fit, read its bits, extend its sign | agrees with the rules on where the bits of a field are |
| Runtime values and tables, DBC parser, catalog, settings, application registry | small registries and pure functions | | |
| Web API (main.cpp), browser UI (data/), tools | HTTP arguments | one handler per route | handlers act on the rule, job or recording they were asked about |

Interaction: the drivers hand frames to `pollCanIngress`, which offers each to
the diagnostic transport first and else to the gateway; `forwardFrame` feeds
the caches, asks the observation manager and the mutation engine, and the
trace queue records the result; `ss_app` drains the trace queue into the
session log; replay frames enter through `injectReplayFrame`; handlers stage
and commit rules, load DBCs and submit jobs.

Hard to test: what a commit does to a frame being processed on the other core;
slots that are reused while a client holds an old id; order under any mix of
busy mailboxes and bus failures; package loads that fail half way; resets
between two file operations; a spin on one core waiting for a task it
preempted. `PROJECT.json` lists these as hazards, each with its line and the
properties about it.

## The modules

| module | what it is |
|---|---|
| `FrameChannel`, `FrameChannelProofs` | what the gateway promises per direction: one FIFO line, left at its head or discarded whole, replay only when all lines are empty |
| `Gateway`, `GatewayProofs`, `MCGateway` | the gateway and the CAN task's loop |
| `MutationEngine`, `MCMutationEngine` | the rule tables as their clients see them, and the package loader |
| `SignalCodec` | how a signal's bits are read from a frame |
| `FrameRewrite`, `MCFrameRewrite` | what the compiled rules do to a frame, bit by bit, while other tasks change values, enables and selectors |
| `RuleEngine`, `MCRuleEngine` | both sides of the engine, tables and frames, checked together |
| `MutationEngineProofs` | proofs about `MutationEngine`, `FrameRewrite` and `RuleEngine` |
| `RulePublication` | what a commit promises its readers: one atomic replacement |
| `RuleCommit`, `RuleCommitProofs`, `MCRuleCommit` | `applyCommit` at the grain of its atomic operations |
| `DiagnosticSlot` | what the diagnostic transport promises its clients: one slot, one result that only moves forward, one outcome per job |
| `DiagnosticTransport`, `DiagnosticTransportProofs`, `MCDiagnosticTransport` | mailbox, job, retries, deadlines and cleanup of the diagnostic transport |
| `SavedSession` | what the session log promises: one session on offer after any reset, which only moves forward |
| `SessionLog`, `SessionLogProofs`, `MCSessionLog` | the recorder's files: checkpoints, save, rename, boot recovery, resets and failing calls |
| `StatsSnapshot` | the gateway's statistics in three buffers |
| `ResultWords` | the published diagnostic result, word by word |
| `DecodePath` | decoding, the signal cache and the DBC swap |
| `ObservationTables` | the two double-buffered observation tables |
| `FrameCache` | the cache of last frames: offer, eviction, snapshots |
| `CanTrace` | the trace queue between the CAN task and the recorder |
| `Replay` | the replay engine over a clock that wraps |
| `ParkedPower`, `MCParkedPower` | the sleep policy and the handshake before deep sleep |
| `CrossCore`, `MCCrossCore` | the eight protocols between the cores, checked together |
| `ReadProofs` | proofs about `StatsSnapshot`, `ResultWords`, `DecodePath` and `ObservationTables` |
| `CrossCoreProofs` | proofs about `Replay`, `CanTrace`, `FrameCache` and `ParkedPower`, and about the composition of all eight |

Operators named `X_Something` directly above `X` are defective variants of
`X`; no specification uses them. Each violates one of the properties when put
in X's place.

### Gateway

One action is one turn of one of the loops in `flushEgressFair`, `pollRx` and
`pollCanIngress`; `poll` holds the loop's locals, `pc` says which loop. Steps
of the CAN task are not interleaved with each other, because it is the only
owner of the queues; what happens between them is the hardware: whether the
driver takes a frame is a free choice at each attempt on a ready bus, and
`Health` takes any set of buses down or up and purges as `setBusAReady` and
`setBusBReady` do. Frames are numbered in the order they are accepted, so order
and loss can be stated. The loop is as in the code: poll, ingress, poll,
health, replay. The diagnostic tick is not in the loop: a frame a diagnostic
session consumes never reaches the gateway.

The queues are sequences, with the capacity the ring indices give (one slot of
the raw ring stays empty). Payloads are not represented; caches and statistics
are in modules of their own, and of the statistics only the two that are claims
(`tx_failures`, `stale_frames_purged`) are here.

`FifoOrder` is about the order in which frames are handed to the driver. The
MCP2515 has three transmit mailboxes; in which order it sends frames that are
in them together is the controller's affair.

### MutationEngine

One action is one call under the application lock. A slot maps to an entry;
rule identities, values and slots are small sets. `CounterAdvances` is the CAN
task claiming a counter value, which happens at any time, also inside a package
load. A handle is a (view, slot, epoch) a client was given, together with the
rule it stood for; `ControlByHandle` presents it at any later time.
`EnableByIdentity` is `handleRuleEnable` without a rule id. A call that is
refused (busy lock, stale epoch, full table, failed compile) is a stuttering
step, and `Deadlock` is therefore not an issue there. That a commit whose rules
do not compile leaves the runtime values alone is checked in `RuleCommit`, where
compiling and publishing are steps of their own.

`SequenceModulus` is 65536 in the code; the run uses one that no behaviour of
the model reaches (what happens at the wrap is noted below). A history field
`born` numbers the rules in staging order and is what the order is compared
with.

### SignalCodec and FrameRewrite

A payload, a mask and a raw value are sets of bits, so a frame of any length can
be reasoned about without arithmetic on words. `SignalCodec` has the reading
side. Its one closed form is the path of a big-endian signal: numbering the bits
as they are read (`ReadingOrder`) turns `nextMotorolaBit` into counting;
`MCFrameRewrite` checks that this is the walk of the code (`PathIsWalked`).

`FrameRewrite` is `applyFrameMutations` on the rules of one identifier and
direction, which were accepted by `normalizeRule` and sorted by `applyCommit`
(`Groups`). `turn` is the rule and `at` the place within its handling; each
read of a word that another task writes is a step: the enable, the selector in
the loop, the selector again in the rule's own function, the value, and the
compare-and-exchange. Between any two of them a client may set a value or an
enable, and the application may publish a selector. A spurious failure of the
weak exchange is a stuttering step. The table itself does not change here: that
a commit cannot come in between is the subject of `RuleCommit`.

The frame as received, the rules that wrote, what each of them meant to write
and the value the next frame is owed (`owed`) are history. `owed` is advanced
from itself, never from the slot, so a lost or repeated update shows.

What a rule computes from the floats of an application's value is any of
`Output`, or nothing at all when they are not finite. The rounding of a physical
value (`llround`) is left out; the clamping behind it is modelled, on words
whose negative numbers have the top bit set, and `ClampsIntegers` checks that
it is clamping of integers. The frame is taken to have all its bytes. The CRC is
the code's shift register; `VectorsMatch` compares it with vectors of the
repository's test.

`RuleEngine` puts `MutationEngine` and `FrameRewrite` side by side. In the code
both work on the same slots; here each has its own view of them, the one at
the grain of calls, the other at the grain of reads, and a behaviour looks at
one side while the other stays as it is at start. Its properties are
conjunctions of those of the two modules. `rules_enable` checks
`MutationEngine` alone.

### RuleCommit

Tasks step between any two atomic operations of another task, except that a
task runs only while no task of higher priority on the same core is ready;
`taskYIELD` keeps a task ready. Reading is split where `beginMutationRead` can
be interrupted: flag, increment, flag again, load of the table, use. A
committer clears the inactive table, compiles or fails, closes the door, waits,
writes the runtime state slot by slot, swaps, advances the epoch, opens the
door. The content of a slot is the number of the commit it came with, so a
mixture of two commits is visible. Here the epoch counts commits only; staging
advances it too, which is part of `MutationEngine`.

### DiagnosticTransport and ResultWords

The CAN task owns the job. The functions from job to job (`StageTx`,
`RequestFinish`, `Transmit`, ...) are the functions of the file, and the steps of
a tick are composed of them. A tick is not atomic: `tick.at` says which of the
words that clients write it has read, and a client may store an id between any
two of its steps.

| step | reads | then |
|---|---|---|
| `TickClaim` | the mailbox's state | takes the command |
| `TickBeginJob` | `cancel_job_id` | builds the job and publishes it; `TickRefuse` ends it at once, else `TickNewJob` |
| `TickJob`, `TickNewJob` | `cancel_job_id` again | `LookAtCancel` ends the job, or stages its goodbye |
| `TickChecks` | `abort_job_id` | abort, deadlines, the next repeat or test |
| `TickSend` | | offers at most one frame to the driver |

`TickCleanup` is the tick of a job whose outcome is decided; it reads no client's
word. `finishImmediately` is split between publishing the outcome and freeing the
slot (`Release`). Received frames are shown to the job between two ticks, by the
same task. Clients hold the application lock, so there is one client; a submit
takes three steps, a cancel or abort two, so that the CAN task can come between
reading the result and storing the id.

A cancel that is stored after the look of a tick comes too late for the frame
this tick may offer. `tick.late` is a history variable that remembers it, and
`CancelIsRespected` excepts that one tick and nothing else.

A received frame is what the handlers make of it: an acknowledgement, a
fragment that is the last or not and wants an acknowledgement or not, a reply
that is positive, pending or a refusal, a frame that breaks the contract, or a
frame of another tester. Any of them may arrive at any time. `due` stands for
the three time fields of which the phases use one at a time: the retry time of
a staged frame, the wait for a disconnect or test answer, the time of the next
channel test.

There a result is published in one step. `ResultWords` is what happens inside
that step: the sequence word becomes odd, the words are stored in any order, the
sequence word becomes even; a reader loads them in any order between two looks
at the sequence word, and gives up after eight attempts. Submitter and CAN task
publish in turn, which `SlotOwnership` of `DiagnosticTransport` justifies.

### SessionLog

One step is one call of the file system, and `pc` is the place in the operation
that makes it. A file is the session it holds, how many of its chunks are there
and how it ends. What is written but not synced may be lost by a reset to any
extent (`Between`); manifests are files of one small write and are intact or
torn. Any call but a read may fail, up to `MaxFaults` of them. `Init` is the
first boot of this firmware over anything an earlier one may have left, and
`begin()` runs after every reset.

`Offer` is the session that `begin()` would end up with if the power went now.
`SavedSession` is stated over it: the files, renames and manifests implement one
variable that always holds exactly one session.

Assumed, because the file system is not in this repository: truncating and
renaming are transactions of LittleFS, reads do not fail, and the reserve kept
for the End record is enough. The size check on reopening a checkpoint is part
of a file being valid.

### The protocols between the cores

`CrossCore` puts eight modules side by side: `StatsSnapshot`, `ResultWords`,
`DecodePath`, `ObservationTables`, `FrameCache`, `CanTrace`, `Replay` and
`ParkedPower`. They share no variable and no step of one reads another, so
their interleavings show nothing new: `focus` picks one at the start and the
others stay as they began. The state space is the sum of the eight.

A step is one access to a word or a structure the other core can see.

- *StatsSnapshot*: `publishStats` looks for a buffer that is neither active nor
  pinned and skips the publication if there is none; readers load the index, pin
  the buffer and look again. A sample is copied in two halves.
- *DecodePath*: the pause, the wait for `decode_readers_`, and the swap of
  database, entries and signal count in that order, against the CAN task in
  `forwardFrame` and a reader of `readRuntimeEntry`. The swap, subscriptions
  and reads hold the application lock; the listing for the web page, which
  holds none, is not modelled.
- *ObservationTables*: `ss_app` preempts `ss_ui` (`Runs`), both rebuild the
  inactive table, wait for the readers and swap; the CAN task looks through
  mandatory, then specific. `overtaken` remembers the one overlap the code
  allows, see below.
- *FrameCache*: a frame takes the entry of its identity, a free one, or the one
  under the round-robin cursor; one lock guards the table, and a frame that
  finds it taken is not cached. Readers copy entry by entry.
- *CanTrace*: every access of `push`, `pop`, `start` and `stop` is a step, and
  the indices wrap at `Span`. Start and stop come from the recorder, which also
  drains the queue into the capture. Its tick takes over the drops (`Account`),
  may then stop a full capture (`StopFull`), and looks at the queue and for the
  producer (`CheckPending`, `CheckIdle`), each in a step of its own.
- *Replay*: the CAN task takes the replay lock only if it is free; a handler
  loads, starts and stops. `Wraps` tells which delays the clock's wrap is
  allowed to spoil.
- *ParkedPower*: a loop of either task reads the clock once at its beginning.
  Deciding, asking, acknowledging, the two timeouts and the checks after the
  handshake are steps of their own; ignition and frames arrive between any two.

## The runs

| run | bounds | result |
|---|---|---|
| `gateway_safety` | raw 2, egress 2, flush and raw budgets 2, ingress budget 3, 4 frames | all properties hold, 3.79 million states |
| `gateway_liveness` | raw 1, egress 1, 3 frames, only Bus A trusted | both hold, 377 thousand states |
| `rule_engine` | tables: 4 rules, 2 slots, 2 values, 3 allocations, 7 epoch steps; frames: 3 bytes, values modulo 16, 2 frames, 64 rule groups of up to 3 rules | all hold, 1.77 million states |
| `rules_enable` | the tables alone, the same bounds | violated, see Findings |
| `commit_atomic` | readers CAN and UI, committers application and UI, 2 slots, 3 commits | all hold, 66 thousand states |
| `commit_drain` | one commit | violated, see Findings |
| `transport` | clock of 8 ms, timeout 3, repeat interval 2, other delays 1, 2 attempts, 2 repeats, 2 jobs | all properties hold, 1.13 million states |
| `transport_clock` | the same, one job, no repeat | violated, see Findings |
| `session_log` | what an earlier firmware left, then 2 recordings of up to 3 chunks, 2 resets, 1 failing call | all hold, 438 thousand states |
| `session_rename` | one recording of 2 chunks, 1 reset, 1 failing call | violated, see Findings |
| `cross_core` | see below | all hold, 3.56 million states |
| `parked_ignition` | `ParkedPower` alone, 8 ms | violated, see Findings |

Why the bounds are enough. Gateway: with rings of 2 both rings of a
direction fill, stall and drain within 4 frames, in one direction or split
over both; an ingress budget of 3 finds a raw ring of 2 full, and budgets of 2
run out in the middle of a pass and at its end; the proofs below cover all sizes. Rules: two slots for four rules make
slots be reused and the table be full; three allocations and seven epoch steps
allow a load that fails after two rows, a commit before and a control after
it. Frame rewriting: three bytes give a big-endian field a first, a middle and a last
byte, and fields start and end within bytes and at their edges; fields as wide as
the frame and one bit narrower meet the ends of a word; a second frame shows what the
first has left in a slot; of 66 packages one is refused and one is out of order;
the groups let fields of both byte orders, masks and
checksums overlap. Commit: two slots show a half-written runtime state, three commits use each
table twice. Transport: every delay is shorter than half the clock, as on the
target, the clock wraps during a job, and a timeout of 3 with delays of 1 lets a
retry, a channel test and a repeat each happen before and after a deadline; two
repeats have a first and a last; a second job is what an id stored too late
could hit. Session log: three chunks make two checkpoints and a rest, so each
manifest slot is the older one once; a reset during the recovery from a reset
needs two; one failing call at every place, and a retry after it.

`cross_core`: two readers of the statistics pin both buffers the publisher may
use, and five samples come round to the first of them again; two words, two
attempts and three publications of a diagnostic result let one overtake a reader
twice; two DBCs and four decoded frames put a decode on both sides of each swap;
two keys tell a table from the one before; two cache entries for three
identities, two of them with the same home, evict on every kind of path; a trace ring of
two with indices modulo 6 wraps within seven events and two captures, and four
records fill a capture; the replay clock wraps at 6 within 7 steps; the sleep
times are 1 or 2 ms, so each of them can run out before or after the others.
The `Span` of the trace indices must be a multiple of the capacity, as 2^32 is of
the 4096 slots the firmware asks for (`TraceAssumption`).

Fairness. The CAN task runs for ever (`WF(CanLoop)`): it has a core of its own
and no step of it waits. Of the hardware, only the buses in `LiveDirections`
are trusted, and only in the liveness run: they come back if the health check
keeps running, and take a frame that is offered again and again. Nothing is
assumed of the other bus. In `RuleCommit` a task inside a commit or a read
continues when it is not preempted; nobody ever has to begin one. The code
justifies this: the tasks never suspend inside these sections. In
`DiagnosticTransport` the CAN task keeps ticking while time passes: weak fairness
for the steps within a tick, strong fairness for the first step of one, since none
can begin while another is under way. A client finishes the call it is in; nothing
is assumed of drivers, ECUs or testers. The
other modules state safety only and assume no fairness.

Atomics are taken as sequentially consistent, as the barriers the compiler puts
around them make them on this processor, with the exception of the words of a
diagnostic result, which are stored and loaded in any order.

## Findings

- `rules_enable`: an enable change of the candidate marks the entry for
  publication, value included. The comment at mutation_engine.cpp:564 says such
  a commit must not restore an older value; it does when a counter has run on,
  or when the live value was set (view=active) after the enable change.
- `commit_drain`: `handleRulesList`, `findRuleIdByIdentity` and
  `appendActiveRulesJson` list the live rules on the UI task; the first does so
  without the application lock. If the application task preempts it there and
  commits, it waits for a reader that cannot run. `UnlessPreempted` is the part
  that does hold.
- `transport_clock`: a staged frame is due "at once", written as time 0, and
  times are compared by signed difference. In the upper half of the clock (from
  24.9 days of uptime until the wrap at 49.7) time 0 lies in the future: nothing
  is offered to a driver and every job runs into its deadline. `SlotAlwaysFreed`
  still holds because the clock wraps.
- `session_rename`: when boot recovery cannot rename the log to its backup
  (session_log.cpp:563) it goes on as if the candidate could not be promoted and
  removes the log (session_log.cpp:580), although no backup exists. The comment
  at session_log.cpp:553 says that the known-good primary is preserved until the
  candidate has been renamed. The candidate is not lost: the next boot finds it.
- `parked_ignition`: the application loop reads its clock once (main.cpp:2094),
  the CAN task may then store a later time of the ignition (main.cpp:1137), and
  `now - last_on` (parked_power.cpp:107) wraps to a very long time: an ignition
  switched on in this very millisecond counts as long off. The guard at
  parked_power.cpp:141 is meant to exclude this. The same subtraction is at
  main.cpp:1811. `AwakeUnlessYounger` is the part that does hold.

Seen while modelling, with no run of their own:

- Rules of one kind are ordered by a sequence number cut to 16 bits
  (mutation_engine.cpp:1306), while docs/RULES.md:253 promises staging order.
  Each package load numbers all its rules anew, so a unit that reloads packages
  for long enough gets there.
- `handleRuleEnable` without a rule id looks the slot up among the live rules
  (main.cpp:2989) and then may change the candidate in that slot, which can be
  another rule.
- A counter or sequence asks its selector twice, in the frame loop
  (mutation_engine.cpp:488) and again in its own function (lines 1128 and 1148),
  and advances whatever the second answer is. A selector that flips between the
  two makes it advance without the frame carrying the value. The frame itself
  stays as it was (`OtherBitsPass`). `applyDynamicRule` returns in that case
  (line 1218).
- Checksum rules may name a target inside the bytes they cover, and two checksums
  may cover each other; `normalizeRule` accepts both, and `ChecksumsHold` excepts
  them.
- `encodeSignalRaw` and `insertRaw` of the codec have no caller in the firmware.
  `insertRaw` writes bit by bit and would leave a part of the value behind where
  the field runs out of the frame.
- Another tester during the cleanup replaces the outcome decided before
  (`externalTesterCollision`), although the tick says that cleanup is "to
  preserve the original terminal outcome" (diagnostic_transport.cpp:1263).
  `CleanupKept` states the exception.
- `applyAfterAck` does not clear a session answer "response pending"; a later
  answer to the session request is not taken, and the job ends by its deadline.
- An outcome is published before `busy` is cleared, so a client that submits as
  soon as it reads it can still be told the slot is taken.
- `diagnosticTransportCancel` returns true while a tick is between its look at
  the id (diagnostic_transport.cpp:1274) and the offer of the frame (line 1305):
  the request still leaves with that tick, and only the ones after it do not.
- A capture may end with two events unaccounted for. The tick that ends it takes
  over the drops (session_log.cpp:787), stops a full capture (line 790), looks for
  pending events and then for a producer (line 793). The producer may count a drop
  after the first of these, pass the check of `active` with its next event before
  the second, and publish it between the third and the fourth. With any other stop
  it is one of the two. And the first record may be an event offered to the
  capture before it, whose producer passed the check of `active` early.
  `Accounted` states all of it.
- Without PSRAM the trace queue gets as many slots as fit, up to 512
  (can_trace.cpp:27-34). That number need not divide 2^32, and then the slot of
  an index jumps where the indices wrap, so that a waiting event can be
  overwritten once in 2^32 events.
- A reset in the middle of `clear()` may let an older backup come back.
- In the handshake before sleep only the first phase can be refused; a second
  phase that does not finish ends in `esp_restart` after the handshake's timeout
  (main.cpp:1916) rather than in a deferral.
- `handleObserve` changes the operator's filter without a lock
  (main.cpp:3869-3893). A DBC change on `ss_app` that preempts it may then choose
  the same inactive table; `SearchedTableRests` states what is left, and
  `MandatoryKept` that the application's own keys are not affected.
- `handleSignalCache` walks the cache for the web page without a lock
  (main.cpp:3727-3763), and a DBC change by `ss_app` may free the entries under
  it.
- The sequence-locked read of a signal (signal_cache.cpp:203-210) has no acquire
  fence before its second look, which diagnostic_transport.cpp:253 has.
- The replay engine compares due times without regard to the wrap of micros():
  a due time behind the wrap is due at once, and a frame missed just before the
  wrap waits 71 minutes (replay_engine.cpp:154). A dispatch mode given at start
  stays for later starts (replay_engine.cpp:139-142), and a rejected CSV leaves
  the rows before the bad one loaded and startable.

## The proofs

TLC checks the instances above; the theorems hold for all values of the
constants that satisfy the assumptions named in the modules (capacities and
budgets at least 1, finitely many readers, `NoVersion` no version, and so on).
Two of these are less obvious: the readers of the frame cache must not be called
"none" or "ss_can", nor an identity "none", which are the names for nobody, the
writer and a free slot (`FrameCacheAssumption`); and `MaxSessions` is at least 2,
as two sessions may be in the files before the first recording
(`BoundsAssumption` of `SessionLog`). Every safety property that a passing run
checks is stated by a theorem.

- *Gateway.* `GatewayTypeOK` is inductive as it stands, once it says that the
  budget of the running loop is positive and that both rings are bounded. The
  ordering properties are not proved on the gateway at all: `GatewayProofs`
  shows that each step is a step of `FrameChannel` or invisible
  (`GatewayImplementsChannel`), and `FrameChannelProofs` that the channel keeps
  order (`ChannelCorrect`), from an invariant that adds that no number in
  flight exceeds the number accepted. `GatewayOrder` puts the two together, and
  `GatewayReplayYields` and `GatewayNoStaleBurst` read off its invariant what
  it says of replayed frames and of bus transitions.
  `GatewayConservation` is separate: it counts, and needs the full-ring guard of
  `pollRx` to show that `tx_failures` never moves. `GatewayPreparesOnce` is
  about places: a frame that has not been forwarded waits in exactly one place
  of one raw ring, whatever is in an egress ring has been prepared, and numbers
  above `arrived` have not.
- *Rules.* `RuleInv` joins the properties of the run with what makes them
  inductive: entries of the candidate and of the shadow with the same slot and
  no pending change are the same; handles with the present epoch still name
  their entry, which holds because every step that puts another rule into a
  slot advances the epoch. The theorems are `RulesTypeOK`,
  `HandlesAreFaithful`, `CleanCandidateIsLive`, `CommittedRulesRun`,
  `UnpendingEntriesAreLive` and `RuleHasOneSlot`. `RulesKeepTheirOrder` says
  that the rules run in the order in which they were staged; it needs that no
  two entries carry the same number, and so has the hypothesis that the sequence
  counter has not been used up once. After 65536 allocations the code does break
  this order, and no theorem could say otherwise.
- *Frame rewriting* (also in `MutationEngineProofs`). The place of a bit in the
  order of reading is an involution (`ReadingOrderInvolution`), so the bits of a
  big-endian field are distinct (`PathIsInjective`), writer and reader
  have them in the same order (`MotorolaPath`, `SameBits`), and what is laid
  into a frame is what is read from it (`FieldReadsBack`); a clamped word is
  what its sign extension gives back (`ClampedWordReadsBack`). `RewriteInv` is
  inductive: the types, with the kind of rule each place is for; every field no
  later rule has touched holds what its rule emitted, and that fits the field;
  untouched bits are as received; checksums are right; the slot of a sequence
  is an index; and `owed = runtimeValue`. That a checksum stays right is
  the compile order: a rule after it has at least its rank, and so is a checksum
  (`ChecksumsRunLast`). Theorems: `RewriteTypes`, `FieldsReadTheirValues`,
  `PhysicalValuesAreDecoded`, `UnclaimedBitsPass`, `ChecksumsAreOfTheFrame`,
  `SequencesRemainIndices`, `ClaimsAreAtomic`. They hold for frames of any number
  of bytes and any accepted group of rules. No theorem says that the CRC is
  CRC-8/AUTOSAR: that is the shift register run on the test's vectors.
  A behaviour of `RuleEngine` is one of both sides (`EachSideBehaves`), and so its
  properties follow from theirs (`EngineTypes`, `EngineTablesAgree`,
  `EngineHandles`, `EngineOrder`, `EngineFieldsReadBack`,
  `EngineRestOfTheFrame`, `EngineClaims`).
- *Commit.* `CommitInv` says that `mutation_readers_` is the number of readers
  that passed the increment, that the door is closed while someone waits or
  publishes, that live table and runtime state agree except while slots are
  written, and that the slots below the cursor already hold the new values.
  The step that matters is `DrainedStep`: a counter of 0 means nobody is
  inside, and the second look at the flag keeps it so. From it follow
  `PublicationIsQuiescent`, `ReadersSeeOneCommit`, `EpochIsOfTheTable` and the
  refinement `CommitImplementsPublication`.
- *Transport.* Every function from a job to a job is shown to keep the job well
  formed and the same job, further on (`Step`); well formed means typed, with
  an outcome when it is over, a decided outcome while the disconnect is sent,
  and something to do after an acknowledgement that is staged (`GoodJob`). Then
  every step of the CAN task is a move of the job, an idle tick, the claim of the
  mailbox or the release (`TickMoves`, `ObserveMoves`), and `TransportInv` is
  inductive over these few steps and the client's. It has `SlotOwnership` holder
  by holder (`Owned`), and adds that a tick in progress has a job that is not over,
  that ids count up with the published one and that the result does not run ahead
  of the job. From it
  follow `TransportTypeOK`, `SlotHasOneOwner` and `TransportImplementsSlot`.
  A second invariant, `JobInOrder`, says what a phase means: the staged frame is
  the one of the phase; where a request is still to be sent as many are
  answered as were sent and fewer than were asked for, where an answer is
  awaited exactly one more was sent; only TP2.0 opens a channel, and none is
  open while one is being set up; the answer to the goodbye is awaited only
  after it was sent; and with the outcome decided only the phases of the
  disconnect are left, of which none sends a request. Each function of the
  job is shown to keep it (`Follows`), which gives `RequestsAreNotRepeated` and
  `CleanupIsKept`. `CancelSeen` adds where a tick is: past its look, with the id of
  its job stored, it is late or the goodbye is all it may send. That gives
  `CancelledJobsSendNothing`.
- *Reads.* `ReadProofs` has one argument for the two sequence locks. The
  sequence word is twice the number of finished publications, plus one while one
  is under way; so as long as it has not moved since the first look, every
  word loaded so far is the current one (`ResultCopiesAreWhole`,
  `SignalsReadWhole`). The statistics have another: the counter of a buffer is
  the number of readers that pin it, one of them that has checked the index
  copies from a buffer that was active after the pin, and the publisher writes
  only a buffer it found unpinned and not active (`StatsReadWhole`). For the DBC
  swap the invariant is that swapping and decoding exclude each other: a decode
  past its second look holds a count the swap would have seen
  (`DecodingMatchesDatabase`).
- *Observation* (also in `ReadProofs`). A table chosen for rebuilding with no reader inside is not the
  active one until the rebuild is complete, so nobody who enters later can load
  it; two tasks of one core rebuild at once only if one preempted the other, and
  the application lock leaves the unlocked filter update of `ss_ui` as the only
  one that can be preempted (`ObservationTablesAreStable`).
- *Replay.* The cursor is the number of frames sent, turn by turn, and the
  time the next frame is due is the time of the last one, or of the start, plus
  the delay the log gives (`OnCue`). A frame is therefore sent at least that
  delay after the one before it, unless the clock wraps in between
  (`ReplayKeepsPace`).
  The lemmas on quotients and remainders above it serve the trace queue too.
- *Trace queue.* The two indices are counts, written and read modulo `Span`;
  because the capacity divides `Span`, a slot is the count modulo the capacity
  (`IndexFacts`). `TraceInv` says what became of each sequence number handed
  out: it was taken by the recorder, waits in the ring, was dropped, or is in
  the producer's hand; and the difference of two neighbouring numbers is what
  was dropped between them (`GapsAreDrops`). For the end of a capture it says how
  far the producer can be: once `active` is cleared it has at most one event in
  hand, and with a drop not yet taken over another one only if the tick stopped
  the capture after it had looked. `EveryTraceEventIsAccounted` is that, read when
  a capture has ended.
- *Frame cache.* That an identity has at most one slot, wherever the hashes
  fall, needs to know that an entry can be found: no slot on the way from its
  home to it is free (`OnPath`). An eviction overwrites in place and frees
  nothing, and is made only where the table is full. The recent ring is the
  end of what was stored (`RingInv`), the entries are the last updates of their
  identities (`TableInv`), and the lock keeps a copying reader in one moment
  (`CopyInv`): `FrameCopiesAreWhole`.
- *Parked.* The second phase runs only under a request, and a request is
  lowered only when the first phase failed; so once anything has been stopped no
  failure is reported any more, and `ss_app` sleeps or restarts
  (`ParkedPowerIsSafe`).
- *Composition.* The eight protocols of `CrossCore` share no variable, so
  each step is a step of one and leaves the others alone (`EachActsAlone`): a behaviour of the whole is a behaviour of each part
  (`EachBehaves`), and what was proved of the parts holds together
  (`CrossCoreTypes`, `CrossCoreReadsAreWhole`, `CrossCorePromises`). The types of
  the parts are theorems of their own (`StatsTypes`, `ResultTypes`,
  `DecodeTypes`, `ObservationTypes`, `ParkedTypes`); those that count, as the
  readers in an observation table and the sequence words, rest on the
  exclusion that the other theorems prove.
- *Session log.* `SessionLogProofs` has three invariants. The first, `RecoveryInv`,
  is about what happens while no call of the file system has failed, as
  the two properties that follow from it are; it assumes nothing about resets,
  sessions and lengths. It says what each place in the code knows: where the
  recorder rests, the store holds a log and no checkpoint (`Settled`); while a
  session is recorded or written, the temporary file is as long as the recorder
  believes, what was synced is a prefix of it, and of the two manifests the one
  not being rewritten is the newer and fits that prefix (`Manifests`, `Written`);
  recovery and save go from one such state to another (`BootInv`, `SaveInv`).
  The part that matters is `Safe`: whatever a reset leaves of the temporary
  file, the committed session or a newer one can be recovered from it. While a
  session is recorded it follows from the rest (`RecordSafe`); the steps of
  recovery keep it, since a file cut to its best manifest has the same best
  manifest (`BestOfCut`). From it follow `CommittedIsRecoverable` and
  `LogIsSettled`.
  The second, `TypeInv`, holds whatever fails: what the recorder counts stays
  within the recording it holds, and the generation of a manifest is at most
  the number of chunks, but for the one by which `begin()` marks it
  (`LogTypes`).
  The third, `KeepingInv`, holds whatever fails, too, and is the one behind the
  refinement of `SavedSession` (`StoreIsImplemented`). It speaks of which
  session a file holds, hardly of how much of it. While nothing is held, the
  temporary file and what was synced of it differ in nothing that a reset
  could bring out (`Synchronized`). While a session is held, it is newer than log
  and backup until it is the log itself; the temporary file is its own
  and at least as long as what was synced (`HeldFiles`); and the manifest that is
  rewritten is not the one it is offered by (`SlotsTurn`). From there each
  step is shown to be one of the moves of the store (`SavedMove`). The one
  place that needs the first invariant is the start of a save
  (`NothingToTakeBack`): it removes a temporary file that it does not continue,
  which takes the session back only if a call has failed before.

Only model-checked are the liveness properties `DirectionIndependence`,
`LoopReturns`, `UnlessPreempted` and `SlotAlwaysFreed`: the prover has no
fairness and no ENABLED. The runs that expect a violation have no theorem.

## Not modelled, and the plan

To come, in this order:

1. Runtime tables and the registry of runtime values, which follow the pattern of
   `DecodePath`'s entry.
2. Event captures, triggers and markers within a recording.

Left out for good: the arithmetic of rules on floats, the DBC and CSV grammars, HTTP and JSON formatting, the
browser UI, the desktop tools, the driver libraries, and what an installed
application does in its callbacks.
