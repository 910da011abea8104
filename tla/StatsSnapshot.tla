-------------------------- MODULE StatsSnapshot --------------------------
(***************************************************************************)
(* The gateway's statistics (src/core/gateway.cpp, publishStats and         *)
(* snapshotStats): the CAN task copies them into one of three buffers and   *)
(* never waits; tasks of the other core copy the active buffer out. A       *)
(* sample is a number, copied in two halves so that a mixture would show.   *)
(***************************************************************************)
EXTENDS Integers, FiniteSets

CONSTANTS
    StatsReader,   \* the tasks that call snapshotStats
    MaxSamples     \* bound: publications

ASSUME SamplesAssumption == MaxSamples \in Nat /\ IsFiniteSet(StatsReader)

VARIABLES
    publishedStats,   \* published_stats_
    activeSnapshot,   \* active_stats_snapshot_
    snapshotReaders,  \* stats_snapshot_readers_
    sample,           \* stats_, which the CAN task owns
    publisher,        \* the CAN task in publishStats
    snapshots         \* each reader in snapshotStats

statsVars == <<publishedStats, activeSnapshot, snapshotReaders, sample, publisher, snapshots>>

Buffers == 0..2
Halves == [first: 0..MaxSamples, second: 0..MaxSamples]
Nobody == [at |-> "idle", buffer |-> 0, offset |-> 0]
NotReading == [at |-> "idle", buffer |-> 0, copy |-> [first |-> 0, second |-> 0]]
Candidate == (activeSnapshot + publisher.offset) % 3
-----------------------------------------------------------------------------
PublisherAt(place) == publisher.at = place /\ UNCHANGED <<snapshotReaders, snapshots>>

BeginPublish ==
    /\ PublisherAt("idle")
    /\ sample < MaxSamples
    /\ sample' = sample + 1
    /\ publisher' = [Nobody EXCEPT !.at = "choose", !.offset = 1]
    /\ UNCHANGED <<publishedStats, activeSnapshot>>

\* Mutation: the readers of the buffer are not asked for.
ChooseBuffer_Unpinned ==
    /\ PublisherAt("choose")
    /\ publisher' = [publisher EXCEPT !.at = "first", !.buffer = Candidate]
    /\ UNCHANGED <<publishedStats, activeSnapshot, sample>>

\* A pinned buffer is passed over; with both pinned the last sample stays.
ChooseBuffer ==
    /\ PublisherAt("choose")
    /\ publisher' =
          CASE snapshotReaders[Candidate] = 0 -> [publisher EXCEPT !.at = "first", !.buffer = Candidate]
            [] snapshotReaders[Candidate] # 0 /\ publisher.offset = 1 -> [publisher EXCEPT !.offset = 2]
            [] OTHER -> Nobody
    /\ UNCHANGED <<publishedStats, activeSnapshot, sample>>

CopyIn ==
    /\ UNCHANGED <<activeSnapshot, sample>>
    /\ \/ /\ PublisherAt("first")
          /\ publishedStats' = [publishedStats EXCEPT ![publisher.buffer].first = sample]
          /\ publisher' = [publisher EXCEPT !.at = "second"]
       \/ /\ PublisherAt("second")
          /\ publishedStats' = [publishedStats EXCEPT ![publisher.buffer].second = sample]
          /\ publisher' = [publisher EXCEPT !.at = "activate"]

Activate ==
    /\ PublisherAt("activate")
    /\ activeSnapshot' = publisher.buffer
    /\ publisher' = Nobody
    /\ UNCHANGED <<publishedStats, sample>>
-----------------------------------------------------------------------------
SnapshotAt(r, place) ==
    snapshots[r].at = place /\ UNCHANGED <<publishedStats, activeSnapshot, sample, publisher>>
SnapshotMoves(r, s) == snapshots' = [snapshots EXCEPT ![r] = s]
Pins(b, n) == snapshotReaders' = [snapshotReaders EXCEPT ![b] = @ + n]

LoadIndex(r) ==
    /\ SnapshotAt(r, "idle")
    /\ SnapshotMoves(r, [NotReading EXCEPT !.at = "pin", !.buffer = activeSnapshot])
    /\ UNCHANGED snapshotReaders

PinBuffer(r) ==
    /\ SnapshotAt(r, "pin")
    /\ Pins(snapshots[r].buffer, 1)
    /\ SnapshotMoves(r, [snapshots[r] EXCEPT !.at = "check"])

\* The buffer is still the active one, or it is let go and looked for again.
CheckIndex(r) ==
    /\ SnapshotAt(r, "check")
    /\ LET still == activeSnapshot = snapshots[r].buffer
       IN  /\ SnapshotMoves(r, [snapshots[r] EXCEPT !.at = IF still THEN "first" ELSE "idle"])
           /\ Pins(snapshots[r].buffer, IF still THEN 0 ELSE -1)

CopyOut(r) ==
    /\ UNCHANGED snapshotReaders
    /\ LET from == publishedStats[snapshots[r].buffer]
       IN  \/ /\ SnapshotAt(r, "first")
              /\ SnapshotMoves(r, [snapshots[r] EXCEPT !.at = "second", !.copy.first = from.first])
           \/ /\ SnapshotAt(r, "second")
              /\ SnapshotMoves(r, [snapshots[r] EXCEPT !.at = "unpin", !.copy.second = from.second])

UnpinBuffer(r) ==
    /\ SnapshotAt(r, "unpin")
    /\ Pins(snapshots[r].buffer, -1)
    /\ SnapshotMoves(r, NotReading)
-----------------------------------------------------------------------------
StatsInit ==
    /\ publishedStats = [b \in Buffers |-> [first |-> 0, second |-> 0]]
    /\ activeSnapshot = 0
    /\ snapshotReaders = [b \in Buffers |-> 0]
    /\ sample = 0
    /\ publisher = Nobody
    /\ snapshots = [r \in StatsReader |-> NotReading]

StatsNext ==
    \/ BeginPublish \/ ChooseBuffer \/ CopyIn \/ Activate
    \/ \E r \in StatsReader :
         LoadIndex(r) \/ PinBuffer(r) \/ CheckIndex(r) \/ CopyOut(r) \/ UnpinBuffer(r)

StatsSpec == StatsInit /\ [][StatsNext]_statsVars
-----------------------------------------------------------------------------
Pinned(r) == snapshots[r].at \in {"check", "first", "second", "unpin"}
Copying(r) == snapshots[r].at \in {"first", "second", "unpin"}

StatsTypeOK ==
    /\ publishedStats \in [Buffers -> Halves]
    /\ activeSnapshot \in Buffers
    /\ snapshotReaders \in [Buffers -> Nat]
    /\ sample \in 0..MaxSamples
    /\ publisher \in [at: {"idle", "choose", "first", "second", "activate"},
                      buffer: Buffers, offset: 0..2]
    /\ snapshots \in [StatsReader -> [at: {"idle", "pin", "check", "first", "second", "unpin"},
                                      buffer: Buffers, copy: Halves]]

\* gateway.cpp:267-293: what snapshotStats returns is one published sample, not
\* the halves of two, however often the CAN task has published meanwhile.
StatsAreWhole ==
    \A r \in StatsReader :
        snapshots[r].at = "unpin" => snapshots[r].copy.first = snapshots[r].copy.second
=============================================================================
