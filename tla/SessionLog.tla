---------------------------- MODULE SessionLog ----------------------------
(***************************************************************************)
(* The files of the session recorder (src/fs/session_log.cpp): checkpoints  *)
(* of a durable recording, the save of a stopped one, its promotion by      *)
(* rename, and the recovery that begin() runs after a reset at any point of *)
(* these. One step is one call of the file system; the recorder's own lock  *)
(* keeps its operations apart, so `pc' is the place in the one that runs.   *)
(*                                                                          *)
(* A file is the session it holds, the number of its leading chunks that    *)
(* are there, and how it ends: at a record boundary ("none"), inside a      *)
(* record ("torn"), or with an End record of the three kinds the code tells *)
(* apart. Equal sessions have equal prefixes, so a prefix checksum matches  *)
(* exactly when the session does. What was written and not yet synced may   *)
(* be lost by a reset to any extent; `stable' is the synced temporary file. *)
(***************************************************************************)
EXTENDS Integers, FiniteSets

CONSTANTS
    MaxSessions,  \* bound: recordings started
    MaxLength,    \* bound: chunks of a recording, its header being the first
    MaxCrashes,   \* bound: resets
    MaxFaults     \* bound: file system calls that fail

ASSUME BoundsAssumption ==
    /\ MaxSessions \in Nat \ {0, 1}  \* two are there before the first recording
    /\ MaxCrashes \in Nat /\ MaxFaults \in Nat
    /\ MaxLength \in Nat \ {0}

VARIABLES
    disk,      \* kLogPath, kTemporaryPath, kBackupPath
    stable,    \* what of the temporary file survives a reset for certain
    ck,        \* kCheckpointPath0 and kCheckpointPath1
    ram,       \* the recorder's members
    pc,        \* the next file system call of the running operation
    then,      \* where removeCheckpointArtifacts returns to
    session, crashes, faults,
    committed  \* the last checkpoint that commitCheckpoint reported written

store == <<disk, stable, ck>>
counters == <<session, crashes, faults>>
vars == <<disk, stable, ck, ram, pc, then, session, crashes, faults, committed>>
-----------------------------------------------------------------------------
Paths == {"log", "tmp", "bak"}
Ends == {"full", "recovered", "legacy"}
File == [sid: 0..MaxSessions, len: 0..MaxLength, tail: Ends \cup {"none", "torn"}]
NoFile == [sid |-> 0, len |-> 0, tail |-> "none"]
Manifest == [kind: {"none", "torn", "valid"}, sid: 0..MaxSessions, len: 0..MaxLength,
             gen: 0..MaxLength + 1, reset: BOOLEAN]
NoManifest == [kind |-> "none", sid |-> 0, len |-> 0, gen |-> 0, reset |-> FALSE]
TornManifest == [NoManifest EXCEPT !.kind = "torn"]

FileStates == [full |-> "Complete", recovered |-> "Recovered",
               legacy |-> "CompleteLegacy", none |-> "Checkpoint"]

\* inspectSessionPrefix of a whole file, and of its first n chunks.
Exists(f) == f # NoFile
FileState(f) ==
    IF f.len = 0 \/ f.tail = "torn" THEN "Invalid" ELSE FileStates[f.tail]
Valid(f) == FileState(f) # "Invalid"
PrefixValid(f, n) == n \in 1..f.len

\* A temporary file that ends with an End record can be promoted as it is.
Ended(f) == FileState(f) \in {"Complete", "Recovered", "CompleteLegacy"}

\* readCheckpointManifest: intact, and its prefix is that of the file.
Authentic(m, f) == m.kind = "valid" /\ m.sid = f.sid /\ PrefixValid(f, m.len)
HasManifest(c, f) == \E slot \in 0..1 : Authentic(c[slot], f)

\* Mutation: the first intact manifest is taken, not the newest.
BestSlot_First(c, f) == IF Authentic(c[0], f) THEN 0 ELSE 1

\* The manifest begin() goes by when at least one is authentic.
BestSlot(c, f) ==
    IF /\ Authentic(c[0], f)
       /\ \/ ~Authentic(c[1], f)
          \/ c[0].gen > c[1].gen
          \/ c[0].gen = c[1].gen /\ c[0].len >= c[1].len
    THEN 0 ELSE 1

IdleRam == [state |-> "idle", sid |-> 0, size |-> 0, durable |-> FALSE,
            ckFailed |-> FALSE, off |-> 0, target |-> 0, gen |-> 0, slot |-> 0,
            saveOff |-> 0, open |-> FALSE]

BootSteps == {"primary", "restore", "backup", "choose", "provenance", "provenanceWrite",
              "truncate", "end", "endSync", "preserve", "promote", "promoted",
              "undo", "undoRestore", "inspect"}
ClearSteps == {"clearLog", "clearTmp", "clearBak", "clear0", "clear1", "clearEnd"}
SaveSteps == {"savePreserve", "saveRename", "saveUndo", "savedBackup", "saved"}

\* A call of the file system takes effect or fails. Reads do not fail.
Works == UNCHANGED faults
Fails == faults < MaxFaults /\ faults' = faults + 1

Goto(step) == pc' = step /\ UNCHANGED then
Keeps(p) == UNCHANGED <<ram, session, crashes, committed>> /\ Goto(p)

Removed(p) ==
    /\ disk' = [disk EXCEPT ![p] = NoFile]
    /\ stable' = IF p = "tmp" THEN NoFile ELSE stable
    /\ UNCHANGED ck
Renamed(p, q) ==
    /\ disk' = [disk EXCEPT ![q] = disk[p], ![p] = NoFile]
    /\ stable' = IF p = "tmp" THEN NoFile ELSE stable
    /\ UNCHANGED ck
Synced == stable' = disk["tmp"] /\ UNCHANGED <<disk, ck>>
ManifestIs(slot, m) == ck' = [ck EXCEPT ![slot] = m] /\ UNCHANGED <<disk, stable>>
-----------------------------------------------------------------------------
\* removeCheckpointArtifacts: three removals whose results are ignored.
Cleaning == {"rmTmp", "rm0", "rm1"}
CleanUp(first, next) == pc' = first /\ then' = next

CleanUpStep ==
    /\ pc \in Cleaning
    /\ \/ /\ Works
          /\ \/ pc = "rmTmp" /\ Removed("tmp")
             \/ pc = "rm0" /\ ManifestIs(0, NoManifest)
             \/ pc = "rm1" /\ ManifestIs(1, NoManifest)
       \/ Fails /\ UNCHANGED store
    /\ Keeps(CASE pc = "rmTmp" -> "rm0" [] pc = "rm0" -> "rm1" [] OTHER -> then)
-----------------------------------------------------------------------------
(* begin(), which runs once after every reset *)

\* One call of begin(): it takes effect, or has none when it fails.
BootCall(effect) == (Works /\ effect) \/ (Fails /\ UNCHANGED store)
NoCall == Works /\ UNCHANGED store

BootPrimary ==
    /\ pc = "primary"
    /\ \/ Valid(disk.log) /\ NoCall /\ Keeps("backup")
       \/ ~Valid(disk.log) /\ BootCall(Removed("log")) /\ Keeps("restore")

BootRestore ==
    /\ pc = "restore"
    /\ IF Valid(disk.bak) THEN BootCall(Renamed("bak", "log")) ELSE NoCall
    /\ Keeps("backup")

\* Only a complete primary lets go of a valid backup.
BackupIsSpare(d) == FileState(d.log) = "Complete" \/ ~Valid(d.bak)
BootBackup ==
    /\ pc = "backup"
    /\ IF BackupIsSpare(disk) THEN BootCall(Removed("bak")) ELSE NoCall
    /\ Keeps("choose")

\* What is to become of the temporary file.
BootChoose ==
    /\ pc = "choose"
    /\ NoCall
    /\ UNCHANGED <<ram, session, crashes, committed>>
    /\ IF Ended(disk.tmp) THEN Goto("preserve")
       ELSE IF HasManifest(ck, disk.tmp)
       THEN Goto(IF ck[BestSlot(ck, disk.tmp)].reset THEN "truncate" ELSE "provenance")
       ELSE CleanUp(IF Exists(disk.tmp) THEN "rmTmp" ELSE "rm0", "inspect")

\* The reset reason goes into the manifest slot that is not relied on.
BootProvenance ==
    /\ pc = "provenance"
    /\ \/ /\ Works
          /\ ManifestIs(1 - BestSlot(ck, disk.tmp), TornManifest)
          /\ Keeps("provenanceWrite")
       \/ Fails /\ UNCHANGED store /\ Keeps("inspect")

BootProvenanceWrite ==
    /\ pc = "provenanceWrite"
    /\ \/ /\ Works
          /\ LET best == BestSlot(ck, disk.tmp)
             IN  ManifestIs(1 - best, [ck[best] EXCEPT !.gen = @ + 1, !.reset = TRUE])
          /\ Keeps("truncate")
       \/ Fails /\ UNCHANGED store /\ Keeps("inspect")

\* finalizeRecoveredCheckpoint: the file is cut to the committed prefix in one
\* transaction of the file system, then gets its End record, then is synced.
BootTruncate ==
    /\ pc = "truncate"
    /\ \/ /\ Works
          /\ disk' = [disk EXCEPT !.tmp.len = ck[BestSlot(ck, disk.tmp)].len, !.tmp.tail = "none"]
          /\ stable' = disk'.tmp
          /\ UNCHANGED ck
          /\ Keeps("end")
       \/ Fails /\ UNCHANGED store /\ Keeps("inspect")

BootEnd ==
    /\ pc = "end"
    /\ UNCHANGED <<stable, ck>>
    /\ \/ Works /\ disk' = [disk EXCEPT !.tmp.tail = "recovered"] /\ Keeps("endSync")
       \/ Fails /\ disk' = [disk EXCEPT !.tmp.tail = "torn"] /\ Keeps("inspect")

BootEndSync ==
    /\ pc = "endSync"
    /\ \/ Works /\ Synced /\ Keeps("preserve")
       \/ /\ Fails /\ Keeps("inspect")
          /\ disk' = [disk EXCEPT !.tmp.tail = "torn"]
          /\ UNCHANGED <<stable, ck>>

\* A log that exists makes room for the candidate; a backup that is not valid is
\* removed before, which nothing that reads the files can tell.
MakeRoom ==
    IF ~Exists(disk.log) THEN UNCHANGED store
    ELSE IF Valid(disk.bak) THEN Removed("log")
    ELSE Renamed("log", "bak")

BootPreserve ==
    /\ pc = "preserve"
    /\ \/ Works /\ MakeRoom /\ Keeps("promote")
       \/ Exists(disk.log) /\ Fails /\ UNCHANGED store /\ Keeps("undo")

BootPromote ==
    /\ pc = "promote"
    /\ \/ Works /\ Renamed("tmp", "log") /\ Keeps("promoted")
       \/ Fails /\ UNCHANGED store /\ Keeps("undo")

\* Mutation: a promoted recovery leaves the checkpoint's manifests where they are.
BootPromoted_LeavesManifests ==
    /\ pc = "promoted"
    /\ IF FileState(disk.log) = "Complete" THEN BootCall(Removed("bak")) ELSE NoCall
    /\ Keeps("inspect")

BootPromoted ==
    /\ pc = "promoted"
    /\ IF FileState(disk.log) = "Complete" THEN BootCall(Removed("bak")) ELSE NoCall
    /\ UNCHANGED <<ram, session, crashes, committed>>
    /\ CleanUp("rmTmp", "inspect")

\* The candidate could not be promoted.
BootUndo ==
    /\ pc = "undo"
    /\ BootCall(Removed("log"))
    /\ Keeps("undoRestore")

BootUndoRestore ==
    /\ pc = "undoRestore"
    /\ IF Exists(disk.bak) THEN BootCall(Renamed("bak", "log")) ELSE NoCall
    /\ Keeps("inspect")

BootInspect ==
    /\ pc = "inspect"
    /\ NoCall
    /\ Keeps("run")

Boot == \/ BootPrimary \/ BootRestore \/ BootBackup \/ BootChoose
        \/ BootProvenance \/ BootProvenanceWrite
        \/ BootTruncate \/ BootEnd \/ BootEndSync
        \/ BootPreserve \/ BootPromote \/ BootPromoted
        \/ BootUndo \/ BootUndoRestore \/ BootInspect
-----------------------------------------------------------------------------
(* A recording *)

Running(state) == pc = "run" /\ ram.state = state
Quiet == UNCHANGED <<store, faults>>
RamOnly == UNCHANGED <<pc, then, session, crashes, committed>>

\* start(): an unfinished recovery is never written over.
Start ==
    /\ Running("idle")
    /\ ~Exists(disk.tmp)
    /\ session < MaxSessions
    /\ Quiet
    /\ UNCHANGED <<ram, session, crashes, committed>>
    /\ CleanUp("rm0", "start")

\* The rest of start(): memory may be short.
Started ==
    /\ pc = "start"
    /\ Quiet
    /\ UNCHANGED <<crashes, committed>>
    /\ Goto("run")
    /\ \/ UNCHANGED <<ram, session>>
       \/ \E durable \in BOOLEAN :
            /\ session' = session + 1
            /\ ram' = [IdleRam EXCEPT !.state = "recording", !.sid = session + 1,
                                      !.size = 1, !.durable = durable]

\* Another chunk of frames and annotations, as far as the memory goes.
Append ==
    /\ Running("recording") \/ Running("stopping")
    /\ ram.size < MaxLength
    /\ Quiet /\ RamOnly
    /\ ram' = [ram EXCEPT !.size = @ + 1]

\* Mutation: a tick with nothing new to write checkpoints all the same.
CheckpointDue_NothingNew ==
    /\ Running("recording")
    /\ ram.durable /\ ~ram.ckFailed

\* processCheckpoint: one chunk a tick, up to the size the checkpoint began with.
CheckpointDue ==
    /\ Running("recording")
    /\ ram.durable /\ ~ram.ckFailed
    /\ ram.size > ram.off

CheckpointChunk ==
    /\ CheckpointDue
    /\ UNCHANGED <<stable, ck, session, crashes, committed>>
    /\ LET target == IF ram.target = 0 THEN ram.size ELSE ram.target
       IN  \/ /\ Works
              /\ disk' = [disk EXCEPT !.tmp = [sid |-> ram.sid, len |-> ram.off + 1, tail |-> "none"]]
              /\ ram' = [ram EXCEPT !.target = target, !.off = @ + 1]
              /\ Goto(IF ram.off + 1 = target THEN "close" ELSE "run")
           \/ /\ Fails
              /\ disk' \in {disk, [disk EXCEPT !.tmp.sid = ram.sid, !.tmp.tail = "torn"]}
              /\ ram' = [ram EXCEPT !.ckFailed = TRUE]
              /\ UNCHANGED <<pc, then>>

CheckpointClose == pc = "close" /\ Works /\ Synced /\ Keeps("commit")

\* commitCheckpoint: the slot is rewritten in place, the other one stays. Only a
\* manifest that was read back turns the slots round.
CheckpointFailed ==
    /\ Fails
    /\ UNCHANGED <<store, session, crashes, committed>>
    /\ ram' = [ram EXCEPT !.ckFailed = TRUE, !.gen = @ + 1]
    /\ Goto("run")

CheckpointCommit ==
    /\ pc = "commit"
    /\ \/ Works /\ ManifestIs(ram.slot, TornManifest) /\ Keeps("commitEnd")
       \/ CheckpointFailed

\* Mutation: the slots are not turned round after a commit.
CheckpointCommitted_SameSlot ==
    /\ pc = "commitEnd"
    /\ \/ /\ Works
          /\ ManifestIs(ram.slot, [kind |-> "valid", sid |-> ram.sid, len |-> ram.off,
                                   gen |-> ram.gen + 1, reset |-> FALSE])
          /\ ram' = [ram EXCEPT !.gen = @ + 1, !.target = 0]
          /\ committed' = [sid |-> ram.sid, len |-> ram.off]
          /\ UNCHANGED <<session, crashes>>
          /\ Goto("run")
       \/ CheckpointFailed

CheckpointCommitted ==
    /\ pc = "commitEnd"
    /\ \/ /\ Works
          /\ ManifestIs(ram.slot, [kind |-> "valid", sid |-> ram.sid, len |-> ram.off,
                                   gen |-> ram.gen + 1, reset |-> FALSE])
          /\ ram' = [ram EXCEPT !.gen = @ + 1, !.slot = 1 - @, !.target = 0]
          /\ committed' = [sid |-> ram.sid, len |-> ram.off]
          /\ UNCHANGED <<session, crashes>>
          /\ Goto("run")
       \/ CheckpointFailed

\* beginStopping closes the checkpoint file, if it is open.
Stop ==
    /\ Running("recording")
    /\ Works /\ RamOnly
    /\ ram' = [ram EXCEPT !.state = "stopping"]
    /\ IF ram.ckFailed THEN UNCHANGED store ELSE Synced

\* finalizeMemory, once the trace queue is empty and its producer idle.
Finalize ==
    /\ Running("stopping")
    /\ Quiet /\ RamOnly
    /\ ram' = [ram EXCEPT !.state = "saving"]
-----------------------------------------------------------------------------
(* processSaveChunk: the file, its validation and its promotion *)

FailSave ==
    /\ ram' = [ram EXCEPT !.state = "failed", !.open = FALSE]
    /\ UNCHANGED <<session, crashes, committed>>
    /\ Goto("run")

\* A checkpoint whose file is as long as was written is continued.
Resumable == ram.durable /\ ~ram.ckFailed /\ ram.off > 0 /\ disk.tmp.len = ram.off

SaveFrom(offset) == RamOnly /\ ram' = [ram EXCEPT !.open = TRUE, !.saveOff = offset]
SaveOpen ==
    /\ Running("saving") /\ ~ram.open
    /\ \/ Resumable /\ Works /\ UNCHANGED store /\ SaveFrom(ram.off)
       \/ (IF Resumable THEN Fails ELSE Works) /\ Removed("tmp") /\ SaveFrom(0)
       \/ ~Resumable /\ Fails /\ Removed("tmp") /\ FailSave

\* One chunk a tick; the last one holds the End record.
SaveChunk ==
    /\ Running("saving") /\ ram.open /\ ram.saveOff <= ram.size
    /\ UNCHANGED <<stable, ck>>
    /\ \/ /\ Works /\ RamOnly
          /\ disk' = [disk EXCEPT !.tmp =
                IF ram.saveOff = ram.size
                THEN [sid |-> ram.sid, len |-> ram.size, tail |-> "full"]
                ELSE [sid |-> ram.sid, len |-> ram.saveOff + 1, tail |-> "none"]]
          /\ ram' = [ram EXCEPT !.saveOff = @ + 1]
       \/ /\ Fails /\ FailSave
          /\ disk' \in {disk, [disk EXCEPT !.tmp.sid = ram.sid, !.tmp.tail = "torn"]}

\* Closed and read back before anything that was kept is touched.
SaveClose ==
    /\ Running("saving") /\ ram.open /\ ram.saveOff > ram.size
    /\ \/ /\ Works /\ Synced
          /\ ram' = [ram EXCEPT !.open = FALSE]
          /\ UNCHANGED <<session, crashes, committed>>
          /\ Goto("savePreserve")
       \/ /\ Fails /\ FailSave
          /\ disk' = [disk EXCEPT !.tmp.tail = "torn"]
          /\ UNCHANGED <<stable, ck>>

SavePreserve ==
    /\ pc = "savePreserve"
    /\ \/ Works /\ MakeRoom /\ Keeps("saveRename")
       \/ Exists(disk.log) /\ Fails /\ UNCHANGED store /\ FailSave

SaveRename ==
    /\ pc = "saveRename"
    /\ \/ Works /\ Renamed("tmp", "log") /\ Keeps("savedBackup")
       \/ Fails /\ UNCHANGED store /\ Keeps("saveUndo")

\* The previous log comes back; the new session stays in the temporary file.
SaveUndo ==
    /\ pc = "saveUndo"
    /\ \/ Works /\ (IF Exists(disk.bak) THEN Renamed("bak", "log") ELSE UNCHANGED store)
       \/ Fails /\ UNCHANGED store
    /\ FailSave

SavedBackup ==
    /\ pc = "savedBackup"
    /\ (Works /\ Removed("bak")) \/ (Fails /\ UNCHANGED store)
    /\ UNCHANGED <<ram, session, crashes, committed>>
    /\ CleanUp("rm0", "saved")

Saved ==
    /\ pc = "saved"
    /\ Quiet
    /\ ram' = IdleRam
    /\ UNCHANGED <<session, crashes, committed>>
    /\ Goto("run")

\* retrySave: the session in memory is written again from its first byte.
Retry ==
    /\ Running("failed")
    /\ Quiet
    /\ UNCHANGED <<ram, session, crashes, committed>>
    /\ CleanUp("rmTmp", "retry")

Retried ==
    /\ pc = "retry"
    /\ Quiet
    /\ ram' = [ram EXCEPT !.state = "saving", !.saveOff = 0, !.off = 0, !.target = 0,
                          !.gen = 0, !.slot = 0]
    /\ UNCHANGED <<session, crashes, committed>>
    /\ Goto("run")
-----------------------------------------------------------------------------
(* clear(): every file, then the copy in memory if all of them went *)

NothingCommitted == [sid |-> 0, len |-> 0]

Clear ==
    /\ Running("idle") \/ Running("failed")
    /\ Quiet
    /\ committed' = NothingCommitted
    /\ pc' = "clearLog" /\ then' = "cleared"
    /\ UNCHANGED <<ram, session, crashes>>

ClearNext == [clearLog |-> "clearTmp", clearTmp |-> "clearBak", clearBak |-> "clear0",
              clear0 |-> "clear1", clear1 |-> "clearEnd"]

ClearStep ==
    /\ pc \in DOMAIN ClearNext
    /\ pc' = ClearNext[pc]
    /\ UNCHANGED <<ram, session, crashes, committed>>
    /\ \/ /\ Works
          /\ UNCHANGED then
          /\ \/ pc = "clearLog" /\ Removed("log")
             \/ pc = "clearTmp" /\ Removed("tmp")
             \/ pc = "clearBak" /\ Removed("bak")
             \/ pc = "clear0" /\ ManifestIs(0, NoManifest)
             \/ pc = "clear1" /\ ManifestIs(1, NoManifest)
       \/ Fails /\ UNCHANGED store /\ then' = "refused"

ClearEnd ==
    /\ pc = "clearEnd"
    /\ Quiet
    /\ ram' = IF then = "cleared" THEN IdleRam ELSE ram
    /\ UNCHANGED <<session, crashes, committed>>
    /\ pc' = "run" /\ then' = "inspect"
-----------------------------------------------------------------------------
(* Resets *)

\* What a reset may leave of a file that was b and had been synced as a.
Between(a, b) ==
    IF a = b THEN {a}
    ELSE {a, b} \cup [sid: {b.sid}, len: (IF a.sid = b.sid THEN a.len ELSE 0)..b.len,
                      tail: {"none", "torn"}]

Reset ==
    /\ crashes < MaxCrashes
    /\ crashes' = crashes + 1
    /\ \E tmp \in Between(stable, disk.tmp) :
         /\ disk' = [disk EXCEPT !.tmp = tmp]
         /\ stable' = tmp
    /\ ram' = IdleRam
    /\ pc' = "primary" /\ then' = "inspect"
    /\ UNCHANGED <<ck, session, faults, committed>>

\* The first reset of the model finds what earlier firmware and earlier saves
\* have left: a log and a backup, each whole, of an older format, or damaged.
OldFile(sid) == {NoFile} \cup [sid: {sid}, len: {1}, tail: Ends \cup {"torn"}]

Init ==
    /\ \E log \in OldFile(2), bak \in OldFile(1) :
         disk = [log |-> log, tmp |-> NoFile, bak |-> bak]
    /\ stable = NoFile
    /\ ck = [slot \in 0..1 |-> NoManifest]
    /\ ram = IdleRam
    /\ pc = "primary" /\ then = "inspect"
    /\ session = 2 /\ crashes = 0 /\ faults = 0
    /\ committed = NothingCommitted

Recording == Start \/ Started \/ Append \/ Stop \/ Finalize
Checkpoint == CheckpointChunk \/ CheckpointClose \/ CheckpointCommit \/ CheckpointCommitted
Save == \/ SaveOpen \/ SaveChunk \/ SaveClose \/ SavePreserve \/ SaveRename
        \/ SaveUndo \/ SavedBackup \/ Saved \/ Retry \/ Retried
Deletion == Clear \/ ClearStep \/ ClearEnd

Next == Boot \/ CleanUpStep \/ Recording \/ Checkpoint \/ Save \/ Deletion \/ Reset

Spec == Init /\ [][Next]_vars
-----------------------------------------------------------------------------
(* What the files promise *)

TypeOK ==
    /\ disk \in [Paths -> File] /\ stable \in File
    /\ ck \in [0..1 -> Manifest]
    /\ ram \in [state: {"idle", "recording", "stopping", "saving", "failed"},
                sid: 0..MaxSessions, size: 0..MaxLength, durable: BOOLEAN,
                ckFailed: BOOLEAN, off: 0..MaxLength, target: 0..MaxLength,
                gen: 0..MaxLength, slot: 0..1, saveOff: 0..MaxLength + 1, open: BOOLEAN]
    /\ pc \in BootSteps \cup ClearSteps \cup SaveSteps \cup Cleaning
              \cup {"run", "start", "retry", "close", "commit", "commitEnd"}
    /\ then \in {"inspect", "start", "saved", "retry", "cleared", "refused"}
    /\ session \in 0..MaxSessions /\ crashes \in 0..MaxCrashes /\ faults \in 0..MaxFaults
    /\ committed \in [sid: 0..MaxSessions, len: 0..MaxLength]

\* What begin() would end up with if the power went now and nothing that was
\* not synced survived: the temporary file, cut to its best manifest, before
\* the log, and the log before its backup.
Offer ==
    IF Ended(stable) THEN [sid |-> stable.sid, len |-> stable.len]
    ELSE IF HasManifest(ck, stable)
    THEN [sid |-> stable.sid, len |-> ck[BestSlot(ck, stable)].len]
    ELSE IF Valid(disk.log) THEN [sid |-> disk.log.sid, len |-> disk.log.len]
    ELSE IF Valid(disk.bak) THEN [sid |-> disk.bak.sid, len |-> disk.bak.len]
    ELSE NothingCommitted

\* The files, renames and resets above keep the promise of SavedSession: at
\* every step, and after a reset at any step, exactly one session is on offer;
\* recording and saving move it forward, recovery does not move it, and only
\* deletion, and a second save after a call that failed, take it back.
Store == INSTANCE SavedSession WITH
    kept <- Offer.sid, held <- ram.sid, clearing <- pc \in ClearSteps, failed <- faults > 0
ImplementsStore == Store!SavedSpec

\* A checkpoint reported as committed is recoverable, in full, from then on,
\* through the checkpoints after it, the save, recovery and any reset, until the
\* session is deleted or a newer one has taken its place. (Where no call of the
\* file system has failed: a failed save is written again from nothing.)
CommittedRecoverable ==
    faults = 0 =>
        \/ Offer.sid > committed.sid
        \/ Offer.sid = committed.sid /\ Offer.len >= committed.len

\* When begin() or a save has run to its end without a failed call, no temporary
\* file or manifest is left to refuse the next recording, and the log that is
\* read from then on is the session that was on offer all along.
SettledLog ==
    faults = 0 /\ Running("idle") =>
        /\ disk.tmp = NoFile
        /\ \A slot \in 0..1 : ck[slot] = NoManifest
        /\ Offer.sid = disk.log.sid /\ Offer.len = disk.log.len
        /\ disk.bak # NoFile => FileState(disk.log) \in {"Recovered", "CompleteLegacy"}

\* session_log.cpp:553-555: begin() preserves a known-good primary until the
\* candidate is in its place; unless a valid backup serves that role, no step of
\* it removes a valid log without leaving it as the backup.
PrimaryPreserved ==
    [][(pc \in BootSteps /\ Valid(disk.log) /\ ~Valid(disk.bak)) =>
          \/ disk.log' = disk.log
          \/ disk.bak' = disk.log]_vars
=============================================================================
