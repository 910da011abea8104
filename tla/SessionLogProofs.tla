---------------------------- MODULE SessionLogProofs ----------------------------
(***************************************************************************)
(* For any number and length of recordings, and any number of resets.       *)
(* As long as no call of the file system fails, what a checkpoint has       *)
(* committed stays recoverable, and the files are settled whenever the      *)
(* recorder rests (RecoveryInv). Whatever call fails, the types hold        *)
(* (TypeInv), and the recorder implements SavedSession (KeepingInv).        *)
(***************************************************************************)
EXTENDS SessionLog, TLAPS

(* The types, without the bounds of the model. *)
AnyFile == [sid: Nat, len: Nat, tail: Ends \cup {"none", "torn"}]
AnyManifest == [kind: {"none", "torn", "valid"}, sid: Nat, len: Nat, gen: Nat, reset: BOOLEAN]
AnyRam == [state: {"idle", "recording", "stopping", "saving", "failed"}, sid: Nat, size: Nat,
           durable: BOOLEAN, ckFailed: BOOLEAN, off: Nat, target: Nat, gen: Nat, slot: 0..1,
           saveOff: Nat, open: BOOLEAN]
StoreTyped == disk \in [Paths -> AnyFile] /\ stable \in AnyFile /\ ck \in [0..1 -> AnyManifest]
Typed ==
    /\ StoreTyped
    /\ ram \in AnyRam
    /\ committed \in [sid: Nat, len: Nat]
    /\ session \in Nat

-----------------------------------------------------------------------------
(* The invariant. *)

\* A session this new makes up for the committed one.
Newer(s, n) == s > committed.sid \/ (s = committed.sid /\ n >= committed.len)
LogIsNewer ==
    IF Valid(disk.log) THEN Newer(disk.log.sid, disk.log.len)
    ELSE IF Valid(disk.bak) THEN Newer(disk.bak.sid, disk.bak.len) ELSE Newer(0, 0)

\* A reset that leaves this of the temporary file loses nothing committed.
Recovers(tmp) ==
    IF Ended(tmp) THEN Newer(tmp.sid, tmp.len)
    ELSE IF HasManifest(ck, tmp) THEN Newer(tmp.sid, ck[BestSlot(ck, tmp)].len)
    ELSE LogIsNewer
Safe == \A tmp \in Between(stable, disk.tmp) : Recovers(tmp)

\* Log and backup were complete when they got their names.
Whole ==
    /\ Valid(disk.log) => Ended(disk.log)
    /\ Valid(disk.bak) => Ended(disk.bak)

\* A backup is kept beside a log that is not complete only.
LogRests ==
    /\ Valid(disk.log) \/ (disk.log = NoFile /\ disk.bak = NoFile)
    /\ disk.bak # NoFile =>
         Valid(disk.bak) /\ FileState(disk.log) \in {"Recovered", "CompleteLegacy"}
RoomMade == disk.log = NoFile /\ (disk.bak # NoFile => Valid(disk.bak))
NoCheckpoint == disk.tmp = NoFile /\ stable = NoFile
NoManifests == ck[0] = NoManifest /\ ck[1] = NoManifest
Settled == LogRests /\ NoCheckpoint /\ NoManifests

Cleans(next) == pc \in Cleaning /\ then = next
AtRest == pc \in {"inspect", "start"} \/ Running("idle") \/ Cleans("start")
Empty == pc \in BootSteps \cup ClearSteps \/ AtRest \/ Cleans("inspect")

\* What begin() knows at each of its steps.
BootInv ==
    /\ Empty => ram = IdleRam
    /\ pc \in BootSteps \ {"endSync"} => stable = disk.tmp
    /\ pc = "restore" => disk.log = NoFile
    /\ pc = "backup" => Valid(disk.log) \/ (disk.log = NoFile /\ ~Valid(disk.bak))
    /\ pc \in {"choose", "provenance", "provenanceWrite", "truncate", "end", "endSync",
               "preserve"} => LogRests
    /\ pc \in {"provenance", "provenanceWrite", "truncate", "end"} =>
         ~Ended(disk.tmp) /\ HasManifest(ck, disk.tmp)
    /\ pc = "end" => disk.tmp.len = ck[BestSlot(ck, disk.tmp)].len
    /\ pc = "endSync" =>
         /\ ~Ended(stable) /\ HasManifest(ck, stable)
         /\ stable.len = ck[BestSlot(ck, stable)].len
         /\ disk.tmp = [sid |-> stable.sid, len |-> stable.len, tail |-> "recovered"]
    /\ pc \in {"preserve", "promote"} => Ended(disk.tmp)
    /\ pc = "promote" => RoomMade
    /\ pc = "promoted" => disk.tmp = NoFile /\ Ended(disk.log) /\ (disk.bak # NoFile => Valid(disk.bak))
    /\ Cleans("inspect") =>
         /\ LogRests /\ stable = disk.tmp /\ LogIsNewer
         /\ pc # "rmTmp" => disk.tmp = NoFile
         /\ pc = "rm1" => ck[0] = NoManifest
    /\ AtRest => Settled

ClearInv ==
    pc \in ClearSteps =>
        /\ then = "cleared" /\ committed = NothingCommitted /\ NoCheckpoint /\ NoManifests
        /\ pc # "clearLog" => disk.log = NoFile
        /\ pc \in {"clear0", "clear1", "clearEnd"} => disk.bak = NoFile

\* While a session is recorded or its file is being written.
Busy ==
    /\ pc \in {"run", "close", "commit", "commitEnd"}
    /\ ram.state \in {"recording", "stopping", "saving"}
Fragment(len, tail) == [sid |-> ram.sid, len |-> len, tail |-> tail]

\* The last manifest committed, and the slot that is rewritten next.
Newest(m) == m.kind = "valid" /\ m.sid = ram.sid /\ m.gen = ram.gen /\ m.len \in 1..stable.len
Older(m) == m.kind # "valid" \/ m.gen < ram.gen
Manifests ==
    \/ /\ Newest(ck[1 - ram.slot]) /\ Older(ck[ram.slot])
       /\ committed = [sid |-> ram.sid, len |-> ck[1 - ram.slot].len]
    \/ /\ ck[0].kind # "valid" /\ ck[1].kind # "valid"
       /\ committed.sid < ram.sid /\ LogIsNewer
Written ==
    disk.tmp =
      IF ram.state = "saving" /\ ram.open /\ ram.saveOff > ram.size THEN Fragment(ram.size, "full")
      ELSE LET length == IF ram.state = "saving" /\ ram.open THEN ram.saveOff ELSE ram.off
           IN  IF length = 0 THEN NoFile ELSE Fragment(length, "none")
RecordInv ==
    Busy =>
        /\ LogRests /\ ram.sid \in 1..session /\ ram.size > 0 /\ ram.off <= ram.size
        /\ ~ram.durable => ram.off = 0
        /\ ram.target = 0 \/ ram.target \in ram.off .. ram.size
        /\ pc # "run" => ram.state = "recording" /\ ram.off > 0
        /\ pc = "run" /\ ram.target # 0 => ram.off < ram.target
        /\ ram.state # "saving" => ~ram.open
        /\ ram.state = "saving" /\ ram.open => ram.saveOff \in ram.off .. ram.size + 1
        /\ Written
        /\ stable = NoFile \/ \E n \in 1 .. ram.off : stable = Fragment(n, "none")
        /\ pc \in {"commit", "commitEnd"} => stable = disk.tmp
        /\ Manifests

SaveInv ==
    /\ pc \in {"savePreserve", "saveRename"} => stable = disk.tmp /\ FileState(stable) = "Complete"
    /\ pc = "savePreserve" => LogRests
    /\ pc = "saveRename" => RoomMade
    /\ pc \in {"savedBackup", "saved"} \/ Cleans("saved") =>
         NoCheckpoint /\ FileState(disk.log) = "Complete"
    /\ pc = "saved" \/ Cleans("saved") => disk.bak = NoFile
    /\ Cleans("saved") => pc # "rmTmp"
    /\ Cleans("saved") /\ pc = "rm1" => ck[0] = NoManifest
    /\ pc = "saved" => NoManifests

\* Where an operation is while no call has failed.
Places ==
    /\ pc \in ((BootSteps \ {"undo", "undoRestore"}) \cup ClearSteps \cup (SaveSteps \ {"saveUndo"})
                \cup Cleaning \cup {"run", "start", "close", "commit", "commitEnd"})
    /\ pc \in Cleaning => then \in {"inspect", "start", "saved"}
    /\ pc \in {"close", "commit", "commitEnd"} => ram.state = "recording"
    /\ ram.state # "failed" /\ ~ram.ckFailed
    /\ committed.sid <= session

Good == Typed /\ Places /\ Whole /\ Safe /\ BootInv /\ ClearInv /\ RecordInv /\ SaveInv
RecoveryInv == faults \in Nat /\ (faults = 0 => Good)

-----------------------------------------------------------------------------
(* Files and manifests. *)

LEMMA FileStateCases ==
    ASSUME NEW f \in AnyFile
    PROVE  /\ Valid(f) <=> f.len > 0 /\ f.tail # "torn"
           /\ Ended(f) <=> f.len > 0 /\ f.tail \in Ends
           /\ Ended(f) => Valid(f)
           /\ FileState(f) = "Complete" <=> f.len > 0 /\ f.tail = "full"
           /\ FileState(f) \in {"Recovered", "CompleteLegacy"} <=> f.len > 0 /\ f.tail \in {"recovered", "legacy"}
           /\ f = [sid |-> f.sid, len |-> f.len, tail |-> f.tail]
<1>1. f.len \in Nat /\ f.tail \in {"full", "recovered", "legacy", "none", "torn"}
  BY DEF AnyFile, Ends
<1>2. f = [sid |-> f.sid, len |-> f.len, tail |-> f.tail]
  BY DEF AnyFile
<1>3. CASE f.len = 0 \/ f.tail = "torn"
  BY <1>1, <1>2, <1>3 DEF FileState, Valid, Ended, Ends
<1>4. CASE f.len > 0 /\ f.tail = "full"
  BY <1>2, <1>4 DEF FileState, FileStates, Valid, Ended, Ends
<1>5. CASE f.len > 0 /\ f.tail = "recovered"
  BY <1>2, <1>5 DEF FileState, FileStates, Valid, Ended, Ends
<1>6. CASE f.len > 0 /\ f.tail = "legacy"
  BY <1>2, <1>6 DEF FileState, FileStates, Valid, Ended, Ends
<1>7. CASE f.len > 0 /\ f.tail = "none"
  BY <1>2, <1>7 DEF FileState, FileStates, Valid, Ended, Ends
<1> QED
  BY <1>1, <1>3, <1>4, <1>5, <1>6, <1>7

LEMMA NoFileFacts ==
    /\ NoFile \in AnyFile /\ ~Valid(NoFile) /\ ~Ended(NoFile)
    /\ NoManifest \in AnyManifest /\ TornManifest \in AnyManifest
    /\ NoManifest.kind = "none" /\ TornManifest.kind = "torn"
    /\ NoFile.len = 0
<1>1. NoFile \in AnyFile /\ NoFile.len = 0
  BY DEF NoFile, AnyFile, Ends
<1>2. /\ NoManifest \in AnyManifest /\ TornManifest \in AnyManifest
      /\ NoManifest.kind = "none" /\ TornManifest.kind = "torn"
  BY DEF NoManifest, TornManifest, AnyManifest
<1> QED
  BY <1>1, <1>2, FileStateCases

LEMMA NothingManifested ==
    ASSUME NEW c
    PROVE  ~HasManifest(c, NoFile)
<1>1. \A n : n \notin 1..0
  OBVIOUS
<1>2. NoFile.len = 0
  BY DEF NoFile
<1> QED
  BY <1>1, <1>2 DEF HasManifest, Authentic, PrefixValid

\* Only the session and the length of a file count for its manifests.
LEMMA SameManifests ==
    ASSUME NEW c, NEW f, NEW g, f.sid = g.sid, f.len = g.len
    PROVE  /\ HasManifest(c, f) = HasManifest(c, g)
           /\ BestSlot(c, f) = BestSlot(c, g)
<1>1. \A m : Authentic(m, f) = Authentic(m, g)
  BY DEF Authentic, PrefixValid
<1> QED
  BY <1>1 DEF HasManifest, BestSlot

LEMMA BestIsAuthentic ==
    ASSUME NEW c, NEW f, HasManifest(c, f)
    PROVE  BestSlot(c, f) \in 0..1 /\ Authentic(c[BestSlot(c, f)], f)
<1>1. Authentic(c[0], f) \/ Authentic(c[1], f)
  <2>1. PICK slot \in 0..1 : Authentic(c[slot], f)
    BY DEF HasManifest
  <2>2. slot = 0 \/ slot = 1
    OBVIOUS
  <2> QED
    BY <2>1, <2>2
<1>2. CASE BestSlot(c, f) = 0 /\ Authentic(c[0], f)
  BY <1>2
<1>3. CASE BestSlot(c, f) = 1 /\ Authentic(c[1], f)
  BY <1>3
<1> QED
  BY <1>1, <1>2, <1>3 DEF BestSlot

\* A manifest newer than the other one is the one gone by.
LEMMA NewestIsBest ==
    ASSUME NEW c \in [0..1 -> AnyManifest], NEW f, NEW b \in 0..1, Authentic(c[b], f),
           ~Authentic(c[1 - b], f) \/ c[1 - b].gen < c[b].gen
    PROVE  HasManifest(c, f) /\ BestSlot(c, f) = b
<1>1. HasManifest(c, f)
  BY DEF HasManifest
<1>2. PICK g0 \in Nat, g1 \in Nat : g0 = c[0].gen /\ g1 = c[1].gen
  BY DEF AnyManifest
<1>3. CASE b = 0
  <2>1. ~Authentic(c[1], f) \/ g1 < g0
    BY <1>2, <1>3
  <2> QED
    BY <1>1, <1>2, <1>3, <2>1 DEF BestSlot
<1>4. CASE b = 1
  <2>1. ~Authentic(c[0], f) \/ g0 < g1
    BY <1>2, <1>4
  <2> QED
    BY <1>1, <1>2, <1>4, <2>1 DEF BestSlot
<1> QED
  BY <1>3, <1>4

\* Cut to the best manifest, a file has the same best manifest.
LEMMA BestOfCut ==
    ASSUME NEW c, NEW f \in AnyFile, HasManifest(c, f), NEW g,
           g.sid = f.sid, g.len = c[BestSlot(c, f)].len
    PROVE  HasManifest(c, g) /\ BestSlot(c, g) = BestSlot(c, f)
<1>1. BestSlot(c, f) \in 0..1 /\ Authentic(c[BestSlot(c, f)], f)
  BY BestIsAuthentic
<1>2. PICK n \in Nat : n = f.len
  BY DEF AnyFile
<1>3. PICK l \in 1..n : l = c[BestSlot(c, f)].len
  BY <1>1, <1>2 DEF Authentic, PrefixValid
<1>4. \A m : Authentic(m, g) => Authentic(m, f)
  BY <1>2, <1>3 DEF Authentic, PrefixValid
<1>5. Authentic(c[BestSlot(c, f)], g)
  BY <1>1, <1>3 DEF Authentic, PrefixValid
<1>6. HasManifest(c, g)
  BY <1>1, <1>5 DEF HasManifest
<1>7. CASE BestSlot(c, f) = 0
  BY <1>4, <1>5, <1>6, <1>7 DEF BestSlot
<1>8. CASE BestSlot(c, f) = 1
  BY <1>4, <1>5, <1>6, <1>8 DEF BestSlot
<1> QED
  BY <1>1, <1>7, <1>8

-----------------------------------------------------------------------------
(* The calls of the file system. *)

LEMMA RemovedFacts ==
    ASSUME StoreTyped, NEW p \in Paths, Removed(p)
    PROVE  /\ StoreTyped' /\ ck' = ck
           /\ disk'[p] = NoFile
           /\ \A q \in Paths : q # p => disk'[q] = disk[q]
           /\ stable' = IF p = "tmp" THEN NoFile ELSE stable
BY NoFileFacts DEF StoreTyped, Removed

LEMMA RenamedFacts ==
    ASSUME StoreTyped, NEW p \in Paths, NEW q \in Paths, p # q, Renamed(p, q)
    PROVE  /\ StoreTyped' /\ ck' = ck
           /\ disk'[q] = disk[p] /\ disk'[p] = NoFile
           /\ \A r \in Paths : r # p /\ r # q => disk'[r] = disk[r]
           /\ stable' = IF p = "tmp" THEN NoFile ELSE stable
<1>1. disk' = [disk EXCEPT ![q] = disk[p], ![p] = NoFile]
  BY DEF Renamed
<1>2. disk' \in [Paths -> AnyFile]
  BY <1>1, NoFileFacts DEF StoreTyped
<1> QED
  BY <1>1, <1>2, NoFileFacts DEF StoreTyped, Renamed

LEMMA ManifestFacts ==
    ASSUME StoreTyped, NEW slot \in 0..1, NEW m \in AnyManifest, ManifestIs(slot, m)
    PROVE  /\ StoreTyped' /\ disk' = disk /\ stable' = stable
           /\ ck'[slot] = m /\ ck'[1 - slot] = ck[1 - slot]
<1>1. ck' = [ck EXCEPT ![slot] = m] /\ disk' = disk /\ stable' = stable
  BY DEF ManifestIs
<1>2. 1 - slot \in 0..1 /\ 1 - slot # slot
  OBVIOUS
<1> QED
  BY <1>1, <1>2 DEF StoreTyped

LEMMA WrittenFacts ==
    ASSUME StoreTyped, NEW f \in AnyFile, disk' = [disk EXCEPT !.tmp = f], UNCHANGED ck, stable' \in AnyFile
    PROVE  StoreTyped' /\ disk'.tmp = f /\ disk'.log = disk.log /\ disk'.bak = disk.bak
BY DEF StoreTyped, Paths

LEMMA MakeRoomFacts ==
    ASSUME StoreTyped, LogRests, MakeRoom
    PROVE  /\ StoreTyped' /\ ck' = ck /\ disk'.tmp = disk.tmp /\ stable' = stable
           /\ disk'.log = NoFile /\ (disk'.bak # NoFile => Valid(disk'.bak))
           /\ disk'.bak \in {disk.log, disk.bak}
<1>1. {"log", "tmp", "bak"} = Paths
  BY DEF Paths
<1>2. CASE ~Exists(disk.log)
  BY <1>2, NoFileFacts DEF MakeRoom, Exists, store, LogRests, StoreTyped
<1>3. CASE Exists(disk.log) /\ Valid(disk.bak)
  BY <1>1, <1>3, RemovedFacts DEF MakeRoom
<1>4. CASE Exists(disk.log) /\ ~Valid(disk.bak)
  BY <1>1, <1>4, RenamedFacts DEF MakeRoom, Exists, LogRests
<1> QED
  BY <1>2, <1>3, <1>4

-----------------------------------------------------------------------------
(* What a step that arrives in begin() has to show. *)

NoFault == faults = 0 /\ faults' = 0

LEMMA NoCallFails == NoFault => ~Fails
BY DEF NoFault, Fails

LEMMA SameFilesRecover ==
    ASSUME UNCHANGED <<ck, committed>>, disk'.log = disk.log, disk'.bak = disk.bak
    PROVE  /\ \A f : Recovers(f)' = Recovers(f)
           /\ LogIsNewer' = LogIsNewer
           /\ Whole' = Whole /\ LogRests' = LogRests
<1>1. /\ LogIsNewer' = LogIsNewer
      /\ \A s, n : Newer(s, n)' = Newer(s, n)
  BY DEF LogIsNewer, Newer
<1> QED
  BY <1>1 DEF Recovers, Whole, LogRests

LEMMA SafeWhenSynced ==
    ASSUME stable' = disk'.tmp, Recovers(disk.tmp)'
    PROVE  Safe'
BY DEF Safe, Between

LEMMA SyncedIsSafe ==
    ASSUME stable = disk.tmp, Safe
    PROVE  Recovers(disk.tmp)
BY DEF Safe, Between

\* Without a temporary file the log is what counts.
LEMMA NothingRecovers == Recovers(NoFile) = LogIsNewer
BY NoFileFacts, NothingManifested DEF Recovers

LEMMA BootArrives ==
    ASSUME Typed, Places, StoreTyped', pc' \in BootSteps \ {"undo", "undoRestore"},
           UNCHANGED <<ram, committed, session>>
    PROVE  Typed' /\ Places' /\ ClearInv' /\ RecordInv' /\ SaveInv'
<1>1. /\ pc' \notin Cleaning /\ pc' \notin ClearSteps
      /\ pc' \notin {"run", "close", "commit", "commitEnd"}
      /\ pc' \notin {"savePreserve", "saveRename", "savedBackup", "saved"}
  BY DEF BootSteps, Cleaning, ClearSteps
<1>2. Typed' /\ Places'
  BY <1>1 DEF Typed, Places
<1> QED
  BY <1>1, <1>2 DEF ClearInv, RecordInv, Busy, SaveInv, Cleans

LEMMA CleaningArrives ==
    ASSUME Typed, Places, StoreTyped', pc' \in Cleaning, then' \in {"inspect", "start"},
           UNCHANGED <<ram, committed, session>>
    PROVE  Typed' /\ Places' /\ ClearInv' /\ RecordInv' /\ SaveInv'
<1>1. /\ pc' \notin ClearSteps /\ pc' \notin BootSteps
      /\ pc' \notin {"run", "close", "commit", "commitEnd"}
      /\ pc' \notin {"savePreserve", "saveRename", "savedBackup", "saved"}
  BY DEF BootSteps, Cleaning, ClearSteps
<1>2. Typed' /\ Places'
  BY <1>1 DEF Typed, Places
<1> QED
  BY <1>1, <1>2 DEF ClearInv, RecordInv, Busy, SaveInv, Cleans

-----------------------------------------------------------------------------
(* begin(). *)

LEMMA BootIsIdle ==
    ASSUME Good, pc \in BootSteps
    PROVE  ram = IdleRam /\ (pc # "endSync" => stable = disk.tmp /\ Recovers(disk.tmp))
<1>1. Empty /\ BootInv /\ Safe
  BY DEF Good, Empty
<1> QED
  BY <1>1, SyncedIsSafe DEF BootInv

LEMMA BootPrimaryGood ==
    ASSUME Good, NoFault, BootPrimary
    PROVE  Good'
<1>1. /\ pc = "primary" /\ pc \in BootSteps /\ UNCHANGED <<ram, session, committed, then>>
      /\ \/ Valid(disk.log) /\ UNCHANGED store /\ pc' = "backup"
         \/ ~Valid(disk.log) /\ Removed("log") /\ pc' = "restore"
  BY NoCallFails DEF BootPrimary, BootCall, NoCall, Keeps, Goto, BootSteps
<1>2. ram = IdleRam /\ stable = disk.tmp /\ Recovers(disk.tmp)
  BY <1>1, BootIsIdle
<1>3. /\ StoreTyped' /\ ck' = ck /\ disk'.tmp = disk.tmp /\ stable' = stable /\ disk'.bak = disk.bak
      /\ \/ disk'.log = disk.log /\ Valid(disk.log) /\ pc' = "backup"
         \/ ~Valid(disk.log) /\ disk'.log = NoFile /\ pc' = "restore"
  <2>1. CASE Valid(disk.log) /\ UNCHANGED store /\ pc' = "backup"
    BY <2>1 DEF Good, Typed, StoreTyped, store
  <2>2. CASE ~Valid(disk.log) /\ Removed("log") /\ pc' = "restore"
    BY <2>2, RemovedFacts DEF Good, Typed, Paths
  <2> QED
    BY <1>1, <2>1, <2>2
<1>4. LogIsNewer' = LogIsNewer /\ Whole'
  BY <1>1, <1>3, NoFileFacts DEF LogIsNewer, Newer, Whole, Good
<1>5. Safe'
  <2>1. Recovers(disk.tmp)'
    BY <1>1, <1>2, <1>3, <1>4 DEF Recovers, Newer
  <2> QED
    BY <1>2, <1>3, <2>1, SafeWhenSynced
<1>6. BootInv'
  BY <1>1, <1>2, <1>3 DEF BootInv, Empty, AtRest, Cleans, Running, Cleaning
<1>7. Typed' /\ Places' /\ ClearInv' /\ RecordInv' /\ SaveInv'
  BY <1>1, <1>3, BootArrives DEF Good, BootSteps
<1> QED
  BY <1>4, <1>5, <1>6, <1>7 DEF Good

LEMMA BootRestoreGood ==
    ASSUME Good, NoFault, BootRestore
    PROVE  Good'
<1>1. /\ pc = "restore" /\ pc \in BootSteps /\ UNCHANGED <<ram, session, committed, then>>
      /\ pc' = "backup"
      /\ \/ Valid(disk.bak) /\ Renamed("bak", "log")
         \/ ~Valid(disk.bak) /\ UNCHANGED store
  BY NoCallFails DEF BootRestore, BootCall, NoCall, Keeps, Goto, BootSteps
<1>2. ram = IdleRam /\ stable = disk.tmp /\ Recovers(disk.tmp) /\ disk.log = NoFile
  BY <1>1, BootIsIdle DEF Good, BootInv
<1>3. /\ StoreTyped' /\ ck' = ck /\ disk'.tmp = disk.tmp /\ stable' = stable
      /\ \/ Valid(disk.bak) /\ disk'.log = disk.bak /\ disk'.bak = NoFile
         \/ ~Valid(disk.bak) /\ disk'.log = NoFile /\ disk'.bak = disk.bak
  <2>1. CASE Valid(disk.bak) /\ Renamed("bak", "log")
    BY <2>1, RenamedFacts DEF Good, Typed, Paths
  <2>2. CASE ~Valid(disk.bak) /\ UNCHANGED store
    BY <1>2, <2>2 DEF Good, Typed, StoreTyped, store
  <2> QED
    BY <1>1, <2>1, <2>2
<1>4. LogIsNewer' = LogIsNewer /\ Whole'
  BY <1>1, <1>2, <1>3, NoFileFacts DEF LogIsNewer, Newer, Whole, Good
<1>5. Safe'
  <2>1. Recovers(disk.tmp)'
    BY <1>1, <1>2, <1>3, <1>4 DEF Recovers, Newer
  <2> QED
    BY <1>2, <1>3, <2>1, SafeWhenSynced
<1>6. BootInv'
  BY <1>1, <1>2, <1>3 DEF BootInv, Empty, AtRest, Cleans, Running, Cleaning
<1>7. Typed' /\ Places' /\ ClearInv' /\ RecordInv' /\ SaveInv'
  BY <1>1, <1>3, BootArrives DEF Good, BootSteps
<1> QED
  BY <1>4, <1>5, <1>6, <1>7 DEF Good

LEMMA BootBackupGood ==
    ASSUME Good, NoFault, BootBackup
    PROVE  Good'
<1>1. /\ pc = "backup" /\ pc \in BootSteps /\ UNCHANGED <<ram, session, committed, then>>
      /\ pc' = "choose"
      /\ \/ BackupIsSpare(disk) /\ Removed("bak")
         \/ ~BackupIsSpare(disk) /\ UNCHANGED store
  BY NoCallFails DEF BootBackup, BootCall, NoCall, Keeps, Goto, BootSteps
<1>2. /\ ram = IdleRam /\ stable = disk.tmp /\ Recovers(disk.tmp)
      /\ Valid(disk.log) \/ (disk.log = NoFile /\ ~Valid(disk.bak))
  BY <1>1, BootIsIdle DEF Good, BootInv
<1>3. /\ StoreTyped' /\ ck' = ck /\ disk'.tmp = disk.tmp /\ stable' = stable /\ disk'.log = disk.log
      /\ \/ BackupIsSpare(disk) /\ disk'.bak = NoFile
         \/ ~BackupIsSpare(disk) /\ disk'.bak = disk.bak
  <2>1. CASE BackupIsSpare(disk) /\ Removed("bak")
    BY <2>1, RemovedFacts DEF Good, Typed, Paths
  <2>2. CASE ~BackupIsSpare(disk) /\ UNCHANGED store
    BY <1>2, <2>2 DEF Good, Typed, StoreTyped, store
  <2> QED
    BY <1>1, <2>1, <2>2
<1>4. Whole /\ disk.log \in AnyFile
  BY DEF Good, Typed, StoreTyped, Paths
<1>5. LogIsNewer' = LogIsNewer /\ Whole'
  BY <1>1, <1>2, <1>3, <1>4, NoFileFacts DEF LogIsNewer, Newer, Whole
<1>6. LogRests'
  BY <1>2, <1>3, <1>4, FileStateCases DEF LogRests, BackupIsSpare, Whole, Ended
<1>7. Safe'
  <2>1. Recovers(disk.tmp)'
    BY <1>1, <1>2, <1>3, <1>5 DEF Recovers, Newer
  <2> QED
    BY <1>2, <1>3, <2>1, SafeWhenSynced
<1>8. BootInv'
  BY <1>1, <1>2, <1>3, <1>6 DEF BootInv, Empty, AtRest, Cleans, Running, Cleaning
<1>9. Typed' /\ Places' /\ ClearInv' /\ RecordInv' /\ SaveInv'
  BY <1>1, <1>3, BootArrives DEF Good, BootSteps
<1> QED
  BY <1>5, <1>7, <1>8, <1>9 DEF Good

LEMMA BootChooseGood ==
    ASSUME Good, NoFault, BootChoose
    PROVE  Good'
<1>1. /\ pc = "choose" /\ pc \in BootSteps /\ UNCHANGED <<ram, session, committed>>
      /\ disk' = disk /\ stable' = stable /\ ck' = ck
  BY DEF BootChoose, NoCall, store, BootSteps
<1>2. /\ ram = IdleRam /\ stable = disk.tmp /\ Recovers(disk.tmp) /\ LogRests
      /\ StoreTyped /\ Whole /\ Safe /\ Typed /\ Places
  BY <1>1, BootIsIdle DEF Good, BootInv, Typed
<1>3. StoreTyped'
  BY <1>1, <1>2 DEF StoreTyped
<1>4. /\ \A f : Recovers(f)' = Recovers(f)
      /\ LogIsNewer' = LogIsNewer
      /\ Whole' = Whole /\ LogRests' = LogRests
  BY <1>1, SameFilesRecover
<1>5. Safe'
  BY <1>1, <1>2, <1>4, SafeWhenSynced
<1>6. CASE Ended(disk.tmp) /\ pc' = "preserve"
  <2>1. BootInv'
    BY <1>1, <1>2, <1>4, <1>6 DEF BootInv, Empty, AtRest, Cleans, Running, Cleaning
  <2>2. Typed' /\ Places' /\ ClearInv' /\ RecordInv' /\ SaveInv'
    BY <1>1, <1>2, <1>3, <1>6, BootArrives DEF BootSteps
  <2> QED
    BY <1>2, <1>4, <1>5, <2>1, <2>2 DEF Good
<1>7. CASE ~Ended(disk.tmp) /\ HasManifest(ck, disk.tmp) /\ pc' \in {"truncate", "provenance"}
  <2>1. BootInv'
    BY <1>1, <1>2, <1>4, <1>7 DEF BootInv, Empty, AtRest, Cleans, Running, Cleaning
  <2>2. Typed' /\ Places' /\ ClearInv' /\ RecordInv' /\ SaveInv'
    BY <1>1, <1>2, <1>3, <1>7, BootArrives DEF BootSteps
  <2> QED
    BY <1>2, <1>4, <1>5, <2>1, <2>2 DEF Good
<1>8. CASE /\ ~Ended(disk.tmp) /\ ~HasManifest(ck, disk.tmp) /\ then' = "inspect"
           /\ \/ Exists(disk.tmp) /\ pc' = "rmTmp"
              \/ disk.tmp = NoFile /\ pc' = "rm0"
  <2>1. LogIsNewer
    BY <1>2, <1>8 DEF Recovers
  <2>2. BootInv'
    BY <1>1, <1>2, <1>4, <1>8, <2>1 DEF BootInv, Empty, AtRest, Cleans, Running, Cleaning, BootSteps
  <2>3. Typed' /\ Places' /\ ClearInv' /\ RecordInv' /\ SaveInv'
    BY <1>1, <1>2, <1>3, <1>8, CleaningArrives DEF Cleaning
  <2> QED
    BY <1>2, <1>4, <1>5, <2>2, <2>3 DEF Good
<1> QED
  BY <1>6, <1>7, <1>8 DEF BootChoose, Goto, CleanUp, Exists

LEMMA BootProvenanceGood ==
    ASSUME Good, NoFault, BootProvenance
    PROVE  Good'
<1> DEFINE best == BestSlot(ck, disk.tmp)
<1>1. /\ pc = "provenance" /\ pc \in BootSteps /\ UNCHANGED <<ram, session, committed, then>>
      /\ pc' = "provenanceWrite" /\ ManifestIs(1 - best, TornManifest)
  BY NoCallFails DEF BootProvenance, Keeps, Goto, BootSteps
<1>2. /\ ram = IdleRam /\ stable = disk.tmp /\ Recovers(disk.tmp) /\ LogRests
      /\ ~Ended(disk.tmp) /\ HasManifest(ck, disk.tmp)
      /\ StoreTyped /\ Whole /\ Typed /\ Places
  BY <1>1, BootIsIdle DEF Good, BootInv, Typed
<1>3. best \in 0..1 /\ Authentic(ck[best], disk.tmp)
  BY <1>2, BestIsAuthentic
<1>4. 1 - best \in 0..1 /\ 1 - (1 - best) = best
  BY <1>3
<1> HIDE DEF best
<1>5. /\ StoreTyped' /\ disk' = disk /\ stable' = stable
      /\ ck'[1 - best] = TornManifest /\ ck'[best] = ck[best]
  BY <1>1, <1>2, <1>4, ManifestFacts, NoFileFacts
<1>6. HasManifest(ck', disk'.tmp) /\ BestSlot(ck', disk'.tmp) = best
  <2>1. ~Authentic(ck'[1 - best], disk'.tmp)
    BY <1>5, NoFileFacts DEF Authentic
  <2> QED
    BY <1>3, <1>5, <2>1, NewestIsBest DEF StoreTyped
<1>7. Newer(disk.tmp.sid, ck[best].len)
  BY <1>2 DEF Recovers, best
<1>8. Safe'
  <2>1. Recovers(disk.tmp)'
    BY <1>1, <1>2, <1>5, <1>6, <1>7 DEF Recovers, Newer
  <2> QED
    BY <1>2, <1>5, <2>1, SafeWhenSynced
<1>9. BootInv' /\ Whole'
  BY <1>1, <1>2, <1>5, <1>6 DEF BootInv, Empty, AtRest, Cleans, Running, Cleaning, Whole, LogRests
<1>10. Typed' /\ Places' /\ ClearInv' /\ RecordInv' /\ SaveInv'
  BY <1>1, <1>2, <1>5, BootArrives DEF BootSteps
<1> QED
  BY <1>8, <1>9, <1>10 DEF Good

LEMMA BootProvenanceWriteGood ==
    ASSUME Good, NoFault, BootProvenanceWrite
    PROVE  Good'
<1> DEFINE best == BestSlot(ck, disk.tmp)
           m == [ck[best] EXCEPT !.gen = @ + 1, !.reset = TRUE]
<1>1. /\ pc = "provenanceWrite" /\ pc \in BootSteps /\ UNCHANGED <<ram, session, committed, then>>
      /\ pc' = "truncate" /\ ManifestIs(1 - best, m)
  BY NoCallFails DEF BootProvenanceWrite, Keeps, Goto, BootSteps
<1>2. /\ ram = IdleRam /\ stable = disk.tmp /\ Recovers(disk.tmp) /\ LogRests
      /\ ~Ended(disk.tmp) /\ HasManifest(ck, disk.tmp)
      /\ StoreTyped /\ Whole /\ Typed /\ Places
  BY <1>1, BootIsIdle DEF Good, BootInv, Typed
<1>3. best \in 0..1 /\ Authentic(ck[best], disk.tmp)
  BY <1>2, BestIsAuthentic
<1>4. 1 - best \in 0..1 /\ 1 - (1 - best) = best
  BY <1>3
<1>5. Newer(disk.tmp.sid, ck[best].len)
  BY <1>2 DEF Recovers
<1> HIDE DEF best
<1>6. PICK c \in AnyManifest, g \in Nat : c = ck[best] /\ g = c.gen + 1
  BY <1>2, <1>3 DEF StoreTyped, AnyManifest
<1>7. /\ m \in AnyManifest /\ m.gen = ck[best].gen + 1
      /\ m.kind = ck[best].kind /\ m.sid = ck[best].sid /\ m.len = ck[best].len
  <2>1. m = [c EXCEPT !.gen = g, !.reset = TRUE]
    BY <1>6
  <2>2. m \in AnyManifest
    BY <1>6, <2>1 DEF AnyManifest
  <2>3. m.gen = g /\ m.kind = c.kind /\ m.sid = c.sid /\ m.len = c.len
    BY <1>6, <2>1 DEF AnyManifest
  <2> QED
    BY <1>6, <2>2, <2>3
<1> HIDE DEF m
<1>8. /\ StoreTyped' /\ disk' = disk /\ stable' = stable
      /\ ck'[1 - best] = m /\ ck'[best] = ck[best]
  BY <1>1, <1>2, <1>4, <1>7, ManifestFacts
<1>9. HasManifest(ck', disk'.tmp) /\ BestSlot(ck', disk'.tmp) = 1 - best
  <2>1. Authentic(ck'[1 - best], disk'.tmp)
    BY <1>3, <1>7, <1>8 DEF Authentic
  <2>2. ck'[best].gen < ck'[1 - best].gen
    <3>1. c.gen \in Nat
      BY <1>6 DEF AnyManifest
    <3> QED
      BY <1>6, <1>7, <1>8, <3>1
  <2> QED
    BY <1>4, <1>8, <2>1, <2>2, NewestIsBest DEF StoreTyped
<1>10. Safe'
  <2>1. Recovers(disk.tmp)'
    BY <1>1, <1>2, <1>5, <1>7, <1>8, <1>9 DEF Recovers, Newer
  <2> QED
    BY <1>2, <1>8, <2>1, SafeWhenSynced
<1>11. BootInv' /\ Whole'
  BY <1>1, <1>2, <1>8, <1>9 DEF BootInv, Empty, AtRest, Cleans, Running, Cleaning, Whole, LogRests
<1>12. Typed' /\ Places' /\ ClearInv' /\ RecordInv' /\ SaveInv'
  BY <1>1, <1>2, <1>8, BootArrives DEF BootSteps
<1> QED
  BY <1>10, <1>11, <1>12 DEF Good

LEMMA BootTruncateGood ==
    ASSUME Good, NoFault, BootTruncate
    PROVE  Good'
<1> DEFINE best == BestSlot(ck, disk.tmp)
           f == [sid |-> disk.tmp.sid, len |-> ck[best].len, tail |-> "none"]
<1>1. /\ pc = "truncate" /\ pc \in BootSteps /\ UNCHANGED <<ram, session, committed, then>>
      /\ pc' = "end" /\ ck' = ck /\ stable' = disk'.tmp
      /\ disk' = [disk EXCEPT !.tmp.len = ck[best].len, !.tmp.tail = "none"]
  BY NoCallFails DEF BootTruncate, Keeps, Goto, BootSteps
<1>2. /\ ram = IdleRam /\ Recovers(disk.tmp) /\ LogRests
      /\ ~Ended(disk.tmp) /\ HasManifest(ck, disk.tmp)
      /\ StoreTyped /\ Whole /\ Typed /\ Places
  BY <1>1, BootIsIdle DEF Good, BootInv, Typed
<1>3. best \in 0..1 /\ Authentic(ck[best], disk.tmp)
  BY <1>2, BestIsAuthentic
<1>4. Newer(disk.tmp.sid, ck[best].len)
  BY <1>2 DEF Recovers
<1>5. /\ HasManifest(ck, f) /\ BestSlot(ck, f) = best
  BY <1>2, BestOfCut DEF StoreTyped, Paths
<1> HIDE DEF best
<1>6. PICK d \in AnyFile : d = disk.tmp
  BY <1>2 DEF StoreTyped, Paths
<1>7. f \in AnyFile /\ ~Ended(f) /\ f.len = ck[best].len /\ f.sid = disk.tmp.sid
  <2>1. f \in AnyFile
    BY <1>2, <1>3, <1>6 DEF StoreTyped, AnyManifest, AnyFile
  <2> QED
    BY <2>1, FileStateCases DEF Ends
<1>8. disk'.tmp = f /\ disk'.log = disk.log /\ disk'.bak = disk.bak /\ StoreTyped'
  <2>1. disk'.tmp = [d EXCEPT !.len = ck[best].len, !.tail = "none"]
    BY <1>1, <1>2, <1>6 DEF StoreTyped, Paths
  <2>2. disk'.tmp = f
    BY <1>6, <2>1 DEF AnyFile
  <2>3. disk'.log = disk.log /\ disk'.bak = disk.bak /\ disk' \in [Paths -> AnyFile]
    BY <1>1, <1>2, <1>7, <2>2 DEF StoreTyped, Paths
  <2> QED
    BY <1>1, <1>2, <1>7, <2>2, <2>3 DEF StoreTyped
<1> HIDE DEF f
<1>9. Safe'
  <2>1. Recovers(disk.tmp)'
    BY <1>1, <1>4, <1>5, <1>7, <1>8 DEF Recovers, Newer
  <2> QED
    BY <1>1, <2>1 DEF Safe, Between
<1>10. BootInv' /\ Whole'
  BY <1>1, <1>2, <1>5, <1>7, <1>8 DEF BootInv, Empty, AtRest, Cleans, Running, Cleaning, Whole, LogRests
<1>11. Typed' /\ Places' /\ ClearInv' /\ RecordInv' /\ SaveInv'
  BY <1>1, <1>2, <1>8, BootArrives DEF BootSteps
<1> QED
  BY <1>9, <1>10, <1>11 DEF Good

LEMMA BootEndGood ==
    ASSUME Good, NoFault, BootEnd
    PROVE  Good'
<1> DEFINE best == BestSlot(ck, stable)
           f == [sid |-> stable.sid, len |-> stable.len, tail |-> "recovered"]
<1>1. /\ pc = "end" /\ pc \in BootSteps /\ UNCHANGED <<ram, session, committed, then, ck, stable>>
      /\ pc' = "endSync" /\ disk' = [disk EXCEPT !.tmp.tail = "recovered"]
  BY NoCallFails DEF BootEnd, Keeps, Goto, BootSteps
<1>2. /\ ram = IdleRam /\ Recovers(stable) /\ LogRests /\ stable = disk.tmp
      /\ ~Ended(stable) /\ HasManifest(ck, stable) /\ stable.len = ck[best].len
      /\ StoreTyped /\ Whole /\ Typed /\ Places
  BY <1>1, BootIsIdle DEF Good, BootInv, Typed
<1>3. Newer(stable.sid, ck[best].len)
  BY <1>2 DEF Recovers
<1> HIDE DEF best
<1>4. f \in AnyFile /\ f.sid = stable.sid /\ f.len = stable.len /\ f.tail = "recovered"
  BY <1>2 DEF StoreTyped, AnyFile, Ends
<1>5. disk'.tmp = f /\ disk'.log = disk.log /\ disk'.bak = disk.bak /\ StoreTyped'
  <2>1. disk'.tmp = [stable EXCEPT !.tail = "recovered"]
    BY <1>1, <1>2 DEF StoreTyped, Paths
  <2>2. disk'.tmp = f
    BY <1>2, <2>1 DEF StoreTyped, AnyFile
  <2>3. disk'.log = disk.log /\ disk'.bak = disk.bak /\ disk' \in [Paths -> AnyFile]
    BY <1>1, <1>2, <1>4, <2>2 DEF StoreTyped, Paths
  <2> QED
    BY <1>1, <1>2, <1>4, <2>2, <2>3 DEF StoreTyped
<1>6. BootInv' /\ Whole'
  BY <1>1, <1>2, <1>4, <1>5 DEF BootInv, Empty, AtRest, Cleans, Running, Cleaning, Whole, LogRests, best
<1> HIDE DEF f
<1>7. Safe'
  <2> SUFFICES ASSUME NEW t \in Between(stable, f)
               PROVE  Recovers(t)'
    BY <1>1, <1>5 DEF Safe
  <2>1. t.sid = stable.sid /\ t.len = stable.len
    <3>1. CASE t \in {stable, f}
      BY <1>4, <3>1
    <3>2. PICK n \in Nat : n = stable.len
      BY <1>2 DEF StoreTyped, AnyFile
    <3>3. CASE t \in [sid: {f.sid}, len: (IF stable.sid = f.sid THEN stable.len ELSE 0)..f.len,
                      tail: {"none", "torn"}]
      BY <1>4, <3>2, <3>3
    <3> QED
      BY <3>1, <3>3 DEF Between
  <2>2. BestSlot(ck, t) = best
    BY <2>1, SameManifests DEF best
  <2>3. HasManifest(ck, t)
    BY <1>2, <2>1, SameManifests
  <2>4. Newer(t.sid, t.len) /\ Newer(t.sid, ck[best].len)
    BY <1>2, <1>3, <2>1
  <2> QED
    BY <1>1, <2>2, <2>3, <2>4 DEF Recovers, Newer
<1>8. Typed' /\ Places' /\ ClearInv' /\ RecordInv' /\ SaveInv'
  BY <1>1, <1>2, <1>5, BootArrives DEF BootSteps
<1> QED
  BY <1>6, <1>7, <1>8 DEF Good

LEMMA BootEndSyncGood ==
    ASSUME Good, NoFault, BootEndSync
    PROVE  Good'
<1>1. /\ pc = "endSync" /\ pc \in BootSteps /\ UNCHANGED <<ram, session, committed, then, ck, disk>>
      /\ pc' = "preserve" /\ stable' = disk.tmp
  BY NoCallFails DEF BootEndSync, Synced, Keeps, Goto, BootSteps
<1>2. /\ ram = IdleRam /\ LogRests /\ HasManifest(ck, stable)
      /\ disk.tmp = [sid |-> stable.sid, len |-> stable.len, tail |-> "recovered"]
      /\ StoreTyped /\ Whole /\ Typed /\ Places /\ Safe
  BY <1>1 DEF Good, BootInv, Typed, Empty
<1>3. Ended(disk.tmp)
  <2>1. stable.len > 0
    <3>1. PICK n \in Nat : n = stable.len
      BY <1>2 DEF StoreTyped, AnyFile
    <3>2. PICK slot \in 0..1 : ck[slot].len \in 1..stable.len
      BY <1>2 DEF HasManifest, Authentic, PrefixValid
    <3> QED
      BY <3>1, <3>2
  <2>2. disk.tmp \in AnyFile
    BY <1>2 DEF StoreTyped, Paths
  <2> QED
    BY <1>2, <2>1, <2>2, FileStateCases DEF Ends
<1>4. StoreTyped' /\ disk'.tmp = disk.tmp /\ disk'.log = disk.log /\ disk'.bak = disk.bak
  BY <1>1, <1>2 DEF StoreTyped, Paths
<1>5. Recovers(disk.tmp)
  BY <1>2 DEF Safe, Between
<1>6. Safe'
  BY <1>1, <1>4, <1>5, SameFilesRecover, SafeWhenSynced
<1>7. BootInv' /\ Whole'
  BY <1>1, <1>2, <1>3, <1>4 DEF BootInv, Empty, AtRest, Cleans, Running, Cleaning, Whole, LogRests
<1>8. Typed' /\ Places' /\ ClearInv' /\ RecordInv' /\ SaveInv'
  BY <1>1, <1>2, <1>4, BootArrives DEF BootSteps
<1> QED
  BY <1>6, <1>7, <1>8 DEF Good

LEMMA BootPreserveGood ==
    ASSUME Good, NoFault, BootPreserve
    PROVE  Good'
<1>1. /\ pc = "preserve" /\ pc \in BootSteps /\ UNCHANGED <<ram, session, committed, then>>
      /\ pc' = "promote" /\ MakeRoom
  BY NoCallFails DEF BootPreserve, Keeps, Goto, BootSteps
<1>2. /\ ram = IdleRam /\ LogRests /\ Ended(disk.tmp) /\ stable = disk.tmp /\ Recovers(disk.tmp)
      /\ StoreTyped /\ Whole /\ Typed /\ Places
  BY <1>1, BootIsIdle DEF Good, BootInv, Typed
<1>3. /\ StoreTyped' /\ ck' = ck /\ disk'.tmp = disk.tmp /\ stable' = stable
      /\ disk'.log = NoFile /\ (disk'.bak # NoFile => Valid(disk'.bak))
      /\ disk'.bak \in {disk.log, disk.bak}
  BY <1>1, <1>2, MakeRoomFacts
<1>4. Safe'
  <2>1. Recovers(disk.tmp)'
    BY <1>1, <1>2, <1>3 DEF Recovers, Newer
  <2> QED
    BY <1>2, <1>3, <2>1, SafeWhenSynced
<1>5. BootInv' /\ Whole'
  BY <1>1, <1>2, <1>3, NoFileFacts
  DEF BootInv, Empty, AtRest, Cleans, Running, Cleaning, Whole, RoomMade
<1>6. Typed' /\ Places' /\ ClearInv' /\ RecordInv' /\ SaveInv'
  BY <1>1, <1>2, <1>3, BootArrives DEF BootSteps
<1> QED
  BY <1>4, <1>5, <1>6 DEF Good

LEMMA BootPromoteGood ==
    ASSUME Good, NoFault, BootPromote
    PROVE  Good'
<1>1. /\ pc = "promote" /\ pc \in BootSteps /\ UNCHANGED <<ram, session, committed, then>>
      /\ pc' = "promoted" /\ Renamed("tmp", "log")
  BY NoCallFails DEF BootPromote, Keeps, Goto, BootSteps
<1>2. /\ ram = IdleRam /\ RoomMade /\ Ended(disk.tmp) /\ stable = disk.tmp /\ Recovers(disk.tmp)
      /\ StoreTyped /\ Whole /\ Typed /\ Places
  BY <1>1, BootIsIdle DEF Good, BootInv, Typed
<1>3. /\ StoreTyped' /\ ck' = ck /\ disk'.tmp = NoFile /\ stable' = NoFile
      /\ disk'.log = disk.tmp /\ disk'.bak = disk.bak
  BY <1>1, <1>2, RenamedFacts DEF Paths
<1>4. Valid(disk.tmp)
  BY <1>2, FileStateCases DEF StoreTyped, Paths
<1>5. LogIsNewer'
  BY <1>1, <1>2, <1>3, <1>4 DEF Recovers, LogIsNewer, Newer
<1>6. Safe'
  <2>1. Recovers(NoFile)'
    BY <1>3, <1>5, NothingManifested, NoFileFacts DEF Recovers
  <2> QED
    BY <1>3, <2>1 DEF Safe, Between
<1>7. BootInv' /\ Whole'
  BY <1>1, <1>2, <1>3, NoFileFacts
  DEF BootInv, Empty, AtRest, Cleans, Running, Cleaning, Whole, RoomMade
<1>8. Typed' /\ Places' /\ ClearInv' /\ RecordInv' /\ SaveInv'
  BY <1>1, <1>2, <1>3, BootArrives DEF BootSteps
<1> QED
  BY <1>6, <1>7, <1>8 DEF Good

LEMMA BootPromotedGood ==
    ASSUME Good, NoFault, BootPromoted
    PROVE  Good'
<1> DEFINE Complete == FileState(disk.log) = "Complete"
<1>1. /\ pc = "promoted" /\ pc \in BootSteps /\ UNCHANGED <<ram, session, committed>>
      /\ pc' = "rmTmp" /\ then' = "inspect"
      /\ \/ Complete /\ Removed("bak")
         \/ ~Complete /\ UNCHANGED store
  BY NoCallFails DEF BootPromoted, BootCall, NoCall, CleanUp, BootSteps
<1>2. /\ ram = IdleRam /\ stable = disk.tmp /\ disk.tmp = NoFile /\ Recovers(disk.tmp)
      /\ Ended(disk.log) /\ (disk.bak # NoFile => Valid(disk.bak))
      /\ StoreTyped /\ Whole /\ Typed /\ Places
  BY <1>1, BootIsIdle DEF Good, BootInv, Typed
<1>3. /\ StoreTyped' /\ ck' = ck /\ disk'.tmp = disk.tmp /\ stable' = stable /\ disk'.log = disk.log
      /\ \/ Complete /\ disk'.bak = NoFile
         \/ ~Complete /\ disk'.bak = disk.bak
  <2>1. CASE Complete /\ Removed("bak")
    BY <1>2, <2>1, RemovedFacts DEF Paths
  <2>2. CASE ~Complete /\ UNCHANGED store
    BY <1>2, <2>2 DEF StoreTyped, store
  <2> QED
    BY <1>1, <2>1, <2>2
<1>4. Valid(disk.log) /\ (~Complete => FileState(disk.log) \in {"Recovered", "CompleteLegacy"})
  BY <1>2, FileStateCases DEF StoreTyped, Paths, Ended
<1>5. LogIsNewer' /\ LogRests' /\ Whole'
  <2>1. LogIsNewer
    BY <1>2, NothingRecovers
  <2> QED
    BY <1>1, <1>2, <1>3, <1>4, <2>1, NoFileFacts DEF LogIsNewer, Newer, LogRests, Whole
<1>6. Safe'
  <2>1. Recovers(NoFile)'
    BY <1>5, NothingManifested, NoFileFacts DEF Recovers
  <2> QED
    BY <1>2, <1>3, <2>1 DEF Safe, Between
<1>7. BootInv'
  BY <1>1, <1>2, <1>3, <1>5 DEF BootInv, Empty, AtRest, Cleans, Running, Cleaning, BootSteps
<1>8. Typed' /\ Places' /\ ClearInv' /\ RecordInv' /\ SaveInv'
  BY <1>1, <1>2, <1>3, CleaningArrives DEF Cleaning
<1> QED
  BY <1>5, <1>6, <1>7, <1>8 DEF Good

-----------------------------------------------------------------------------
(* Coming to rest, and the removal of what a checkpoint left. *)

LEMMA AtRestGood ==
    ASSUME Typed', AtRest', Settled', Whole', LogIsNewer', ram' = IdleRam,
           committed'.sid <= session'
    PROVE  Good'
<1>1. IdleRam.state = "idle" /\ ~IdleRam.ckFailed
  BY DEF IdleRam
<1>2. \/ pc' \in {"inspect", "start", "run"}
      \/ pc' \in Cleaning /\ then' = "start"
  BY DEF AtRest, Running, Cleans
<1>3. Places'
  BY <1>1, <1>2 DEF Places, Cleaning, BootSteps
<1>4. stable' = NoFile /\ disk'.tmp = NoFile
  BY DEF Settled, NoCheckpoint
<1>5. Safe'
  <2>1. Recovers(NoFile)'
    BY NothingManifested, NoFileFacts DEF Recovers
  <2> QED
    BY <1>4, <2>1 DEF Safe, Between
<1>6. BootInv'
  BY <1>2, <1>4 DEF BootInv, Cleans, Cleaning, BootSteps
<1>7. ClearInv' /\ RecordInv' /\ SaveInv'
  BY <1>1, <1>2 DEF ClearInv, ClearSteps, RecordInv, Busy, SaveInv, Cleans, Cleaning
<1> QED
  BY <1>3, <1>5, <1>6, <1>7 DEF Good

\* At rest, what is recovered is the log.
LEMMA RestIsTheLog ==
    ASSUME Good, AtRest
    PROVE  Settled /\ LogIsNewer /\ ram = IdleRam
<1>1. Settled /\ ram = IdleRam
  BY DEF Good, BootInv, Empty
<1>2. stable = NoFile /\ disk.tmp = NoFile
  BY <1>1 DEF Settled, NoCheckpoint
<1>3. Recovers(NoFile)
  BY <1>2, SyncedIsSafe DEF Good
<1> QED
  BY <1>1, <1>3, NothingRecovers

LEMMA SameStore ==
    ASSUME StoreTyped, UNCHANGED store
    PROVE  /\ disk' = disk /\ stable' = stable /\ ck' = ck /\ StoreTyped'
BY DEF StoreTyped, store

LEMMA RestStays ==
    ASSUME Good, AtRest, UNCHANGED <<store, ram, session, committed>>, AtRest'
    PROVE  Good'
<1>1. Settled /\ LogIsNewer /\ ram = IdleRam
  BY RestIsTheLog
<1>2. /\ disk' = disk /\ stable' = stable /\ ck' = ck /\ StoreTyped'
  BY SameStore DEF Good, Typed
<1>3. Settled' /\ LogIsNewer' /\ Whole' /\ Typed' /\ committed'.sid <= session'
  BY <1>1, <1>2
  DEF Settled, LogRests, NoCheckpoint, NoManifests, LogIsNewer, Newer, Whole, Typed, Good, Places
<1> QED
  BY <1>1, <1>3, AtRestGood

LEMMA BootInspectGood ==
    ASSUME Good, NoFault, BootInspect
    PROVE  Good'
<1>1. pc = "inspect" /\ pc' = "run" /\ UNCHANGED <<store, ram, session, committed>>
  BY DEF BootInspect, NoCall, Keeps, Goto
<1>2. AtRest /\ ram = IdleRam
  BY <1>1, RestIsTheLog DEF AtRest
<1>3. AtRest'
  BY <1>1, <1>2 DEF AtRest, Running, IdleRam
<1> QED
  BY <1>1, <1>2, <1>3, RestStays

LEMMA BootGood ==
    ASSUME Good, NoFault, Boot
    PROVE  Good'
<1>1. pc # "undo" /\ pc # "undoRestore"
  BY DEF Good, Places, Cleaning, ClearSteps, SaveSteps
<1> QED
  BY <1>1, BootPrimaryGood, BootRestoreGood, BootBackupGood, BootChooseGood, BootProvenanceGood,
     BootProvenanceWriteGood, BootTruncateGood, BootEndGood, BootEndSyncGood, BootPreserveGood,
     BootPromoteGood, BootPromotedGood, BootInspectGood
  DEF Boot, BootUndo, BootUndoRestore

LEMMA StartGood ==
    ASSUME Good, NoFault, Start
    PROVE  Good'
<1>1. AtRest /\ AtRest' /\ UNCHANGED <<store, ram, session, committed>>
  BY DEF Start, AtRest, Cleans, CleanUp, Cleaning, Quiet
<1> QED
  BY <1>1, RestStays

\* One removal of removeCheckpointArtifacts.
LEMMA CleanUpFacts ==
    ASSUME Good, NoFault, CleanUpStep
    PROVE  /\ pc \in Cleaning /\ UNCHANGED <<ram, session, committed, then>>
           /\ StoreTyped' /\ disk'.log = disk.log /\ disk'.bak = disk.bak
           /\ \/ pc = "rmTmp" /\ pc' = "rm0" /\ disk'.tmp = NoFile /\ stable' = NoFile /\ ck' = ck
              \/ /\ pc = "rm0" /\ pc' = "rm1" /\ disk' = disk /\ stable' = stable
                 /\ ck'[0] = NoManifest /\ ck'[1] = ck[1]
              \/ /\ pc = "rm1" /\ pc' = then /\ disk' = disk /\ stable' = stable
                 /\ ck'[1] = NoManifest /\ ck'[0] = ck[0]
<1>1. StoreTyped
  BY DEF Good, Typed
<1>2. pc \in Cleaning /\ UNCHANGED <<ram, session, committed, then>>
  BY DEF CleanUpStep, Keeps, Goto
<1>3. CASE pc = "rmTmp" /\ Removed("tmp") /\ pc' = "rm0"
  BY <1>1, <1>2, <1>3, RemovedFacts DEF Paths
<1>4. CASE pc = "rm0" /\ ManifestIs(0, NoManifest) /\ pc' = "rm1"
  <2>1. 0 \in 0..1 /\ 1 - 0 = 1
    OBVIOUS
  <2> QED
    BY <1>1, <1>2, <1>4, <2>1, ManifestFacts, NoFileFacts
<1>5. CASE pc = "rm1" /\ ManifestIs(1, NoManifest) /\ pc' = then
  <2>1. 1 \in 0..1 /\ 1 - 1 = 0
    OBVIOUS
  <2> QED
    BY <1>1, <1>2, <1>5, <2>1, ManifestFacts, NoFileFacts
<1> QED
  BY <1>3, <1>4, <1>5, NoCallFails DEF CleanUpStep, Keeps, Goto, Cleaning

LEMMA CleanUpGood ==
    ASSUME Good, NoFault, CleanUpStep
    PROVE  Good'
<1>1. /\ pc \in Cleaning /\ UNCHANGED <<ram, session, committed, then>>
      /\ StoreTyped' /\ disk'.log = disk.log /\ disk'.bak = disk.bak
      /\ \/ pc = "rmTmp" /\ pc' = "rm0" /\ disk'.tmp = NoFile /\ stable' = NoFile /\ ck' = ck
         \/ /\ pc = "rm0" /\ pc' = "rm1" /\ disk' = disk /\ stable' = stable
            /\ ck'[0] = NoManifest /\ ck'[1] = ck[1]
         \/ /\ pc = "rm1" /\ pc' = then /\ disk' = disk /\ stable' = stable
            /\ ck'[1] = NoManifest /\ ck'[0] = ck[0]
  BY CleanUpFacts
<1>2. /\ Typed /\ Typed' /\ then \in {"inspect", "start", "saved"} /\ committed'.sid <= session'
      /\ Places /\ Whole /\ Safe
  BY <1>1 DEF Good, Typed, Places
<1>3. LogIsNewer' = LogIsNewer /\ LogRests' = LogRests /\ Whole'
  BY <1>1, <1>2 DEF LogIsNewer, Newer, LogRests, Whole
<1>4. CASE then = "inspect"
  <2>1. /\ LogRests /\ LogIsNewer /\ stable = disk.tmp /\ ram = IdleRam
        /\ pc # "rmTmp" => disk.tmp = NoFile
        /\ pc = "rm1" => ck[0] = NoManifest
    BY <1>1, <1>4 DEF Good, BootInv, Cleans, Empty
  <2>2. CASE pc = "rm1"
    <3>1. AtRest' /\ Settled'
      BY <1>1, <1>3, <1>4, <2>1, <2>2 DEF AtRest, Settled, NoCheckpoint, NoManifests
    <3> QED
      BY <1>1, <1>2, <1>3, <2>1, <3>1, AtRestGood
  <2>3. CASE pc # "rm1"
    <3>1. pc' \in {"rm0", "rm1"} /\ disk'.tmp = NoFile /\ stable' = NoFile /\ (pc' = "rm1" => ck'[0] = NoManifest)
      BY <1>1, <2>1, <2>3
    <3>2. BootInv'
      BY <1>1, <1>3, <1>4, <2>1, <3>1 DEF BootInv, Empty, AtRest, Cleans, Running, Cleaning, BootSteps
    <3>3. Safe'
      <4>1. Recovers(NoFile)'
        BY <1>3, <2>1, NothingManifested, NoFileFacts DEF Recovers
      <4> QED
        BY <3>1, <4>1 DEF Safe, Between
    <3>4. Typed' /\ Places' /\ ClearInv' /\ RecordInv' /\ SaveInv'
      BY <1>1, <1>2, <1>4, <3>1, CleaningArrives DEF Cleaning
    <3> QED
      BY <1>3, <3>2, <3>3, <3>4 DEF Good
  <2> QED
    BY <2>2, <2>3
<1>5. CASE then = "start"
  <2>1. AtRest
    BY <1>1, <1>5 DEF AtRest, Cleans
  <2>2. Settled /\ LogIsNewer /\ ram = IdleRam
    BY <2>1, RestIsTheLog
  <2>3. AtRest'
    BY <1>1, <1>5 DEF AtRest, Cleans, Cleaning
  <2>4. Settled'
    BY <1>1, <1>3, <2>2 DEF Settled, NoCheckpoint, NoManifests
  <2> QED
    BY <1>1, <1>2, <1>3, <2>2, <2>3, <2>4, AtRestGood
<1>6. CASE then = "saved"
  <2>1. /\ NoCheckpoint /\ FileState(disk.log) = "Complete" /\ disk.bak = NoFile
        /\ pc # "rmTmp" /\ (pc = "rm1" => ck[0] = NoManifest)
    BY <1>1, <1>6 DEF Good, SaveInv, Cleans
  <2>2. /\ \/ pc' = "rm1" /\ ck'[0] = NoManifest
           \/ pc' = "saved" /\ ck'[0] = NoManifest /\ ck'[1] = NoManifest
        /\ disk' = disk /\ stable' = stable
    BY <1>1, <1>6, <2>1
  <2>3. SaveInv'
    BY <1>1, <1>6, <2>1, <2>2 DEF SaveInv, Cleans, Cleaning, NoCheckpoint, NoManifests
  <2>4. LogIsNewer
    <3>1. Recovers(NoFile)
      BY <1>2, <2>1, SyncedIsSafe DEF NoCheckpoint
    <3> QED
      BY <3>1, NothingRecovers
  <2>5. Safe'
    <3>1. Recovers(NoFile)'
      BY <1>3, <2>4, NothingManifested, NoFileFacts DEF Recovers
    <3> QED
      BY <2>1, <2>2, <3>1 DEF Safe, Between, NoCheckpoint
  <2>6. Places'
    BY <1>1, <1>2, <1>6, <2>2 DEF Places, Cleaning, SaveSteps
  <2>7. BootInv' /\ ClearInv' /\ RecordInv'
    BY <1>1, <1>6, <2>2
    DEF BootInv, Empty, AtRest, Cleans, Running, Cleaning, BootSteps, ClearInv, ClearSteps, RecordInv, Busy
  <2> QED
    BY <1>2, <1>3, <2>3, <2>5, <2>6, <2>7 DEF Good
<1> QED
  BY <1>2, <1>4, <1>5, <1>6

-----------------------------------------------------------------------------
(* A recording. *)

\* What is on the way to the card may be cut anywhere past what was synced.
LEMMA RecordSafe ==
    ASSUME Typed', Busy', RecordInv'
    PROVE  Safe'
<1>1. PICK sid \in Nat, off \in Nat, size \in Nat, saveOff \in Nat, gen \in Nat, slot \in 0..1 :
        /\ sid = ram'.sid /\ off = ram'.off /\ size = ram'.size /\ saveOff = ram'.saveOff
        /\ gen = ram'.gen /\ slot = ram'.slot
  BY DEF Typed, AnyRam
<1>2. ck' \in [0..1 -> AnyManifest] /\ committed' \in [sid: Nat, len: Nat]
  BY DEF Typed, StoreTyped
<1>3. /\ Manifests' /\ Written' /\ off <= size
      /\ stable' = NoFile \/ \E n \in 1 .. off : stable' = Fragment(n, "none")'
      /\ ram'.state = "saving" /\ ram'.open => saveOff \in off .. size + 1
  BY <1>1 DEF RecordInv
<1>4. \/ disk'.tmp = NoFile
      \/ \E k \in Nat : off <= k /\ disk'.tmp.sid = sid /\ disk'.tmp.len = k
  BY <1>1, <1>3 DEF Written, Fragment
<1>5. SUFFICES ASSUME NEW t \in Between(stable', disk'.tmp)
               PROVE  Recovers(t)'
  BY DEF Safe
<1>6. CASE stable' = NoFile
  <2>1. /\ ck'[0].kind # "valid" /\ ck'[1].kind # "valid"
        /\ committed'.sid < sid /\ LogIsNewer'
    <3>1. ~Newest(ck[1 - ram.slot])'
      BY <1>6, NoFileFacts DEF Newest
    <3> QED
      BY <1>1, <1>3, <3>1 DEF Manifests
  <2>2. ~HasManifest(ck', t)
    BY <2>1 DEF HasManifest, Authentic
  <2>3. t = NoFile \/ t.sid = sid
    BY <1>4, <1>6 DEF Between
  <2>4. Ended(t) => Newer(t.sid, t.len)'
    BY <1>2, <2>1, <2>3, NoFileFacts DEF Newer
  <2> QED
    BY <2>1, <2>2, <2>4 DEF Recovers
<1>7. CASE stable' # NoFile
  <2>1. PICK n \in 1 .. off : stable'.sid = sid /\ stable'.len = n
    BY <1>1, <1>3, <1>7 DEF Fragment
  <2>2. PICK k \in Nat : n <= k /\ disk'.tmp.sid = sid /\ disk'.tmp.len = k
    <3>1. disk'.tmp # NoFile
      BY <1>1, <1>3, <2>1 DEF Written, Fragment, NoFile
    <3> QED
      BY <1>4, <2>1, <3>1
  <2>3. t.sid = sid /\ t.len \in n .. k
    <3>1. CASE t \in {stable', disk'.tmp}
      BY <2>1, <2>2, <3>1
    <3>2. CASE t \in [sid: {disk'.tmp.sid},
                      len: (IF stable'.sid = disk'.tmp.sid THEN stable'.len ELSE 0)..disk'.tmp.len,
                      tail: {"none", "torn"}]
      BY <2>1, <2>2, <3>2
    <3> QED
      BY <3>1, <3>2 DEF Between
  <2>4. CASE Newest(ck[1 - ram.slot])' /\ Older(ck[ram.slot])'
             /\ committed' = [sid |-> sid, len |-> ck'[1 - slot].len]
    <3>1. PICK m \in 1 .. n, b \in 0..1 : b = 1 - slot /\ m = ck'[b].len
      BY <1>1, <2>1, <2>4 DEF Newest
    <3>2. Authentic(ck'[b], t)
      BY <1>1, <2>3, <2>4, <3>1 DEF Newest, Authentic, PrefixValid
    <3>3. ~Authentic(ck'[1 - b], t) \/ ck'[1 - b].gen < ck'[b].gen
      BY <1>1, <2>4, <3>1 DEF Newest, Older, Authentic
    <3>4. HasManifest(ck', t) /\ BestSlot(ck', t) = b
      BY <1>2, <3>2, <3>3, NewestIsBest
    <3>5. Newer(t.sid, t.len)' /\ Newer(t.sid, ck[b].len)'
      <4>1. committed'.sid = sid /\ committed'.len = m
        BY <2>4, <3>1
      <4> QED
        BY <2>3, <3>1, <4>1 DEF Newer
    <3> QED
      BY <3>4, <3>5 DEF Recovers
  <2>5. CASE ck'[0].kind # "valid" /\ ck'[1].kind # "valid" /\ committed'.sid < sid /\ LogIsNewer'
    <3>1. ~HasManifest(ck', t)
      BY <2>5 DEF HasManifest, Authentic
    <3>2. Newer(t.sid, t.len)'
      BY <1>2, <2>3, <2>5 DEF Newer
    <3> QED
      BY <2>5, <3>1, <3>2 DEF Recovers
  <2> QED
    BY <1>1, <1>3, <2>4, <2>5 DEF Manifests
<1> QED
  BY <1>6, <1>7

\* What a step of a recording has to show.
LEMMA BusyGood ==
    ASSUME Typed', Busy', RecordInv', Whole', ~ram'.ckFailed, committed'.sid <= session',
           pc' # "run" => ram'.state = "recording"
    PROVE  Good'
<1>1. /\ pc' \in {"run", "close", "commit", "commitEnd"}
      /\ ram'.state \in {"recording", "stopping", "saving"}
  BY DEF Busy
<1>2. Safe'
  BY RecordSafe
<1>3. Places'
  BY <1>1 DEF Places, Cleaning, BootSteps
<1>4. BootInv' /\ ClearInv' /\ SaveInv'
  BY <1>1
  DEF BootInv, Empty, AtRest, Running, ClearInv, ClearSteps, SaveInv, Cleans, Cleaning, BootSteps
<1> QED
  BY <1>2, <1>3, <1>4 DEF Good

LEMMA StartedGood ==
    ASSUME Good, NoFault, Started
    PROVE  Good'
<1>1. pc = "start" /\ pc' = "run" /\ UNCHANGED <<store, committed>>
  BY DEF Started, Quiet, Goto
<1>2. AtRest /\ Settled /\ LogIsNewer /\ ram = IdleRam
  BY <1>1, RestIsTheLog DEF AtRest
<1>3. CASE UNCHANGED <<ram, session>>
  <2>1. AtRest'
    BY <1>1, <1>2, <1>3 DEF AtRest, Running, IdleRam
  <2> QED
    BY <1>1, <1>2, <1>3, <2>1, RestStays
<1>4. ASSUME NEW durable \in BOOLEAN, session' = session + 1,
             ram' = [IdleRam EXCEPT !.state = "recording", !.sid = session + 1,
                                    !.size = 1, !.durable = durable]
      PROVE  Good'
  <2>1. PICK s \in Nat : s = session /\ s + 1 \in Nat /\ committed.sid <= s /\ committed.sid \in Nat
    BY DEF Good, Typed, Places
  <2>2. /\ ram'.state = "recording" /\ ram'.sid = s + 1 /\ ram'.size = 1 /\ ram'.durable = durable
        /\ ~ram'.ckFailed /\ ram'.off = 0 /\ ram'.target = 0 /\ ram'.gen = 0 /\ ram'.slot = 0
        /\ ram'.saveOff = 0 /\ ~ram'.open /\ ram' \in AnyRam
    <3>1. PICK n \in Nat : n = session + 1
      BY <2>1
    <3>2. ram' = [state |-> "recording", sid |-> n, size |-> 1, durable |-> durable, ckFailed |-> FALSE,
                  off |-> 0, target |-> 0, gen |-> 0, slot |-> 0, saveOff |-> 0, open |-> FALSE]
      BY <1>4, <3>1 DEF IdleRam
    <3>3. ram' \in AnyRam
      BY <3>2 DEF AnyRam
    <3> QED
      BY <2>1, <3>1, <3>2, <3>3
  <2>3. /\ disk' = disk /\ stable' = stable /\ ck' = ck /\ StoreTyped'
    BY <1>1, SameStore DEF Good, Typed
  <2>4. Typed' /\ Whole' /\ committed'.sid <= session'
    BY <1>1, <1>4, <2>1, <2>2, <2>3 DEF Good, Typed, Whole
  <2>5. LogRests' /\ LogIsNewer' /\ disk'.tmp = NoFile /\ stable' = NoFile
    BY <1>1, <1>2, <2>3 DEF Settled, NoCheckpoint, LogRests, LogIsNewer, Newer
  <2>6. Manifests'
    BY <1>1, <1>2, <2>1, <2>2, <2>3, <2>5, NoFileFacts DEF Manifests, Settled, NoManifests
  <2>7. Written'
    BY <2>2, <2>5 DEF Written
  <2>8. Busy' /\ RecordInv'
    BY <1>1, <1>4, <2>1, <2>2, <2>5, <2>6, <2>7 DEF Busy, RecordInv
  <2> QED
    BY <1>1, <2>2, <2>4, <2>8, BusyGood
<1> QED
  BY <1>3, <1>4 DEF Started

\* What is known while a session is recorded or written.
LEMMA BusyFacts ==
    ASSUME Good, Busy
    PROVE  /\ StoreTyped /\ Typed /\ Whole /\ Safe /\ ram \in AnyRam /\ committed.sid <= session
           /\ ~ram.ckFailed /\ LogRests /\ Manifests /\ Written
           /\ ram.sid \in 1..session /\ ram.size > 0 /\ ram.off <= ram.size
           /\ ~ram.durable => ram.off = 0
           /\ ram.target = 0 \/ ram.target \in ram.off .. ram.size
           /\ pc # "run" => ram.state = "recording" /\ ram.off > 0
           /\ pc = "run" /\ ram.target # 0 => ram.off < ram.target
           /\ ram.state # "saving" => ~ram.open
           /\ ram.state = "saving" /\ ram.open => ram.saveOff \in ram.off .. ram.size + 1
           /\ stable = NoFile \/ \E n \in 1 .. ram.off : stable = Fragment(n, "none")
           /\ pc \in {"commit", "commitEnd"} => stable = disk.tmp
BY DEF Good, Typed, Places, RecordInv

\* A manifest stays good while nothing but the temporary file grows.
LEMMA ManifestsStay ==
    ASSUME StoreTyped, stable' \in AnyFile, Manifests, UNCHANGED <<ck, committed>>,
           ram'.sid = ram.sid, ram'.gen = ram.gen, ram'.slot = ram.slot,
           disk'.log = disk.log, disk'.bak = disk.bak, stable'.len >= stable.len
    PROVE  Manifests'
<1>1. PICK a \in Nat, b \in Nat : a = stable.len /\ b = stable'.len /\ a <= b
  BY DEF StoreTyped, AnyFile
<1>2. \A m : Newest(m) => Newest(m)'
  BY <1>1 DEF Newest
<1>3. \A m : Older(m) => Older(m)'
  BY DEF Older
<1>4. LogIsNewer' = LogIsNewer
  BY DEF LogIsNewer, Newer
<1>5. CASE Newest(ck[1 - ram.slot]) /\ Older(ck[ram.slot])
           /\ committed = [sid |-> ram.sid, len |-> ck[1 - ram.slot].len]
  <2>1. Newest(ck[1 - ram.slot])' /\ Older(ck[ram.slot])'
    BY <1>2, <1>3, <1>5
  <2> QED
    BY <1>5, <2>1 DEF Manifests
<1>6. CASE ck[0].kind # "valid" /\ ck[1].kind # "valid" /\ committed.sid < ram.sid /\ LogIsNewer
  BY <1>4, <1>6 DEF Manifests
<1> QED
  BY <1>5, <1>6 DEF Manifests

LEMMA AppendGood ==
    ASSUME Good, NoFault, Append
    PROVE  Good'
<1>1. /\ pc = "run" /\ pc' = "run" /\ ram.state \in {"recording", "stopping"} /\ Busy
      /\ UNCHANGED <<store, session, committed>> /\ ram' = [ram EXCEPT !.size = @ + 1]
  BY DEF Append, Running, Quiet, RamOnly, Busy
<1>2. /\ StoreTyped /\ Typed /\ Whole /\ ram \in AnyRam /\ committed.sid <= session
      /\ ~ram.ckFailed /\ LogRests /\ Manifests /\ Written
      /\ ram.sid \in 1..session /\ ram.size > 0 /\ ram.off <= ram.size
      /\ ~ram.durable => ram.off = 0
      /\ ram.target = 0 \/ ram.target \in ram.off .. ram.size
      /\ ram.target # 0 => ram.off < ram.target
      /\ ~ram.open
      /\ stable = NoFile \/ \E n \in 1 .. ram.off : stable = Fragment(n, "none")
  BY <1>1, BusyFacts
<1>3. PICK size \in Nat : size = ram.size + 1
  BY <1>2 DEF AnyRam
<1>4. /\ ram' \in AnyRam /\ ram'.state = ram.state /\ ram'.sid = ram.sid /\ ram'.size = size
      /\ ram'.durable = ram.durable /\ ram'.ckFailed = ram.ckFailed /\ ram'.off = ram.off
      /\ ram'.target = ram.target /\ ram'.gen = ram.gen /\ ram'.slot = ram.slot /\ ram'.open = ram.open
  <2>1. ram' = [ram EXCEPT !.size = size]
    BY <1>1, <1>3
  <2> QED
    BY <1>2, <2>1 DEF AnyRam
<1>5. disk' = disk /\ stable' = stable /\ ck' = ck /\ StoreTyped' /\ LogRests' /\ Whole'
  BY <1>1, <1>2, SameStore DEF LogRests, Whole
<1>6. Manifests'
  <2>1. stable' \in AnyFile /\ stable'.len >= stable.len
    BY <1>2, <1>5 DEF StoreTyped, AnyFile
  <2> QED
    BY <1>1, <1>2, <1>4, <1>5, <2>1, ManifestsStay
<1>7. Written'
  BY <1>1, <1>2, <1>4, <1>5 DEF Written, Fragment
<1>8. PICK old \in Nat, off \in Nat, target \in Nat :
        old = ram.size /\ off = ram.off /\ target = ram.target
  BY <1>2 DEF AnyRam
<1>9. size > 0 /\ off <= size /\ (target = 0 \/ target \in off .. size) /\ (target # 0 => off < target)
  BY <1>2, <1>3, <1>8
<1>10. RecordInv' /\ Busy'
  BY <1>1, <1>2, <1>4, <1>5, <1>6, <1>7, <1>8, <1>9 DEF RecordInv, Busy, Fragment
<1>11. Typed'
  BY <1>1, <1>2, <1>4, <1>5 DEF Typed
<1> QED
  BY <1>1, <1>2, <1>4, <1>5, <1>10, <1>11, BusyGood

LEMMA StopGood ==
    ASSUME Good, NoFault, Stop
    PROVE  Good'
<1>1. /\ pc = "run" /\ pc' = "run" /\ ram.state = "recording" /\ Busy
      /\ UNCHANGED <<disk, ck, session, committed>> /\ ram' = [ram EXCEPT !.state = "stopping"]
      /\ stable' \in {stable, disk.tmp}
  BY DEF Stop, Running, RamOnly, Busy, Synced, store
<1>2. /\ StoreTyped /\ Typed /\ Whole /\ ram \in AnyRam /\ committed.sid <= session
      /\ ~ram.ckFailed /\ LogRests /\ Manifests /\ Written
      /\ ram.sid \in 1..session /\ ram.size > 0 /\ ram.off <= ram.size
      /\ ~ram.durable => ram.off = 0
      /\ ram.target = 0 \/ ram.target \in ram.off .. ram.size
      /\ ram.target # 0 => ram.off < ram.target
      /\ ~ram.open
      /\ stable = NoFile \/ \E n \in 1 .. ram.off : stable = Fragment(n, "none")
  BY <1>1, BusyFacts
<1>3. /\ ram' \in AnyRam /\ ram'.state = "stopping" /\ ram'.sid = ram.sid /\ ram'.size = ram.size
      /\ ram'.durable = ram.durable /\ ram'.ckFailed = ram.ckFailed /\ ram'.off = ram.off
      /\ ram'.target = ram.target /\ ram'.gen = ram.gen /\ ram'.slot = ram.slot /\ ram'.open = ram.open
  BY <1>1, <1>2 DEF AnyRam
<1>4. LogRests' /\ Whole' /\ StoreTyped' /\ stable' \in AnyFile
  BY <1>1, <1>2 DEF LogRests, Whole, StoreTyped, Paths
<1>5. PICK off \in Nat : off = ram.off
  BY <1>2 DEF AnyRam
<1>6. disk.tmp = IF off = 0 THEN NoFile ELSE Fragment(off, "none")
  BY <1>1, <1>5, <1>2 DEF Written
<1>7. /\ stable' = NoFile \/ \E n \in 1 .. off : stable' = Fragment(n, "none")
      /\ stable'.len >= stable.len
  <2>1. CASE stable = NoFile
    <3>1. disk.tmp.len >= 0 /\ NoFile.len = 0
      BY <1>5, <1>6 DEF NoFile, Fragment
    <3> QED
      BY <1>1, <1>5, <1>6, <2>1, <3>1
  <2>2. ASSUME NEW n \in 1 .. off, stable = Fragment(n, "none")
        PROVE  /\ \E k \in 1 .. off : stable' = Fragment(k, "none")
               /\ stable'.len >= stable.len
    <3>1. disk.tmp = Fragment(off, "none") /\ off \in 1 .. off
      BY <1>5, <1>6, <2>2
    <3> QED
      BY <1>1, <2>2, <3>1 DEF Fragment
  <2> QED
    BY <1>2, <1>5, <2>1, <2>2
<1>8. Manifests'
  BY <1>1, <1>2, <1>3, <1>4, <1>7, ManifestsStay
<1>9. Written'
  BY <1>1, <1>2, <1>3 DEF Written, Fragment
<1>10. RecordInv' /\ Busy'
  BY <1>1, <1>2, <1>3, <1>4, <1>5, <1>7, <1>8, <1>9 DEF RecordInv, Busy, Fragment
<1>11. Typed'
  BY <1>1, <1>2, <1>3, <1>4 DEF Typed
<1> QED
  BY <1>1, <1>2, <1>3, <1>4, <1>10, <1>11, BusyGood

LEMMA FinalizeGood ==
    ASSUME Good, NoFault, Finalize
    PROVE  Good'
<1>1. /\ pc = "run" /\ pc' = "run" /\ ram.state = "stopping" /\ Busy
      /\ UNCHANGED <<store, session, committed>> /\ ram' = [ram EXCEPT !.state = "saving"]
  BY DEF Finalize, Running, Quiet, RamOnly, Busy
<1>2. /\ StoreTyped /\ Typed /\ Whole /\ ram \in AnyRam /\ committed.sid <= session
      /\ ~ram.ckFailed /\ LogRests /\ Manifests /\ Written
      /\ ram.sid \in 1..session /\ ram.size > 0 /\ ram.off <= ram.size
      /\ ~ram.durable => ram.off = 0
      /\ ram.target = 0 \/ ram.target \in ram.off .. ram.size
      /\ ram.target # 0 => ram.off < ram.target
      /\ ~ram.open
      /\ stable = NoFile \/ \E n \in 1 .. ram.off : stable = Fragment(n, "none")
  BY <1>1, BusyFacts
<1>3. /\ ram' \in AnyRam /\ ram'.state = "saving" /\ ram'.sid = ram.sid /\ ram'.size = ram.size
      /\ ram'.durable = ram.durable /\ ram'.ckFailed = ram.ckFailed /\ ram'.off = ram.off
      /\ ram'.target = ram.target /\ ram'.gen = ram.gen /\ ram'.slot = ram.slot /\ ram'.open = ram.open
  BY <1>1, <1>2 DEF AnyRam
<1>4. disk' = disk /\ stable' = stable /\ ck' = ck /\ StoreTyped' /\ LogRests' /\ Whole'
  BY <1>1, <1>2, SameStore DEF LogRests, Whole
<1>5. Manifests'
  <2>1. stable' \in AnyFile /\ stable'.len >= stable.len
    BY <1>2, <1>4 DEF StoreTyped, AnyFile
  <2> QED
    BY <1>1, <1>2, <1>3, <1>4, <2>1, ManifestsStay
<1>6. Written'
  BY <1>1, <1>2, <1>3, <1>4 DEF Written, Fragment
<1>7. RecordInv' /\ Busy'
  BY <1>1, <1>2, <1>3, <1>4, <1>5, <1>6 DEF RecordInv, Busy, Fragment
<1>8. Typed'
  BY <1>1, <1>2, <1>3, <1>4 DEF Typed
<1> QED
  BY <1>1, <1>2, <1>3, <1>4, <1>7, <1>8, BusyGood

\* Another chunk in the temporary file.
LEMMA ChunkWritten ==
    ASSUME StoreTyped, NEW f \in AnyFile, disk' = [disk EXCEPT !.tmp = f], UNCHANGED <<stable, ck>>
    PROVE  /\ StoreTyped' /\ disk'.tmp = f /\ disk'.log = disk.log /\ disk'.bak = disk.bak
           /\ Whole' = Whole /\ LogRests' = LogRests
<1>1. StoreTyped' /\ disk'.tmp = f /\ disk'.log = disk.log /\ disk'.bak = disk.bak
  BY DEF StoreTyped, Paths
<1> QED
  BY <1>1 DEF Whole, LogRests

LEMMA CheckpointChunkGood ==
    ASSUME Good, NoFault, CheckpointChunk
    PROVE  Good'
<1> DEFINE goal == IF ram.target = 0 THEN ram.size ELSE ram.target
           f == [sid |-> ram.sid, len |-> ram.off + 1, tail |-> "none"]
<1>1. /\ pc = "run" /\ ram.state = "recording" /\ Busy /\ ram.durable /\ ram.size > ram.off
      /\ UNCHANGED <<stable, ck, session, committed>>
      /\ disk' = [disk EXCEPT !.tmp = f]
      /\ ram' = [ram EXCEPT !.target = goal, !.off = @ + 1]
      /\ pc' = IF ram.off + 1 = goal THEN "close" ELSE "run"
  BY NoCallFails DEF CheckpointChunk, CheckpointDue, Running, Busy, Goto
<1>2. /\ StoreTyped /\ Typed /\ Whole /\ ram \in AnyRam /\ committed.sid <= session
      /\ ~ram.ckFailed /\ LogRests /\ Manifests /\ Written
      /\ ram.sid \in 1..session /\ ram.size > 0 /\ ram.off <= ram.size
      /\ ram.target = 0 \/ ram.target \in ram.off .. ram.size
      /\ ram.target # 0 => ram.off < ram.target
      /\ ~ram.open
      /\ stable = NoFile \/ \E n \in 1 .. ram.off : stable = Fragment(n, "none")
  BY <1>1, BusyFacts
<1>3. PICK size \in Nat, off \in Nat, next \in Nat, target \in Nat :
        /\ size = ram.size /\ off = ram.off /\ next = off + 1 /\ target = goal
        /\ next <= target /\ target <= size
  BY <1>1, <1>2 DEF AnyRam
<1> HIDE DEF goal
<1>4. /\ ram' \in AnyRam /\ ram'.state = "recording" /\ ram'.sid = ram.sid /\ ram'.size = size
      /\ ram'.durable /\ ~ram'.ckFailed /\ ram'.off = next
      /\ ram'.target = target /\ ram'.gen = ram.gen /\ ram'.slot = ram.slot /\ ~ram'.open
  <2>1. ram' = [ram EXCEPT !.target = target, !.off = next]
    BY <1>1, <1>3
  <2> QED
    BY <1>1, <1>2, <1>3, <2>1, ZenonT(60) DEF AnyRam
<1>5. f \in AnyFile /\ f = [sid |-> ram.sid, len |-> next, tail |-> "none"]
  BY <1>2, <1>3 DEF AnyFile, AnyRam
<1> HIDE DEF f
<1>6. /\ StoreTyped' /\ disk'.tmp = f /\ disk'.log = disk.log /\ disk'.bak = disk.bak
      /\ Whole' /\ LogRests'
  BY <1>1, <1>2, <1>5, ChunkWritten
<1>7. Manifests'
  <2>1. stable' \in AnyFile /\ stable'.len >= stable.len
    BY <1>1, <1>2 DEF StoreTyped, AnyFile
  <2> QED
    BY <1>1, <1>2, <1>4, <1>6, <2>1, ManifestsStay
<1>8. Written'
  <2>1. next # 0
    BY <1>3
  <2> QED
    BY <1>4, <1>5, <1>6, <2>1 DEF Written, Fragment
<1>9. stable' = NoFile \/ \E n \in 1 .. next : stable' = Fragment(n, "none")'
  <2>1. 1 .. off \subseteq 1 .. next
    BY <1>3
  <2> QED
    BY <1>1, <1>2, <1>3, <1>4, <2>1 DEF Fragment
<1>10. /\ size > 0 /\ next <= size /\ next > 0 /\ target \in next .. size
       /\ pc' = "run" => next < target
       /\ pc' \in {"run", "close"}
  BY <1>1, <1>3
<1>11. RecordInv' /\ Busy'
  BY <1>1, <1>2, <1>4, <1>6, <1>7, <1>8, <1>9, <1>10 DEF RecordInv, Busy
<1>12. Typed'
  BY <1>1, <1>2, <1>4, <1>6 DEF Typed
<1> QED
  BY <1>1, <1>2, <1>4, <1>6, <1>11, <1>12, BusyGood

\* What is known between the last chunk of a checkpoint and its manifest.
LEMMA ClosingFacts ==
    ASSUME Good, pc \in {"close", "commit", "commitEnd"}
    PROVE  /\ Busy /\ ram.state = "recording" /\ ram.off > 0 /\ ~ram.open
           /\ disk.tmp = Fragment(ram.off, "none")
           /\ stable = NoFile \/ \E n \in 1 .. ram.off : stable = Fragment(n, "none")
<1>1. ram.state = "recording" /\ Busy
  BY DEF Good, Places, Busy
<1>2. Written /\ ram \in AnyRam /\ ram.off > 0 /\ ~ram.open
      /\ (stable = NoFile \/ \E n \in 1 .. ram.off : stable = Fragment(n, "none"))
  BY <1>1, BusyFacts
<1>3. ram.off # 0
  BY <1>2 DEF AnyRam
<1> QED
  BY <1>1, <1>2, <1>3 DEF Written

LEMMA CheckpointCloseGood ==
    ASSUME Good, NoFault, CheckpointClose
    PROVE  Good'
<1>1. /\ pc = "close" /\ pc' = "commit" /\ stable' = disk.tmp
      /\ UNCHANGED <<disk, ck, ram, session, committed>>
  BY DEF CheckpointClose, Keeps, Goto, Synced
<1>2. /\ Busy /\ ram.state = "recording" /\ ram.off > 0 /\ ~ram.open
      /\ disk.tmp = Fragment(ram.off, "none")
      /\ stable = NoFile \/ \E n \in 1 .. ram.off : stable = Fragment(n, "none")
  BY <1>1, ClosingFacts
<1>3. /\ StoreTyped /\ Typed /\ Whole /\ ram \in AnyRam /\ committed.sid <= session
      /\ ~ram.ckFailed /\ LogRests /\ Manifests /\ Written
      /\ ram.sid \in 1..session /\ ram.size > 0 /\ ram.off <= ram.size
      /\ ~ram.durable => ram.off = 0
      /\ ram.target = 0 \/ ram.target \in ram.off .. ram.size
  BY <1>2, BusyFacts
<1>4. StoreTyped' /\ LogRests' /\ Whole' /\ stable' \in AnyFile
  BY <1>1, <1>3 DEF StoreTyped, LogRests, Whole, Paths
<1>5. PICK off \in Nat : off = ram.off /\ off > 0
  BY <1>2, <1>3 DEF AnyRam
<1>6. stable'.len >= stable.len
  <2>1. stable'.len = off
    BY <1>1, <1>2, <1>5 DEF Fragment
  <2>2. stable.len \in 0 .. off
    <3>1. CASE stable = NoFile
      BY <1>5, <3>1, NoFileFacts
    <3>2. ASSUME NEW n \in 1 .. off, stable = Fragment(n, "none")
          PROVE  stable.len \in 0 .. off
      BY <1>5, <3>2 DEF Fragment
    <3> QED
      BY <1>2, <1>5, <3>1, <3>2
  <2> QED
    BY <1>5, <2>1, <2>2
<1>7. Manifests'
  BY <1>1, <1>3, <1>4, <1>6, ManifestsStay
<1>8. Written'
  BY <1>1, <1>3 DEF Written, Fragment
<1>9. stable' = Fragment(ram.off, "none")' /\ ram.off \in 1 .. ram.off
  BY <1>1, <1>2, <1>5 DEF Fragment
<1>10. RecordInv' /\ Busy'
  BY <1>1, <1>2, <1>3, <1>4, <1>7, <1>8, <1>9 DEF RecordInv, Busy
<1>11. Typed'
  BY <1>1, <1>3, <1>4 DEF Typed
<1> QED
  BY <1>1, <1>2, <1>3, <1>4, <1>10, <1>11, BusyGood

LEMMA CheckpointCommitGood ==
    ASSUME Good, NoFault, CheckpointCommit
    PROVE  Good'
<1>1. /\ pc = "commit" /\ pc' = "commitEnd" /\ ManifestIs(ram.slot, TornManifest)
      /\ UNCHANGED <<ram, session, committed>>
  BY NoCallFails DEF CheckpointCommit, CheckpointFailed, Keeps, Goto
<1>2. /\ Busy /\ ram.state = "recording" /\ ram.off > 0 /\ ~ram.open
      /\ disk.tmp = Fragment(ram.off, "none")
  BY <1>1, ClosingFacts
<1>3. /\ StoreTyped /\ Typed /\ Whole /\ ram \in AnyRam /\ committed.sid <= session
      /\ ~ram.ckFailed /\ LogRests /\ Manifests /\ Written
      /\ ram.sid \in 1..session /\ ram.size > 0 /\ ram.off <= ram.size
      /\ ~ram.durable => ram.off = 0
      /\ ram.target = 0 \/ ram.target \in ram.off .. ram.size
      /\ stable = disk.tmp
      /\ stable = NoFile \/ \E n \in 1 .. ram.off : stable = Fragment(n, "none")
  BY <1>1, <1>2, BusyFacts
<1>4. PICK slot \in 0..1 : slot = ram.slot
  BY <1>3 DEF AnyRam
<1>5. /\ StoreTyped' /\ disk' = disk /\ stable' = stable
      /\ ck'[slot] = TornManifest /\ ck'[1 - slot] = ck[1 - slot]
  BY <1>1, <1>3, <1>4, ManifestFacts, NoFileFacts
<1>6. LogRests' /\ Whole' /\ LogIsNewer' = LogIsNewer
  BY <1>1, <1>3, <1>5 DEF LogRests, Whole, LogIsNewer, Newer
<1>7. Manifests'
  <2>1. CASE Newest(ck[1 - ram.slot]) /\ Older(ck[ram.slot])
             /\ committed = [sid |-> ram.sid, len |-> ck[1 - ram.slot].len]
    <3>1. Newest(ck[1 - ram.slot])'
      BY <1>1, <1>4, <1>5, <2>1 DEF Newest
    <3>2. Older(ck[ram.slot])'
      BY <1>1, <1>4, <1>5, NoFileFacts DEF Older
    <3> QED
      BY <1>1, <1>4, <1>5, <2>1, <3>1, <3>2 DEF Manifests
  <2>2. CASE ck[0].kind # "valid" /\ ck[1].kind # "valid" /\ committed.sid < ram.sid /\ LogIsNewer
    <3>1. ck'[0].kind # "valid" /\ ck'[1].kind # "valid"
      <4>1. CASE slot = 0
        BY <1>5, <2>2, <4>1, NoFileFacts
      <4>2. CASE slot = 1
        BY <1>5, <2>2, <4>2, NoFileFacts
      <4> QED
        BY <4>1, <4>2
    <3> QED
      BY <1>1, <1>6, <2>2, <3>1 DEF Manifests
  <2> QED
    BY <1>3, <2>1, <2>2 DEF Manifests
<1>8. Written'
  BY <1>1, <1>3, <1>5 DEF Written, Fragment
<1>9. RecordInv' /\ Busy'
  BY <1>1, <1>2, <1>3, <1>5, <1>6, <1>7, <1>8 DEF RecordInv, Busy, Fragment
<1>10. Typed'
  BY <1>1, <1>3, <1>5 DEF Typed
<1> QED
  BY <1>1, <1>2, <1>3, <1>6, <1>9, <1>10, BusyGood

LEMMA CheckpointCommittedGood ==
    ASSUME Good, NoFault, CheckpointCommitted
    PROVE  Good'
<1> DEFINE m == [kind |-> "valid", sid |-> ram.sid, len |-> ram.off,
                 gen |-> ram.gen + 1, reset |-> FALSE]
<1>1. /\ pc = "commitEnd" /\ pc' = "run" /\ ManifestIs(ram.slot, m)
      /\ ram' = [ram EXCEPT !.gen = @ + 1, !.slot = 1 - @, !.target = 0]
      /\ committed' = [sid |-> ram.sid, len |-> ram.off] /\ UNCHANGED session
  BY NoCallFails DEF CheckpointCommitted, CheckpointFailed, Goto
<1>2. /\ Busy /\ ram.state = "recording" /\ ram.off > 0 /\ ~ram.open
      /\ disk.tmp = Fragment(ram.off, "none")
  BY <1>1, ClosingFacts
<1>3. /\ StoreTyped /\ Typed /\ Whole /\ ram \in AnyRam
      /\ ~ram.ckFailed /\ LogRests /\ Manifests /\ Written
      /\ ram.sid \in 1..session /\ ram.size > 0 /\ ram.off <= ram.size
      /\ ~ram.durable => ram.off = 0
      /\ stable = disk.tmp
      /\ stable = NoFile \/ \E n \in 1 .. ram.off : stable = Fragment(n, "none")
  BY <1>1, <1>2, BusyFacts
<1>4. PICK slot \in 0..1, other \in 0..1, gen \in Nat, next \in Nat, off \in Nat, sid \in Nat :
        /\ slot = ram.slot /\ other = 1 - slot /\ gen = ram.gen /\ next = gen + 1
        /\ off = ram.off /\ sid = ram.sid /\ off > 0
  <2>1. /\ ram.slot \in 0..1 /\ 1 - ram.slot \in 0..1 /\ ram.gen \in Nat /\ ram.gen + 1 \in Nat
        /\ ram.off \in Nat /\ ram.sid \in Nat
    BY <1>3 DEF AnyRam
  <2> QED
    BY <1>2, <2>1
<1>5. /\ m \in AnyManifest /\ m.kind = "valid" /\ m.sid = sid /\ m.len = off /\ m.gen = next
  <2>1. m = [kind |-> "valid", sid |-> sid, len |-> off, gen |-> next, reset |-> FALSE]
    BY <1>4
  <2> QED
    BY <2>1 DEF AnyManifest
<1> HIDE DEF m
<1>6. /\ ram' \in AnyRam /\ ram'.state = "recording" /\ ram'.sid = ram.sid /\ ram'.size = ram.size
      /\ ram'.durable = ram.durable /\ ~ram'.ckFailed /\ ram'.off = ram.off
      /\ ram'.target = 0 /\ ram'.gen = next /\ ram'.slot = other /\ ~ram'.open
  <2>1. ram' = [ram EXCEPT !.gen = next, !.slot = other, !.target = 0]
    BY <1>1, <1>4
  <2> QED
    BY <1>2, <1>3, <2>1 DEF AnyRam
<1>7. /\ StoreTyped' /\ disk' = disk /\ stable' = stable
      /\ ck'[slot] = m /\ ck'[other] = ck[other]
  BY <1>1, <1>3, <1>4, <1>5, ManifestFacts
<1>8. LogRests' /\ Whole'
  BY <1>1, <1>3, <1>7 DEF LogRests, Whole
<1>9. 1 - other = slot /\ slot \in {0, 1} /\ other \in {0, 1} /\ slot # other
  BY <1>4
<1>10. Manifests'
  <2>1. Newest(ck[slot])'
    <3>1. stable'.len = off /\ off \in 1 .. off
      BY <1>2, <1>3, <1>4, <1>7 DEF Fragment
    <3> QED
      BY <1>4, <1>5, <1>6, <1>7, <3>1 DEF Newest
  <2>2. Older(ck[other])'
    <3>1. ck[other].kind # "valid" \/ ck[other].gen = gen
      <4>1. CASE Newest(ck[1 - ram.slot])
        BY <1>4, <4>1 DEF Newest
      <4>2. CASE ck[0].kind # "valid" /\ ck[1].kind # "valid"
        BY <1>9, <4>2
      <4> QED
        BY <1>3, <4>1, <4>2 DEF Manifests
    <3> QED
      BY <1>4, <1>6, <1>7, <3>1 DEF Older
  <2>3. committed' = [sid |-> ram'.sid, len |-> ck'[slot].len]
    BY <1>1, <1>4, <1>5, <1>6, <1>7
  <2> QED
    BY <1>6, <1>9, <2>1, <2>2, <2>3 DEF Manifests
<1>11. Written'
  BY <1>1, <1>2, <1>3, <1>6, <1>7 DEF Written, Fragment
<1>12. RecordInv' /\ Busy'
  BY <1>1, <1>2, <1>3, <1>6, <1>7, <1>8, <1>10, <1>11 DEF RecordInv, Busy, Fragment
<1>13. Typed' /\ committed'.sid <= session'
  BY <1>1, <1>3, <1>4, <1>6, <1>7 DEF Typed
<1> QED
  BY <1>1, <1>6, <1>8, <1>12, <1>13, BusyGood

-----------------------------------------------------------------------------
(* The save. *)

LEMMA SaveOpenGood ==
    ASSUME Good, NoFault, SaveOpen
    PROVE  Good'
<1>1. /\ pc = "run" /\ ram.state = "saving" /\ Busy /\ ~ram.open
      /\ \/ Resumable /\ UNCHANGED store /\ SaveFrom(ram.off)
         \/ ~Resumable /\ Removed("tmp") /\ SaveFrom(0)
  BY NoCallFails DEF SaveOpen, Running, Busy
<1>2. /\ StoreTyped /\ Typed /\ Whole /\ ram \in AnyRam /\ committed.sid <= session
      /\ ~ram.ckFailed /\ LogRests /\ Manifests /\ Written
      /\ ram.sid \in 1..session /\ ram.size > 0 /\ ram.off <= ram.size
      /\ ~ram.durable => ram.off = 0
      /\ ram.target = 0 \/ ram.target \in ram.off .. ram.size
      /\ ram.target # 0 => ram.off < ram.target
      /\ stable = NoFile \/ \E n \in 1 .. ram.off : stable = Fragment(n, "none")
  BY <1>1, BusyFacts
<1>3. disk.tmp = IF ram.off = 0 THEN NoFile ELSE Fragment(ram.off, "none")
  BY <1>1, <1>2 DEF Written
<1>4. ~Resumable => ram.off = 0
  <2>1. ASSUME ram.off # 0
        PROVE  Resumable
    <3>1. disk.tmp.len = ram.off /\ ram.off > 0 /\ ram.durable
      BY <1>2, <1>3, <2>1 DEF Fragment, AnyRam
    <3> QED
      BY <1>2, <3>1 DEF Resumable
  <2> QED
    BY <2>1
<1>5. /\ SaveFrom(ram.off)
      /\ disk'.tmp = disk.tmp /\ disk'.log = disk.log /\ disk'.bak = disk.bak
      /\ stable' = stable /\ ck' = ck /\ StoreTyped'
  <2>1. CASE Resumable /\ UNCHANGED store /\ SaveFrom(ram.off)
    BY <1>2, <2>1, SameStore
  <2>2. CASE ~Resumable /\ Removed("tmp") /\ SaveFrom(0)
    <3>1. disk.tmp = NoFile /\ ram.off = 0
      BY <1>3, <1>4, <2>2
    <3>2. stable = NoFile
      BY <1>2, <3>1
    <3> QED
      BY <1>2, <2>2, <3>1, <3>2, RemovedFacts DEF Paths
  <2> QED
    BY <1>1, <2>1, <2>2
<1>6. pc' = "run" /\ UNCHANGED <<session, committed>>
  BY <1>1, <1>5 DEF SaveFrom, RamOnly
<1>7. /\ ram' \in AnyRam /\ ram'.state = "saving" /\ ram'.sid = ram.sid /\ ram'.size = ram.size
      /\ ram'.durable = ram.durable /\ ram'.ckFailed = ram.ckFailed /\ ram'.off = ram.off
      /\ ram'.target = ram.target /\ ram'.gen = ram.gen /\ ram'.slot = ram.slot
      /\ ram'.open /\ ram'.saveOff = ram.off
  BY <1>1, <1>2, <1>5 DEF SaveFrom, AnyRam
<1>8. LogRests' /\ Whole'
  BY <1>2, <1>5 DEF LogRests, Whole
<1>9. Manifests'
  <2>1. stable' \in AnyFile /\ stable'.len >= stable.len
    BY <1>2, <1>5 DEF StoreTyped, AnyFile
  <2> QED
    BY <1>2, <1>5, <1>6, <1>7, <2>1, ManifestsStay
<1>10. PICK off \in Nat, size \in Nat : off = ram.off /\ size = ram.size
  BY <1>2 DEF AnyRam
<1>11. off \in off .. size + 1 /\ ~(off > size)
  BY <1>2, <1>10
<1>12. Written'
  BY <1>3, <1>5, <1>7, <1>10, <1>11 DEF Written, Fragment
<1>13. RecordInv' /\ Busy'
  BY <1>2, <1>5, <1>6, <1>7, <1>8, <1>9, <1>10, <1>11, <1>12 DEF RecordInv, Busy, Fragment
<1>14. Typed'
  BY <1>2, <1>5, <1>6, <1>7 DEF Typed
<1> QED
  BY <1>2, <1>6, <1>7, <1>8, <1>13, <1>14, BusyGood

LEMMA SaveChunkGood ==
    ASSUME Good, NoFault, SaveChunk
    PROVE  Good'
<1> DEFINE f == IF ram.saveOff = ram.size
                THEN [sid |-> ram.sid, len |-> ram.size, tail |-> "full"]
                ELSE [sid |-> ram.sid, len |-> ram.saveOff + 1, tail |-> "none"]
<1>1. /\ pc = "run" /\ pc' = "run" /\ ram.state = "saving" /\ Busy /\ ram.open
      /\ ram.saveOff <= ram.size /\ UNCHANGED <<stable, ck, session, committed>>
      /\ disk' = [disk EXCEPT !.tmp = f]
      /\ ram' = [ram EXCEPT !.saveOff = @ + 1]
  BY NoCallFails DEF SaveChunk, Running, Busy, RamOnly
<1>2. /\ StoreTyped /\ Typed /\ Whole /\ ram \in AnyRam /\ committed.sid <= session
      /\ ~ram.ckFailed /\ LogRests /\ Manifests
      /\ ram.sid \in 1..session /\ ram.size > 0 /\ ram.off <= ram.size
      /\ ~ram.durable => ram.off = 0
      /\ ram.target = 0 \/ ram.target \in ram.off .. ram.size
      /\ ram.target # 0 => ram.off < ram.target
      /\ ram.saveOff \in ram.off .. ram.size + 1
      /\ stable = NoFile \/ \E n \in 1 .. ram.off : stable = Fragment(n, "none")
  BY <1>1, BusyFacts
<1>3. PICK off \in Nat, size \in Nat, at \in Nat, next \in Nat :
        /\ off = ram.off /\ size = ram.size /\ at = ram.saveOff /\ next = at + 1
        /\ off <= at /\ at <= size
  BY <1>1, <1>2 DEF AnyRam
<1>4. /\ ram' \in AnyRam /\ ram'.state = "saving" /\ ram'.sid = ram.sid /\ ram'.size = ram.size
      /\ ram'.durable = ram.durable /\ ram'.ckFailed = ram.ckFailed /\ ram'.off = ram.off
      /\ ram'.target = ram.target /\ ram'.gen = ram.gen /\ ram'.slot = ram.slot
      /\ ram'.open /\ ram'.saveOff = next
  <2>1. ram' = [ram EXCEPT !.saveOff = next]
    BY <1>1, <1>3
  <2> QED
    BY <1>1, <1>2, <2>1 DEF AnyRam
<1>5. f = IF next > size THEN [sid |-> ram.sid, len |-> size, tail |-> "full"]
          ELSE [sid |-> ram.sid, len |-> next, tail |-> "none"]
  <2>1. at = size <=> next > size
    BY <1>3
  <2> QED
    BY <1>3, <2>1
<1>6. f \in AnyFile
  BY <1>2, <1>3, <1>5 DEF AnyFile, AnyRam, Ends
<1> HIDE DEF f
<1>7. /\ StoreTyped' /\ disk'.tmp = f /\ disk'.log = disk.log /\ disk'.bak = disk.bak
      /\ Whole' /\ LogRests'
  BY <1>1, <1>2, <1>6, ChunkWritten
<1>8. Manifests'
  <2>1. stable' \in AnyFile /\ stable'.len >= stable.len
    BY <1>1, <1>2 DEF StoreTyped, AnyFile
  <2> QED
    BY <1>1, <1>2, <1>4, <1>7, <2>1, ManifestsStay
<1>9. Written'
  <2>1. next # 0
    BY <1>3
  <2> QED
    BY <1>3, <1>4, <1>5, <1>7, <2>1 DEF Written, Fragment
<1>10. next \in off .. size + 1
  BY <1>3
<1>11. RecordInv' /\ Busy'
  BY <1>1, <1>2, <1>3, <1>4, <1>7, <1>8, <1>9, <1>10 DEF RecordInv, Busy, Fragment
<1>12. Typed'
  BY <1>1, <1>2, <1>4, <1>7 DEF Typed
<1> QED
  BY <1>1, <1>2, <1>4, <1>7, <1>11, <1>12, BusyGood

\* What a step between the closing of the file and the end of the save shows.
LEMMA SavingGood ==
    ASSUME Typed', Places', Whole', Safe', SaveInv', pc' \in SaveSteps \cup Cleaning,
           pc' \in Cleaning => then' = "saved"
    PROVE  Good'
<1>1. BootInv' /\ ClearInv' /\ RecordInv'
  BY DEF BootInv, Empty, AtRest, Cleans, Running, Cleaning, BootSteps, SaveSteps, ClearInv,
         ClearSteps, RecordInv, Busy
<1> QED
  BY <1>1 DEF Good

LEMMA SaveCloseGood ==
    ASSUME Good, NoFault, SaveClose
    PROVE  Good'
<1>1. /\ pc = "run" /\ pc' = "savePreserve" /\ ram.state = "saving" /\ Busy /\ ram.open
      /\ ram.saveOff > ram.size /\ stable' = disk.tmp
      /\ UNCHANGED <<disk, ck, session, committed>>
      /\ ram' = [ram EXCEPT !.open = FALSE]
  BY NoCallFails DEF SaveClose, Running, Busy, Synced, Goto
<1>2. /\ StoreTyped /\ Typed /\ Whole /\ Safe /\ ram \in AnyRam /\ committed.sid <= session
      /\ ~ram.ckFailed /\ LogRests /\ Written /\ ram.size > 0
  BY <1>1, BusyFacts
<1>3. disk.tmp = Fragment(ram.size, "full") /\ disk.tmp \in AnyFile
  BY <1>1, <1>2 DEF Written, StoreTyped, Paths
<1>4. FileState(disk.tmp) = "Complete"
  BY <1>2, <1>3, FileStateCases DEF Fragment
<1>5. ram' \in AnyRam /\ ram'.state = "saving" /\ ~ram'.ckFailed
  BY <1>1, <1>2 DEF AnyRam
<1>6. StoreTyped' /\ LogRests' /\ Whole' /\ disk'.tmp = disk.tmp
  BY <1>1, <1>2, <1>3 DEF StoreTyped, LogRests, Whole
<1>7. Recovers(disk.tmp)
  BY <1>2 DEF Safe, Between
<1>8. Safe'
  BY <1>1, <1>7, SameFilesRecover, SafeWhenSynced
<1>9. SaveInv'
  BY <1>1, <1>4, <1>6 DEF SaveInv, Cleans, Cleaning
<1>10. Typed' /\ Places'
  BY <1>1, <1>2, <1>5, <1>6 DEF Typed, Places, Cleaning, SaveSteps
<1> QED
  BY <1>1, <1>6, <1>8, <1>9, <1>10, SavingGood DEF SaveSteps, Cleaning

LEMMA SavePreserveGood ==
    ASSUME Good, NoFault, SavePreserve
    PROVE  Good'
<1>1. /\ pc = "savePreserve" /\ pc' = "saveRename" /\ MakeRoom
      /\ UNCHANGED <<ram, session, committed, then>>
  BY NoCallFails DEF SavePreserve, Keeps, Goto
<1>2. /\ stable = disk.tmp /\ FileState(stable) = "Complete" /\ LogRests
      /\ StoreTyped /\ Typed /\ Places /\ Whole /\ Safe
  BY <1>1 DEF Good, SaveInv, Typed
<1>3. /\ StoreTyped' /\ ck' = ck /\ disk'.tmp = disk.tmp /\ stable' = stable
      /\ disk'.log = NoFile /\ (disk'.bak # NoFile => Valid(disk'.bak))
      /\ disk'.bak \in {disk.log, disk.bak}
  BY <1>1, <1>2, MakeRoomFacts
<1>4. Safe'
  <2>1. Recovers(disk.tmp) /\ Ended(disk.tmp)
    BY <1>2, SyncedIsSafe DEF Ended
  <2>2. Recovers(disk.tmp)'
    BY <1>1, <1>3, <2>1 DEF Recovers, Newer
  <2> QED
    BY <1>2, <1>3, <2>2, SafeWhenSynced
<1>5. Whole'
  BY <1>2, <1>3, NoFileFacts DEF Whole
<1>6. SaveInv'
  BY <1>1, <1>2, <1>3 DEF SaveInv, RoomMade, Cleans, Cleaning, FileState, Valid
<1>7. Typed' /\ Places'
  BY <1>1, <1>2, <1>3 DEF Typed, Places, Cleaning, SaveSteps
<1> QED
  BY <1>1, <1>4, <1>5, <1>6, <1>7, SavingGood DEF SaveSteps, Cleaning

LEMMA SaveRenameGood ==
    ASSUME Good, NoFault, SaveRename
    PROVE  Good'
<1>1. /\ pc = "saveRename" /\ pc' = "savedBackup" /\ Renamed("tmp", "log")
      /\ UNCHANGED <<ram, session, committed, then>>
  BY NoCallFails DEF SaveRename, Keeps, Goto
<1>2. /\ stable = disk.tmp /\ FileState(disk.tmp) = "Complete" /\ RoomMade
      /\ StoreTyped /\ Typed /\ Places /\ Whole /\ Safe /\ Recovers(disk.tmp)
  BY <1>1, SyncedIsSafe DEF Good, SaveInv, Typed
<1>3. /\ StoreTyped' /\ ck' = ck /\ disk'.tmp = NoFile /\ stable' = NoFile
      /\ disk'.log = disk.tmp /\ disk'.bak = disk.bak
  BY <1>1, <1>2, RenamedFacts DEF Paths
<1>4. Valid(disk.tmp) /\ Ended(disk.tmp)
  BY <1>2 DEF Valid, Ended
<1>5. LogIsNewer'
  BY <1>1, <1>2, <1>3, <1>4 DEF Recovers, LogIsNewer, Newer
<1>6. Safe'
  <2>1. Recovers(NoFile)'
    BY <1>5, NothingManifested, NoFileFacts DEF Recovers
  <2> QED
    BY <1>3, <2>1 DEF Safe, Between
<1>7. Whole'
  BY <1>2, <1>3, <1>4 DEF Whole
<1>8. SaveInv'
  BY <1>1, <1>2, <1>3 DEF SaveInv, NoCheckpoint, Cleans, Cleaning
<1>9. Typed' /\ Places'
  BY <1>1, <1>2, <1>3 DEF Typed, Places, Cleaning, SaveSteps
<1> QED
  BY <1>1, <1>6, <1>7, <1>8, <1>9, SavingGood DEF SaveSteps, Cleaning

LEMMA SavedBackupGood ==
    ASSUME Good, NoFault, SavedBackup
    PROVE  Good'
<1>1. /\ pc = "savedBackup" /\ pc' = "rm0" /\ then' = "saved" /\ Removed("bak")
      /\ UNCHANGED <<ram, session, committed>>
  BY NoCallFails DEF SavedBackup, CleanUp
<1>2. /\ NoCheckpoint /\ FileState(disk.log) = "Complete" /\ stable = disk.tmp
      /\ StoreTyped /\ Typed /\ Places /\ Whole /\ Safe /\ Recovers(disk.tmp)
  BY <1>1, SyncedIsSafe DEF Good, SaveInv, Typed, NoCheckpoint
<1>3. /\ StoreTyped' /\ ck' = ck /\ disk'.tmp = disk.tmp /\ stable' = stable
      /\ disk'.log = disk.log /\ disk'.bak = NoFile
  BY <1>1, <1>2, RemovedFacts DEF Paths
<1>4. LogIsNewer'
  <2>1. LogIsNewer /\ Valid(disk.log)
    BY <1>2, NothingRecovers DEF NoCheckpoint, Valid
  <2> QED
    BY <1>1, <1>3, <2>1 DEF LogIsNewer, Newer
<1>5. Safe'
  <2>1. Recovers(NoFile)'
    BY <1>4, NothingManifested, NoFileFacts DEF Recovers
  <2> QED
    BY <1>2, <1>3, <2>1 DEF Safe, Between, NoCheckpoint
<1>6. Whole'
  BY <1>2, <1>3, NoFileFacts DEF Whole
<1>7. SaveInv'
  BY <1>1, <1>2, <1>3 DEF SaveInv, NoCheckpoint, Cleans, Cleaning
<1>8. Typed' /\ Places'
  BY <1>1, <1>2, <1>3 DEF Typed, Places, Cleaning, SaveSteps
<1> QED
  BY <1>1, <1>5, <1>6, <1>7, <1>8, SavingGood DEF SaveSteps, Cleaning

LEMMA IdleTyped == IdleRam \in AnyRam /\ IdleRam.state = "idle"
BY DEF IdleRam, AnyRam

LEMMA SavedGood ==
    ASSUME Good, NoFault, Saved
    PROVE  Good'
<1>1. pc = "saved" /\ pc' = "run" /\ UNCHANGED <<store, session, committed>> /\ ram' = IdleRam
  BY DEF Saved, Quiet, Goto
<1>2. /\ NoCheckpoint /\ FileState(disk.log) = "Complete" /\ disk.bak = NoFile /\ NoManifests
      /\ stable = disk.tmp
      /\ StoreTyped /\ Typed /\ Places /\ Whole /\ Safe /\ Recovers(disk.tmp)
  BY <1>1, SyncedIsSafe DEF Good, SaveInv, Typed, NoCheckpoint
<1>3. disk' = disk /\ stable' = stable /\ ck' = ck /\ StoreTyped'
  BY <1>1, <1>2, SameStore
<1>4. Valid(disk.log) /\ LogIsNewer
  BY <1>2, NothingRecovers DEF NoCheckpoint, Valid
<1>5. Settled' /\ LogIsNewer' /\ Whole' /\ AtRest'
  BY <1>1, <1>2, <1>3, <1>4, IdleTyped
  DEF Settled, LogRests, NoCheckpoint, NoManifests, LogIsNewer, Newer, Whole, AtRest, Running
<1>6. Typed' /\ committed'.sid <= session'
  BY <1>1, <1>2, <1>3, IdleTyped DEF Typed, Places
<1> QED
  BY <1>1, <1>5, <1>6, AtRestGood

-----------------------------------------------------------------------------
(* Deletion and resets. *)

\* With nothing committed, nothing can be lost.
LEMMA NothingToLose ==
    ASSUME StoreTyped', committed' = NothingCommitted
    PROVE  Safe' /\ LogIsNewer'
<1>1. \A s, n \in Nat : Newer(s, n)'
  BY DEF Newer, NothingCommitted
<1>2. LogIsNewer'
  BY <1>1 DEF LogIsNewer, StoreTyped, Paths, AnyFile
<1>3. ASSUME NEW t \in Between(stable', disk'.tmp)
      PROVE  Recovers(t)'
  <2>1. PICK a \in AnyFile, b \in AnyFile : a = stable' /\ b = disk'.tmp
    BY DEF StoreTyped, Paths
  <2>2. t.sid \in Nat /\ t.len \in Nat
    <3>1. CASE t \in {a, b}
      BY <3>1 DEF AnyFile
    <3>2. CASE t \in [sid: {b.sid}, len: (IF a.sid = b.sid THEN a.len ELSE 0)..b.len,
                      tail: {"none", "torn"}]
      <4>1. PICK low \in Nat, high \in Nat :
              low = (IF a.sid = b.sid THEN a.len ELSE 0) /\ high = b.len
        BY DEF AnyFile
      <4>2. t.len \in low .. high /\ t.sid = b.sid
        BY <3>2, <4>1
      <4> QED
        BY <4>2 DEF AnyFile
    <3> QED
      BY <2>1, <3>1, <3>2 DEF Between
  <2>3. HasManifest(ck', t) => ck'[BestSlot(ck', t)].len \in Nat
    <3>1. ASSUME HasManifest(ck', t)
          PROVE  ck'[BestSlot(ck', t)].len \in Nat
      <4>1. BestSlot(ck', t) \in 0..1
        BY <3>1, BestIsAuthentic
      <4> QED
        BY <4>1 DEF StoreTyped, AnyManifest
    <3> QED
      BY <3>1
  <2> QED
    BY <1>1, <1>2, <2>2, <2>3 DEF Recovers
<1> QED
  BY <1>2, <1>3 DEF Safe

\* What a step of clear() has to show.
LEMMA ClearingGood ==
    ASSUME Typed', ram' = IdleRam, Whole', pc' \in ClearSteps, ClearInv'
    PROVE  Good'
<1>1. Safe'
  BY NothingToLose DEF Typed, ClearInv
<1>2. Places'
  <2>1. committed'.sid = 0 /\ session' \in Nat
    BY DEF Typed, ClearInv, NothingCommitted
  <2> QED
    BY <2>1 DEF Places, ClearSteps, Cleaning, IdleRam
<1>3. BootInv' /\ RecordInv' /\ SaveInv'
  BY DEF BootInv, Empty, AtRest, Running, Cleans, Cleaning, ClearSteps, BootSteps, RecordInv, Busy, SaveInv
<1> QED
  BY <1>1, <1>2, <1>3 DEF Good

LEMMA ClearGood ==
    ASSUME Good, NoFault, Clear
    PROVE  Good'
<1>1. /\ Running("idle") /\ pc' = "clearLog" /\ then' = "cleared"
      /\ UNCHANGED <<store, ram, session>> /\ committed' = NothingCommitted
  BY DEF Clear, Quiet, Running, Good, Places
<1>2. AtRest /\ Settled /\ ram = IdleRam
  BY <1>1, RestIsTheLog DEF AtRest
<1>3. disk' = disk /\ stable' = stable /\ ck' = ck /\ StoreTyped' /\ Typed /\ Whole
  BY <1>1, SameStore DEF Good, Typed
<1>4. Typed' /\ Whole'
  BY <1>1, <1>3 DEF Typed, NothingCommitted, Whole
<1>5. ClearInv'
  BY <1>1, <1>2, <1>3 DEF ClearInv, Settled, NoCheckpoint, NoManifests
<1> QED
  BY <1>1, <1>2, <1>4, <1>5, ClearingGood DEF ClearSteps

LEMMA ClearStepGood ==
    ASSUME Good, NoFault, ClearStep
    PROVE  Good'
<1>1. /\ pc \in ClearSteps \ {"clearEnd"} /\ pc' = ClearNext[pc]
      /\ UNCHANGED <<ram, session, committed, then>>
      /\ \/ pc = "clearLog" /\ Removed("log")
         \/ pc = "clearTmp" /\ Removed("tmp")
         \/ pc = "clearBak" /\ Removed("bak")
         \/ pc = "clear0" /\ ManifestIs(0, NoManifest)
         \/ pc = "clear1" /\ ManifestIs(1, NoManifest)
  BY NoCallFails DEF ClearStep, ClearNext, ClearSteps
<1>2. /\ ram = IdleRam /\ then = "cleared" /\ committed = NothingCommitted
      /\ NoCheckpoint /\ NoManifests
      /\ pc # "clearLog" => disk.log = NoFile
      /\ pc \in {"clear0", "clear1", "clearEnd"} => disk.bak = NoFile
      /\ StoreTyped /\ Typed /\ Whole
  BY <1>1 DEF Good, BootInv, Empty, ClearInv, Typed
<1>3. CASE pc = "clearLog" /\ Removed("log")
  <2>1. /\ StoreTyped' /\ ck' = ck /\ stable' = stable /\ disk'.tmp = disk.tmp
        /\ disk'.log = NoFile /\ disk'.bak = disk.bak /\ pc' = "clearTmp"
    BY <1>1, <1>2, <1>3, RemovedFacts DEF Paths, ClearNext
  <2>2. Typed' /\ Whole' /\ ClearInv'
    BY <1>1, <1>2, <2>1, NoFileFacts DEF Typed, Whole, ClearInv, NoCheckpoint, NoManifests
  <2> QED
    BY <1>1, <1>2, <2>1, <2>2, ClearingGood DEF ClearSteps
<1>4. CASE pc = "clearTmp" /\ Removed("tmp")
  <2>1. /\ StoreTyped' /\ ck' = ck /\ stable' = NoFile /\ disk'.tmp = NoFile
        /\ disk'.log = disk.log /\ disk'.bak = disk.bak /\ pc' = "clearBak"
    BY <1>1, <1>2, <1>4, RemovedFacts DEF Paths, ClearNext
  <2>2. Typed' /\ Whole' /\ ClearInv'
    BY <1>1, <1>2, <1>4, <2>1, NoFileFacts DEF Typed, Whole, ClearInv, NoCheckpoint, NoManifests
  <2> QED
    BY <1>1, <1>2, <2>1, <2>2, ClearingGood DEF ClearSteps
<1>5. CASE pc = "clearBak" /\ Removed("bak")
  <2>1. /\ StoreTyped' /\ ck' = ck /\ stable' = stable /\ disk'.tmp = disk.tmp
        /\ disk'.log = disk.log /\ disk'.bak = NoFile /\ pc' = "clear0"
    BY <1>1, <1>2, <1>5, RemovedFacts DEF Paths, ClearNext
  <2>2. Typed' /\ Whole' /\ ClearInv'
    BY <1>1, <1>2, <1>5, <2>1, NoFileFacts DEF Typed, Whole, ClearInv, NoCheckpoint, NoManifests
  <2> QED
    BY <1>1, <1>2, <2>1, <2>2, ClearingGood DEF ClearSteps
<1>6. ASSUME NEW slot \in 0..1, ManifestIs(slot, NoManifest), pc \in {"clear0", "clear1"}
      PROVE  Good'
  <2>1. /\ StoreTyped' /\ disk' = disk /\ stable' = stable /\ pc' \in {"clear1", "clearEnd"}
        /\ ck'[slot] = NoManifest /\ ck'[1 - slot] = ck[1 - slot]
    BY <1>1, <1>2, <1>6, ManifestFacts, NoFileFacts DEF ClearNext
  <2>2. ck'[0] = NoManifest /\ ck'[1] = NoManifest
    <3>1. CASE slot = 0
      BY <1>2, <2>1, <3>1 DEF NoManifests
    <3>2. CASE slot = 1
      BY <1>2, <2>1, <3>2 DEF NoManifests
    <3> QED
      BY <3>1, <3>2
  <2>3. Typed' /\ Whole' /\ ClearInv'
    BY <1>1, <1>2, <1>6, <2>1, <2>2 DEF Typed, Whole, ClearInv, NoCheckpoint, NoManifests
  <2> QED
    BY <1>1, <1>2, <2>1, <2>3, ClearingGood DEF ClearSteps
<1>7. 0 \in 0..1 /\ 1 \in 0..1
  OBVIOUS
<1> QED
  BY <1>1, <1>3, <1>4, <1>5, <1>6, <1>7

LEMMA ClearEndGood ==
    ASSUME Good, NoFault, ClearEnd
    PROVE  Good'
<1>1. /\ pc = "clearEnd" /\ pc \in ClearSteps /\ pc' = "run" /\ UNCHANGED <<store, session, committed>>
  BY DEF ClearEnd, Quiet, ClearSteps
<1>2. /\ ram = IdleRam /\ then = "cleared" /\ committed = NothingCommitted
      /\ NoCheckpoint /\ NoManifests /\ disk.log = NoFile /\ disk.bak = NoFile
      /\ StoreTyped /\ Typed /\ Whole /\ Places
  BY <1>1 DEF Good, BootInv, Empty, ClearInv, Typed
<1>3. disk' = disk /\ stable' = stable /\ ck' = ck /\ StoreTyped'
  BY <1>1, <1>2, SameStore
<1>4. ram' = IdleRam
  BY <1>2 DEF ClearEnd
<1>5. LogIsNewer'
  BY <1>1, <1>2, <1>3, NothingToLose
<1>6. Settled' /\ Whole' /\ AtRest'
  BY <1>1, <1>2, <1>3, <1>4, IdleTyped
  DEF Settled, LogRests, NoCheckpoint, NoManifests, Whole, AtRest, Running
<1>7. Typed' /\ committed'.sid <= session'
  BY <1>1, <1>2, <1>3, <1>4, IdleTyped DEF Typed, Places
<1> QED
  BY <1>4, <1>5, <1>6, <1>7, AtRestGood

LEMMA ResetGood ==
    ASSUME Good, NoFault, Reset
    PROVE  Good'
<1>1. PICK tmp \in Between(stable, disk.tmp) :
        /\ disk' = [disk EXCEPT !.tmp = tmp] /\ stable' = tmp
  BY DEF Reset
<1>2. ram' = IdleRam /\ pc' = "primary" /\ UNCHANGED <<ck, session, committed>>
  BY DEF Reset
<1>3. StoreTyped /\ Typed /\ Places /\ Whole /\ Recovers(tmp)
  BY <1>1 DEF Good, Typed, Safe
<1>4. tmp \in AnyFile
  <2>1. PICK a \in AnyFile, b \in AnyFile : a = stable /\ b = disk.tmp
    BY <1>3 DEF StoreTyped, Paths
  <2>2. CASE tmp \in {a, b}
    BY <2>2
  <2>3. CASE tmp \in [sid: {b.sid}, len: (IF a.sid = b.sid THEN a.len ELSE 0)..b.len,
                      tail: {"none", "torn"}]
    <3>1. PICK low \in Nat, high \in Nat :
            low = (IF a.sid = b.sid THEN a.len ELSE 0) /\ high = b.len
      BY DEF AnyFile
    <3>2. PICK n \in Nat : tmp.len = n
      BY <2>3, <3>1
    <3>3. tmp = [sid |-> tmp.sid, len |-> tmp.len, tail |-> tmp.tail] /\ tmp.sid = b.sid
          /\ tmp.tail \in {"none", "torn"}
      BY <2>3
    <3> QED
      BY <3>2, <3>3 DEF AnyFile
  <2> QED
    BY <1>1, <2>1, <2>2, <2>3 DEF Between
<1>5. StoreTyped' /\ disk'.tmp = tmp /\ disk'.log = disk.log /\ disk'.bak = disk.bak
  BY <1>1, <1>2, <1>3, <1>4 DEF StoreTyped, Paths
<1>6. Recovers(tmp)' /\ Whole'
  BY <1>2, <1>3, <1>5, SameFilesRecover
<1>7. Safe'
  BY <1>1, <1>5, <1>6 DEF Safe, Between
<1>8. Typed' /\ Places'
  BY <1>2, <1>3, <1>5, IdleTyped DEF Typed, Places, BootSteps, Cleaning, IdleRam
<1>9. BootInv' /\ ClearInv' /\ RecordInv' /\ SaveInv'
  BY <1>1, <1>2, <1>5
  DEF BootInv, Empty, AtRest, Running, Cleans, Cleaning, ClearInv, ClearSteps, RecordInv, Busy, SaveInv
<1> QED
  BY <1>6, <1>7, <1>8, <1>9 DEF Good

LEMMA InitGood == Init => Good
<1> SUFFICES ASSUME Init
             PROVE  Good
  OBVIOUS
<1>1. PICK log \in OldFile(2), bak \in OldFile(1) : disk = [log |-> log, tmp |-> NoFile, bak |-> bak]
  BY DEF Init
<1>2. /\ stable = NoFile /\ ck = [slot \in 0..1 |-> NoManifest] /\ ram = IdleRam
      /\ pc = "primary" /\ session = 2 /\ committed = NothingCommitted
  BY DEF Init
<1>3. ASSUME NEW sid \in 1..2, NEW f \in OldFile(sid)
      PROVE  f \in AnyFile /\ (Valid(f) => Ended(f))
  <2>1. CASE f = NoFile
    BY <2>1, NoFileFacts
  <2>2. CASE f \in [sid: {sid}, len: {1}, tail: Ends \cup {"torn"}]
    <3>1. f \in AnyFile
      BY <2>2 DEF AnyFile, Ends
    <3>2. f.tail \in Ends \cup {"torn"}
      BY <2>2
    <3> QED
      BY <3>1, <3>2, FileStateCases
  <2> QED
    BY <2>1, <2>2 DEF OldFile
<1>4. log \in AnyFile /\ bak \in AnyFile /\ Whole
  BY <1>1, <1>3 DEF Whole
<1>5. StoreTyped
  BY <1>1, <1>2, <1>4, NoFileFacts DEF StoreTyped, Paths
<1>6. Typed /\ Places
  BY <1>2, <1>5, IdleTyped DEF Typed, Places, NothingCommitted, BootSteps, Cleaning, IdleRam
<1>7. Safe
  <2>1. \A s, n \in Nat : Newer(s, n)
    BY <1>2 DEF Newer, NothingCommitted
  <2>2. LogIsNewer
    BY <1>5, <2>1 DEF LogIsNewer, StoreTyped, Paths, AnyFile
  <2> QED
    BY <1>1, <1>2, <2>2, NothingRecovers DEF Safe, Between
<1>8. BootInv /\ ClearInv /\ RecordInv /\ SaveInv
  BY <1>1, <1>2
  DEF BootInv, Empty, AtRest, Running, Cleans, Cleaning, ClearInv, ClearSteps, RecordInv, Busy, SaveInv
<1> QED
  BY <1>4, <1>6, <1>7, <1>8 DEF Good

-----------------------------------------------------------------------------
(* Every step. *)

LEMMA FaultsOnlyCount == Next => UNCHANGED faults \/ Fails
<1>1. Boot => UNCHANGED faults \/ Fails
  BY DEF Boot, BootCall, NoCall, Works, BootPrimary, BootRestore, BootBackup, BootChoose,
     BootProvenance, BootProvenanceWrite, BootTruncate, BootEnd, BootEndSync, BootPreserve,
     BootPromote, BootPromoted, BootUndo, BootUndoRestore, BootInspect
<1>2. CleanUpStep \/ Recording => UNCHANGED faults \/ Fails
  BY DEF CleanUpStep, Works, Recording, Start, Started, Append, Stop, Finalize, Quiet
<1>3. Checkpoint => UNCHANGED faults \/ Fails
  BY DEF Checkpoint, Works, CheckpointChunk, CheckpointClose, CheckpointCommit,
     CheckpointCommitted, CheckpointFailed
<1>4. Save => UNCHANGED faults \/ Fails
  BY DEF Save, Works, Quiet, SaveOpen, SaveChunk, SaveClose, SavePreserve, SaveRename,
     SaveUndo, SavedBackup, Saved, Retry, Retried
<1>5. Deletion \/ Reset => UNCHANGED faults \/ Fails
  BY DEF Deletion, Works, Quiet, Clear, ClearStep, ClearEnd, Reset
<1> QED
  BY <1>1, <1>2, <1>3, <1>4, <1>5 DEF Next

LEMMA StepGood ==
    ASSUME Good, NoFault, Next
    PROVE  Good'
<1>1. pc \notin {"saveUndo", "retry"} /\ ~Running("failed")
  BY DEF Good, Places, Cleaning, ClearSteps, SaveSteps, BootSteps, Running
<1>2. CASE Boot
  BY <1>2, BootGood
<1>3. CASE CleanUpStep
  BY <1>3, CleanUpGood
<1>4. CASE Recording
  BY <1>4, StartGood, StartedGood, AppendGood, StopGood, FinalizeGood DEF Recording
<1>5. CASE Checkpoint
  BY <1>5, CheckpointChunkGood, CheckpointCloseGood, CheckpointCommitGood, CheckpointCommittedGood
  DEF Checkpoint
<1>6. CASE Save
  BY <1>1, <1>6, SaveOpenGood, SaveChunkGood, SaveCloseGood, SavePreserveGood, SaveRenameGood,
     SavedBackupGood, SavedGood
  DEF Save, SaveUndo, Retry, Retried
<1>7. CASE Deletion
  BY <1>7, ClearGood, ClearStepGood, ClearEndGood, SMTT(30) DEF Deletion
<1>8. CASE Reset
  BY <1>8, ResetGood
<1> QED
  BY <1>2, <1>3, <1>4, <1>5, <1>6, <1>7, <1>8 DEF Next

LEMMA StutterGood ==
    ASSUME Good, UNCHANGED vars
    PROVE  Good'
BY DEF vars, Good, Typed, StoreTyped, Places, Whole, Safe, Recovers, Newer, LogIsNewer, BootInv,
   Empty, AtRest, Running, Settled, LogRests, RoomMade, NoCheckpoint, NoManifests, Cleans,
   ClearInv, RecordInv, Busy, Fragment, Newest, Older, Manifests, Written, SaveInv

LEMMA RecoveryInvariant == Spec => []RecoveryInv
<1>1. Init => RecoveryInv
  BY InitGood DEF Init, RecoveryInv
<1>2. RecoveryInv /\ [Next]_vars => RecoveryInv'
  <2> SUFFICES ASSUME RecoveryInv, [Next]_vars
               PROVE  RecoveryInv'
    OBVIOUS
  <2>1. CASE Next
    <3>1. faults' = faults \/ faults' = faults + 1
      BY <2>1, FaultsOnlyCount DEF Fails
    <3>2. faults' \in Nat /\ (faults' = 0 => faults = 0)
      BY <3>1 DEF RecoveryInv
    <3> QED
      BY <2>1, <3>2, StepGood DEF RecoveryInv, NoFault
  <2>2. CASE UNCHANGED vars
    <3>1. faults' = faults
      BY <2>2 DEF vars
    <3> QED
      BY <2>2, <3>1, StutterGood DEF RecoveryInv
  <2> QED
    BY <2>1, <2>2
<1> QED
  BY <1>1, <1>2, PTL DEF Spec

(* What a checkpoint reported committed can be recovered from then on,        *)
(* whenever and however often the power goes.                                 *)
THEOREM CommittedIsRecoverable == Spec => []CommittedRecoverable
<1>1. RecoveryInv => CommittedRecoverable
  <2> SUFFICES ASSUME RecoveryInv, faults = 0
               PROVE  \/ Offer.sid > committed.sid
                      \/ Offer.sid = committed.sid /\ Offer.len >= committed.len
    BY DEF CommittedRecoverable
  <2>1. Recovers(stable)
    BY DEF RecoveryInv, Good, Safe, Between
  <2> QED
    BY <2>1 DEF Recovers, LogIsNewer, Newer, Offer, NothingCommitted
<1> QED
  BY <1>1, RecoveryInvariant, PTL

(* Whenever the recorder rests, what is recovered is the log that is read, and *)
(* nothing is left over that would refuse a recording.                         *)
THEOREM LogIsSettled == Spec => []SettledLog
<1>1. RecoveryInv => SettledLog
  <2> SUFFICES ASSUME RecoveryInv, faults = 0, Running("idle")
               PROVE  SettledLog
    BY DEF SettledLog
  <2>1. Settled
    BY RestIsTheLog DEF RecoveryInv, AtRest
  <2>2. stable = NoFile /\ disk.tmp = NoFile /\ LogRests /\ NoManifests
    BY <2>1 DEF Settled, NoCheckpoint
  <2>3. ~Ended(stable) /\ ~HasManifest(ck, stable)
    BY <2>2, NoFileFacts, NothingManifested
  <2>4. Offer.sid = disk.log.sid /\ Offer.len = disk.log.len
    <3>1. CASE Valid(disk.log)
      BY <2>3, <3>1 DEF Offer
    <3>2. CASE disk.log = NoFile /\ disk.bak = NoFile
      BY <2>3, <3>2, NoFileFacts DEF Offer, NothingCommitted, NoFile
    <3> QED
      BY <2>2, <3>1, <3>2 DEF LogRests
  <2>5. \A slot \in 0..1 : ck[slot] = NoManifest
    <3>1. \A slot \in 0..1 : slot = 0 \/ slot = 1
      OBVIOUS
    <3> QED
      BY <2>2, <3>1 DEF NoManifests
  <2> QED
    BY <2>2, <2>4, <2>5 DEF SettledLog, LogRests
<1> QED
  BY <1>1, RecoveryInvariant, PTL

-----------------------------------------------------------------------------
(* The types, whatever fails. A member of the recorder that counts what it  *)
(* has written never passes the length of the recording it writes.          *)

RamTyped(r) ==
    r \in [state: {"idle", "recording", "stopping", "saving", "failed"},
           sid: 0..MaxSessions, size: 0..MaxLength, durable: BOOLEAN,
           ckFailed: BOOLEAN, off: 0..MaxLength, target: 0..MaxLength,
           gen: 0..MaxLength, slot: 0..1, saveOff: 0..MaxLength + 1, open: BOOLEAN]
InRange(r) ==
    r.off <= r.size /\ r.target <= r.size /\ r.saveOff <= r.size + 1 /\ r.gen <= r.off

\* Only begin() adds to the generation of a manifest, and marks the manifest by it.
MarkedOnce(c) == \A slot \in 0..1 : ~c[slot].reset => c[slot].gen <= MaxLength
FilesTyped(d, s, c) ==
    d \in [Paths -> File] /\ s \in File /\ c \in [0..1 -> Manifest] /\ MarkedOnce(c)

PcValues == BootSteps \cup ClearSteps \cup SaveSteps \cup Cleaning
              \cup {"run", "start", "retry", "close", "commit", "commitEnd"}
ThenValues == {"inspect", "start", "saved", "retry", "cleared", "refused"}
Committing(p) == p \in {"close", "commit", "commitEnd"}
Marking(p) == p \in {"provenance", "provenanceWrite"}
Starting(p, t) == p = "start" \/ (p \in Cleaning /\ t = "start")
PlaceTyped(p, t) ==
    p \in PcValues /\ t \in ThenValues /\ (p \in Cleaning => t \in {"inspect", "start", "saved", "retry"})

\* What is known at the places from which a count goes up.
Marks(d, c) == HasManifest(c, d.tmp) /\ ~c[BestSlot(c, d.tmp)].reset
BeforeCount(d, c, r, p, t, n) ==
    /\ Committing(p) => r.gen < r.off
    /\ Starting(p, t) => n < MaxSessions
    /\ Marking(p) => Marks(d, c)

CountsTyped(n, k, f, m) ==
    /\ n \in 0..MaxSessions /\ k \in 0..MaxCrashes /\ f \in 0..MaxFaults
    /\ m \in [sid: 0..MaxSessions, len: 0..MaxLength]

TypeInv ==
    /\ FilesTyped(disk, stable, ck) /\ RamTyped(ram) /\ InRange(ram)
    /\ PlaceTyped(pc, then) /\ CountsTyped(session, crashes, faults, committed)
    /\ BeforeCount(disk, ck, ram, pc, then, session)
-----------------------------------------------------------------------------
LEMMA FileTypes ==
    /\ NoFile \in File /\ NoManifest \in Manifest /\ TornManifest \in Manifest
    /\ NoManifest.gen = 0 /\ TornManifest.gen = 0
    /\ NothingCommitted \in [sid: 0..MaxSessions, len: 0..MaxLength]
<1>1. MaxSessions \in Nat /\ MaxLength \in Nat
  BY BoundsAssumption
<1>2. 0 \in 0..MaxSessions /\ 0 \in 0..MaxLength /\ 0 \in 0..MaxLength + 1
  BY <1>1
<1>3. NoFile \in File /\ NothingCommitted \in [sid: 0..MaxSessions, len: 0..MaxLength]
  BY <1>2 DEF NoFile, File, NothingCommitted
<1>4. NoManifest \in Manifest /\ NoManifest.gen = 0
  BY <1>2 DEF NoManifest, Manifest
<1>5. TornManifest \in Manifest /\ TornManifest.gen = 0
  BY <1>2 DEF TornManifest, NoManifest, Manifest
<1> QED
  BY <1>3, <1>4, <1>5

LEMMA IdleIsTyped == RamTyped(IdleRam) /\ InRange(IdleRam)
<1>1. MaxSessions \in Nat /\ MaxLength \in Nat
  BY BoundsAssumption
<1>2. /\ 0 \in 0..MaxSessions /\ 0 \in 0..MaxLength /\ 0 \in 0..MaxLength + 1 /\ 0 \in 0..1
      /\ FALSE \in BOOLEAN
  BY <1>1
<1> QED
  BY <1>2 DEF RamTyped, InRange, IdleRam

\* One slot of the manifests is written.
LEMMA ManifestTyped ==
    ASSUME FilesTyped(disk, stable, ck), NEW slot \in 0..1, NEW m \in Manifest,
           ~m.reset => m.gen <= MaxLength, ManifestIs(slot, m)
    PROVE  FilesTyped(disk', stable', ck')
<1>1. ck' = [ck EXCEPT ![slot] = m] /\ disk' = disk /\ stable' = stable
  BY DEF ManifestIs
<1>2. ck' \in [0..1 -> Manifest]
  BY <1>1 DEF FilesTyped
<1>3. MarkedOnce(ck')
  BY <1>1 DEF FilesTyped, MarkedOnce
<1> QED
  BY <1>1, <1>2, <1>3 DEF FilesTyped

LEMMA NoManifestTyped ==
    ASSUME FilesTyped(disk, stable, ck), NEW slot \in 0..1, NEW m \in {NoManifest, TornManifest},
           ManifestIs(slot, m)
    PROVE  FilesTyped(disk', stable', ck')
<1>1. m \in Manifest /\ m.gen = 0 /\ MaxLength \in Nat
  BY FileTypes, BoundsAssumption
<1>2. m.gen <= MaxLength
  BY <1>1
<1> QED
  BY <1>1, <1>2, ManifestTyped

LEMMA RemovedTyped ==
    ASSUME FilesTyped(disk, stable, ck), NEW p \in Paths, Removed(p)
    PROVE  FilesTyped(disk', stable', ck') /\ ck' = ck
BY FileTypes DEF FilesTyped, Removed

LEMMA RenamedTyped ==
    ASSUME FilesTyped(disk, stable, ck), NEW p \in Paths, NEW q \in Paths, Renamed(p, q)
    PROVE  FilesTyped(disk', stable', ck') /\ ck' = ck
BY FileTypes DEF FilesTyped, Renamed

LEMMA TemporaryTyped ==
    ASSUME FilesTyped(disk, stable, ck), NEW f \in File, disk' = [disk EXCEPT !.tmp = f],
           stable' \in File, UNCHANGED ck
    PROVE  FilesTyped(disk', stable', ck')
BY DEF FilesTyped, Paths

LEMMA SyncedTyped ==
    ASSUME FilesTyped(disk, stable, ck), Synced
    PROVE  FilesTyped(disk', stable', ck')
BY DEF FilesTyped, Synced, Paths

LEMMA StoreSameTyped ==
    ASSUME FilesTyped(disk, stable, ck), UNCHANGED store
    PROVE  FilesTyped(disk', stable', ck')
BY DEF FilesTyped, store

LEMMA MakeRoomTyped ==
    ASSUME FilesTyped(disk, stable, ck), MakeRoom
    PROVE  FilesTyped(disk', stable', ck')
BY StoreSameTyped, RemovedTyped, RenamedTyped DEF MakeRoom, Paths

\* The counters that a call moves.
LEMMA CallCounts ==
    ASSUME CountsTyped(session, crashes, faults, committed), Works \/ Fails,
           UNCHANGED <<session, crashes, committed>>
    PROVE  CountsTyped(session', crashes', faults', committed')
<1>1. faults \in 0..MaxFaults /\ MaxFaults \in Nat
  BY BoundsAssumption DEF CountsTyped
<1>2. faults' \in 0..MaxFaults
  BY <1>1 DEF Works, Fails
<1> QED
  BY <1>2 DEF CountsTyped

\* Places from which no count goes up.
Plain == PcValues \ (Cleaning \cup {"close", "commit", "commitEnd", "provenance",
                                    "provenanceWrite", "start"})
LEMMA CallTyped ==
    ASSUME TypeInv, FilesTyped(disk', stable', ck'), Works \/ Fails,
           UNCHANGED <<session, crashes, committed>>, RamTyped(ram') /\ InRange(ram'),
           pc' \in Plain, then' \in ThenValues
    PROVE  TypeInv'
<1>1. CountsTyped(session', crashes', faults', committed')
  BY CallCounts DEF TypeInv
<1>2. PlaceTyped(pc', then') /\ ~Committing(pc') /\ ~Marking(pc') /\ ~Starting(pc', then')
  BY DEF PlaceTyped, Plain, Committing, Marking, Starting
<1> QED
  BY <1>1, <1>2 DEF TypeInv, BeforeCount

LEMMA CleaningTyped ==
    ASSUME TypeInv, FilesTyped(disk', stable', ck'), Works \/ Fails,
           UNCHANGED <<session, crashes, committed, ram>>,
           pc' \in Cleaning, then' \in {"inspect", "start", "saved", "retry"},
           then' = "start" => session < MaxSessions
    PROVE  TypeInv'
<1>1. CountsTyped(session', crashes', faults', committed')
  BY CallCounts DEF TypeInv
<1>2. PlaceTyped(pc', then') /\ ~Committing(pc') /\ ~Marking(pc')
  BY DEF PlaceTyped, PcValues, ThenValues, Cleaning, Committing, Marking
<1>3. Starting(pc', then') => session' < MaxSessions
  BY DEF Starting, Cleaning
<1> QED
  BY <1>1, <1>2, <1>3 DEF TypeInv, BeforeCount
-----------------------------------------------------------------------------
LEMMA BootCallTyped ==
    ASSUME TypeInv, UNCHANGED <<ram, session, crashes, committed, then>>, pc' \in Plain,
           Works \/ Fails, UNCHANGED store \/ FilesTyped(disk', stable', ck')
    PROVE  TypeInv'
<1>1. FilesTyped(disk', stable', ck')
  BY StoreSameTyped DEF TypeInv
<1>2. RamTyped(ram') /\ InRange(ram') /\ then' \in ThenValues
  BY DEF TypeInv, PlaceTyped
<1> QED
  BY <1>1, <1>2, CallTyped

LEMMA PlainPlaces ==
    {"primary", "restore", "backup", "choose", "truncate", "end", "endSync", "preserve",
     "promote", "promoted", "undo", "undoRestore", "inspect", "run",
     "savePreserve", "saveRename", "saveUndo", "savedBackup", "saved", "retry",
     "clearLog", "clearTmp", "clearBak", "clear0", "clear1", "clearEnd"} \subseteq Plain
BY DEF Plain, PcValues, BootSteps, SaveSteps, ClearSteps, Cleaning

LEMMA BootSimpleTyped ==
    ASSUME TypeInv, BootPrimary \/ BootRestore \/ BootBackup \/ BootPreserve \/ BootPromote
                    \/ BootUndo \/ BootUndoRestore \/ BootInspect
    PROVE  TypeInv'
<1> USE PlainPlaces, BootCallTyped DEF Keeps, Goto
<1>1. FilesTyped(disk, stable, ck) /\ {"log", "tmp", "bak"} = Paths
  BY DEF TypeInv, Paths
<1>2. CASE BootPrimary
  BY <1>1, <1>2, RemovedTyped DEF BootPrimary, BootCall, NoCall
<1>3. CASE BootRestore
  BY <1>1, <1>3, RenamedTyped DEF BootRestore, BootCall, NoCall
<1>4. CASE BootBackup
  BY <1>1, <1>4, RemovedTyped DEF BootBackup, BootCall, NoCall
<1>5. CASE BootPreserve
  BY <1>1, <1>5, MakeRoomTyped DEF BootPreserve
<1>6. CASE BootPromote
  BY <1>1, <1>6, RenamedTyped DEF BootPromote
<1>7. CASE BootUndo
  BY <1>1, <1>7, RemovedTyped DEF BootUndo, BootCall
<1>8. CASE BootUndoRestore
  BY <1>1, <1>8, RenamedTyped DEF BootUndoRestore, BootCall, NoCall
<1>9. CASE BootInspect
  BY <1>1, <1>9 DEF BootInspect, NoCall
<1> QED
  BY <1>2, <1>3, <1>4, <1>5, <1>6, <1>7, <1>8, <1>9

LEMMA BootPromotedTyped ==
    ASSUME TypeInv, BootPromoted
    PROVE  TypeInv'
<1>1. FilesTyped(disk', stable', ck')
  BY RemovedTyped, StoreSameTyped DEF BootPromoted, BootCall, NoCall, TypeInv, Paths
<1>2. /\ Works \/ Fails
      /\ UNCHANGED <<session, crashes, committed, ram>> /\ pc' = "rmTmp" /\ then' = "inspect"
  BY DEF BootPromoted, BootCall, NoCall, CleanUp
<1> QED
  BY <1>1, <1>2, CleaningTyped DEF Cleaning

LEMMA BootChooseTyped ==
    ASSUME TypeInv, BootChoose
    PROVE  TypeInv'
<1>1. /\ UNCHANGED <<disk, stable, ck, faults, ram, session, crashes, committed>> /\ Works
  BY DEF BootChoose, NoCall, Works, store
<1>2. FilesTyped(disk', stable', ck')
  BY <1>1 DEF TypeInv
<1>3. CASE pc' \in {"preserve", "truncate"} /\ then' = then
  BY <1>1, <1>2, <1>3, PlainPlaces, BootCallTyped
<1>4. CASE pc' = "provenance" /\ then' = then /\ Marks(disk, ck)
  <2>1. Marks(disk', ck')
    BY <1>1, <1>4
  <2>2. PlaceTyped(pc', then')
    BY <1>4 DEF PlaceTyped, TypeInv, PcValues, BootSteps, Cleaning
  <2>3. BeforeCount(disk', ck', ram', pc', then', session')
    BY <1>4, <2>1 DEF BeforeCount, Committing, Starting, Cleaning
  <2>4. CountsTyped(session', crashes', faults', committed')
    BY <1>1 DEF TypeInv
  <2>5. RamTyped(ram') /\ InRange(ram')
    BY <1>1 DEF TypeInv
  <2> QED
    BY <1>2, <2>2, <2>3, <2>4, <2>5 DEF TypeInv
<1>5. CASE pc' \in {"rmTmp", "rm0"} /\ then' = "inspect"
  BY <1>1, <1>2, <1>5, CleaningTyped DEF Cleaning
<1> QED
  BY <1>3, <1>4, <1>5 DEF BootChoose, Goto, CleanUp, Marks

\* The slot that is not relied on may be written: the best one stays the best.
LEMMA OtherSlotFree ==
    ASSUME NEW f, NEW c \in [0..1 -> Manifest], NEW d \in [0..1 -> Manifest], HasManifest(c, f),
           d[BestSlot(c, f)] = c[BestSlot(c, f)], d[1 - BestSlot(c, f)].kind # "valid"
    PROVE  HasManifest(d, f) /\ BestSlot(d, f) = BestSlot(c, f)
<1>1. PICK b \in 0..1 : b = BestSlot(c, f) /\ Authentic(c[b], f)
  BY BestIsAuthentic
<1>2. Authentic(d[b], f) /\ ~Authentic(d[1 - b], f)
  BY <1>1 DEF Authentic
<1>3. HasManifest(d, f)
  BY <1>2 DEF HasManifest
<1>4. CASE b = 0
  BY <1>1, <1>2, <1>3, <1>4 DEF BestSlot
<1>5. CASE b = 1
  BY <1>1, <1>2, <1>3, <1>5 DEF BestSlot
<1> QED
  BY <1>1, <1>4, <1>5

LEMMA BootProvenanceTyped ==
    ASSUME TypeInv, BootProvenance
    PROVE  TypeInv'
<1>1. /\ UNCHANGED <<ram, session, crashes, committed, then>> /\ pc = "provenance"
      /\ \/ Works /\ ManifestIs(1 - BestSlot(ck, disk.tmp), TornManifest) /\ pc' = "provenanceWrite"
         \/ Fails /\ UNCHANGED store /\ pc' = "inspect"
  BY DEF BootProvenance, Keeps, Goto
<1>2. CASE Fails /\ UNCHANGED store /\ pc' = "inspect"
  BY <1>1, <1>2, PlainPlaces, BootCallTyped
<1>3. CASE Works /\ ManifestIs(1 - BestSlot(ck, disk.tmp), TornManifest) /\ pc' = "provenanceWrite"
  <2>1. FilesTyped(disk, stable, ck) /\ Marks(disk, ck)
    BY <1>1 DEF TypeInv, BeforeCount, Marking
  <2>2. PICK b \in 0..1 : b = BestSlot(ck, disk.tmp)
    BY <2>1, BestIsAuthentic DEF Marks
  <2>3. 1 - b \in 0..1 /\ b # 1 - b
    OBVIOUS
  <2>4. ManifestIs(1 - b, TornManifest)
    BY <1>3, <2>2
  <2>5. FilesTyped(disk', stable', ck')
    BY <2>1, <2>3, <2>4, NoManifestTyped
  <2>6. disk' = disk /\ ck'[b] = ck[b] /\ ck'[1 - b] = TornManifest /\ ck \in [0..1 -> Manifest]
        /\ ck' \in [0..1 -> Manifest]
    BY <2>1, <2>3, <2>4, <2>5 DEF ManifestIs, FilesTyped
  <2>7. HasManifest(ck', disk.tmp) /\ BestSlot(ck', disk.tmp) = b
    BY <2>1, <2>2, <2>6, OtherSlotFree, NoFileFacts DEF Marks
  <2>8. Marks(disk', ck')
    BY <2>1, <2>2, <2>6, <2>7 DEF Marks
  <2>9. PlaceTyped(pc', then')
    BY <1>1, <1>3 DEF PlaceTyped, TypeInv, PcValues, BootSteps, Cleaning
  <2>10. BeforeCount(disk', ck', ram', pc', then', session')
    BY <1>3, <2>8 DEF BeforeCount, Committing, Starting, Cleaning
  <2>11. CountsTyped(session', crashes', faults', committed')
    BY <1>1, <1>3 DEF TypeInv, Works
  <2>12. RamTyped(ram') /\ InRange(ram')
    BY <1>1 DEF TypeInv
  <2> QED
    BY <2>5, <2>9, <2>10, <2>11, <2>12 DEF TypeInv
<1> QED
  BY <1>1, <1>2, <1>3

LEMMA BootProvenanceWriteTyped ==
    ASSUME TypeInv, BootProvenanceWrite
    PROVE  TypeInv'
<1>1. /\ UNCHANGED <<ram, session, crashes, committed, then>> /\ pc = "provenanceWrite"
      /\ \/ Works /\ pc' = "truncate"
            /\ ManifestIs(1 - BestSlot(ck, disk.tmp),
                          [ck[BestSlot(ck, disk.tmp)] EXCEPT !.gen = @ + 1, !.reset = TRUE])
         \/ Fails /\ UNCHANGED store /\ pc' = "inspect"
  BY DEF BootProvenanceWrite, Keeps, Goto
<1>2. CASE Fails /\ UNCHANGED store /\ pc' = "inspect"
  BY <1>1, <1>2, PlainPlaces, BootCallTyped
<1>3. CASE Works /\ pc' = "truncate"
           /\ ManifestIs(1 - BestSlot(ck, disk.tmp),
                         [ck[BestSlot(ck, disk.tmp)] EXCEPT !.gen = @ + 1, !.reset = TRUE])
  <2>1. FilesTyped(disk, stable, ck) /\ Marks(disk, ck)
    BY <1>1 DEF TypeInv, BeforeCount, Marking
  <2>2. PICK b \in 0..1 : b = BestSlot(ck, disk.tmp)
    BY <2>1, BestIsAuthentic DEF Marks
  <2>3. 1 - b \in 0..1 /\ ck[b] \in Manifest
    BY <2>1 DEF FilesTyped
  <2>4. PICK n \in Nat : n = ck[b].gen /\ n <= MaxLength
    BY <2>1, <2>2, <2>3, BoundsAssumption DEF Marks, FilesTyped, MarkedOnce, Manifest
  <2>5. n + 1 \in 0..MaxLength + 1
    BY <2>4, BoundsAssumption
  <2>6. PICK m : m = [ck[b] EXCEPT !.gen = n + 1, !.reset = TRUE]
    OBVIOUS
  <2>7. m \in Manifest /\ m.reset
    BY <2>3, <2>5, <2>6 DEF Manifest
  <2>8. ManifestIs(1 - b, m)
    BY <1>3, <2>2, <2>4, <2>6
  <2>9. FilesTyped(disk', stable', ck')
    BY <2>1, <2>3, <2>7, <2>8, ManifestTyped
  <2> QED
    BY <1>1, <1>3, <2>9, PlainPlaces, BootCallTyped
<1> QED
  BY <1>1, <1>2, <1>3

\* Its end is all that a write changes, or its length and its end.
LEMMA EndTyped ==
    ASSUME FilesTyped(disk, stable, ck), NEW tail \in Ends \cup {"none", "torn"}, UNCHANGED ck,
           disk' = [disk EXCEPT !.tmp.tail = tail], stable' \in {stable, disk'.tmp}
    PROVE  FilesTyped(disk', stable', ck')
<1>1. PICK f : f = [disk.tmp EXCEPT !.tail = tail]
  OBVIOUS
<1>2. f \in File /\ disk' = [disk EXCEPT !.tmp = f] /\ disk'.tmp = f
  BY <1>1 DEF FilesTyped, File, Paths
<1>3. stable' \in File
  BY <1>2 DEF FilesTyped
<1> QED
  BY <1>2, <1>3, TemporaryTyped

LEMMA BootEndTyped ==
    ASSUME TypeInv, BootEnd \/ BootEndSync
    PROVE  TypeInv'
<1> USE PlainPlaces, BootCallTyped DEF Keeps, Goto
<1>1. FilesTyped(disk, stable, ck) /\ {"recovered", "torn"} \subseteq Ends \cup {"none", "torn"}
  BY DEF TypeInv, Ends
<1>2. CASE BootEnd
  BY <1>1, <1>2, EndTyped DEF BootEnd
<1>3. CASE BootEndSync
  BY <1>1, <1>3, EndTyped, SyncedTyped DEF BootEndSync
<1> QED
  BY <1>2, <1>3

LEMMA BootTruncateTyped ==
    ASSUME TypeInv, BootTruncate
    PROVE  TypeInv'
<1>1. /\ UNCHANGED <<ram, session, crashes, committed, then>>
      /\ \/ /\ Works /\ pc' = "end" /\ UNCHANGED ck
            /\ disk' = [disk EXCEPT !.tmp.len = ck[BestSlot(ck, disk.tmp)].len, !.tmp.tail = "none"]
            /\ stable' = disk'.tmp
         \/ Fails /\ UNCHANGED store /\ pc' = "inspect"
  BY DEF BootTruncate, Keeps, Goto
<1>2. CASE Fails /\ UNCHANGED store /\ pc' = "inspect"
  BY <1>1, <1>2, PlainPlaces, BootCallTyped
<1>3. CASE /\ Works /\ pc' = "end" /\ UNCHANGED ck
           /\ disk' = [disk EXCEPT !.tmp.len = ck[BestSlot(ck, disk.tmp)].len, !.tmp.tail = "none"]
           /\ stable' = disk'.tmp
  <2>1. FilesTyped(disk, stable, ck)
    BY DEF TypeInv
  <2>2. BestSlot(ck, disk.tmp) \in 0..1
    BY DEF BestSlot
  <2>3. PICK l \in 0..MaxLength : l = ck[BestSlot(ck, disk.tmp)].len
    BY <2>1, <2>2 DEF FilesTyped, Manifest
  <2>4. PICK f : f = [disk.tmp EXCEPT !.len = l, !.tail = "none"]
    OBVIOUS
  <2>5a. f \in File
    BY <2>1, <2>4 DEF FilesTyped, File, Paths
  <2>5b. disk' = [disk EXCEPT !.tmp = f]
    BY <1>3, <2>1, <2>3, <2>4 DEF FilesTyped, Paths
  <2>5c. disk'.tmp = f
    BY <2>1, <2>5b DEF FilesTyped, Paths
  <2>5. f \in File /\ disk' = [disk EXCEPT !.tmp = f] /\ disk'.tmp = f
    BY <2>5a, <2>5b, <2>5c
  <2>6. FilesTyped(disk', stable', ck')
    BY <1>3, <2>1, <2>5, TemporaryTyped
  <2> QED
    BY <1>1, <1>3, <2>6, PlainPlaces, BootCallTyped
<1> QED
  BY <1>1, <1>2, <1>3

LEMMA BootTyped ==
    ASSUME TypeInv, Boot
    PROVE  TypeInv'
BY BootSimpleTyped, BootPromotedTyped, BootChooseTyped, BootProvenanceTyped,
   BootProvenanceWriteTyped, BootTruncateTyped, BootEndTyped
DEF Boot
-----------------------------------------------------------------------------
LEMMA CleanUpTyped ==
    ASSUME TypeInv, CleanUpStep
    PROVE  TypeInv'
<1>1. FilesTyped(disk, stable, ck) /\ PlaceTyped(pc, then) /\ 0 \in 0..1 /\ 1 \in 0..1 /\ "tmp" \in Paths
  BY DEF TypeInv, Paths
<1>2. FilesTyped(disk', stable', ck')
  BY <1>1, RemovedTyped, NoManifestTyped, StoreSameTyped DEF CleanUpStep
<1>3. /\ Works \/ Fails
      /\ UNCHANGED <<session, crashes, committed, ram, then>> /\ pc \in Cleaning
      /\ pc' = CASE pc = "rmTmp" -> "rm0" [] pc = "rm0" -> "rm1" [] OTHER -> then
  BY DEF CleanUpStep, Keeps, Goto
<1>4. then \in {"inspect", "start", "saved", "retry"}
  BY <1>1, <1>3 DEF PlaceTyped
<1>5. then = "start" => session < MaxSessions
  BY <1>3 DEF TypeInv, BeforeCount, Starting
<1>6. CASE pc \in {"rmTmp", "rm0"}
  BY <1>2, <1>3, <1>4, <1>5, <1>6, CleaningTyped DEF Cleaning
<1>7. CASE pc = "rm1"
  <2>1. pc' = then
    BY <1>3, <1>7
  <2>2. CASE then # "start"
    BY <1>2, <1>3, <1>4, <2>1, <2>2, PlainPlaces, BootCallTyped
  <2>3. CASE then = "start"
    <3>1. PlaceTyped(pc', then')
      BY <1>1, <1>3, <2>1, <2>3 DEF PlaceTyped, PcValues, Cleaning
    <3>2. BeforeCount(disk', ck', ram', pc', then', session')
      BY <1>3, <1>5, <2>1, <2>3 DEF BeforeCount, Committing, Starting, Marking
    <3>3. CountsTyped(session', crashes', faults', committed')
      BY <1>3, CallCounts DEF TypeInv
    <3>4. RamTyped(ram') /\ InRange(ram')
      BY <1>3 DEF TypeInv
    <3> QED
      BY <1>2, <3>1, <3>2, <3>3, <3>4 DEF TypeInv
  <2> QED
    BY <2>2, <2>3
<1> QED
  BY <1>3, <1>6, <1>7 DEF Cleaning

\* A step of the recorder in memory, at the same place or at another plain one.
LEMMA RamStepTyped ==
    ASSUME TypeInv, UNCHANGED <<session, crashes, committed>>, Works \/ Fails,
           FilesTyped(disk', stable', ck'), RamTyped(ram') /\ InRange(ram'),
           then' \in ThenValues, pc \in Plain, pc' = pc
    PROVE  TypeInv'
BY CallTyped

LEMMA RunIsPlain == "run" \in Plain
BY PlainPlaces

LEMMA StartTyped ==
    ASSUME TypeInv, Start \/ Retry
    PROVE  TypeInv'
<1>1. /\ UNCHANGED <<disk, stable, ck, session, crashes, committed, ram>> /\ Works
      /\ pc' \in {"rm0", "rmTmp"} /\ then' \in {"start", "retry"}
      /\ then' = "start" => session < MaxSessions
  BY DEF Start, Retry, Quiet, CleanUp, Works, store
<1>2. FilesTyped(disk', stable', ck')
  BY <1>1 DEF TypeInv
<1> QED
  BY <1>1, <1>2, CleaningTyped DEF Cleaning

LEMMA StartedTyped ==
    ASSUME TypeInv, Started
    PROVE  TypeInv'
<1>1. /\ pc = "start" /\ UNCHANGED <<disk, stable, ck, faults, crashes, committed, then>> /\ pc' = "run"
      /\ \/ UNCHANGED <<ram, session>>
         \/ \E durable \in BOOLEAN :
              /\ session' = session + 1
              /\ ram' = [IdleRam EXCEPT !.state = "recording", !.sid = session + 1,
                                        !.size = 1, !.durable = durable]
  BY DEF Started, Quiet, Goto, store
<1>2. FilesTyped(disk', stable', ck')
  BY <1>1 DEF TypeInv
<1>3. PlaceTyped(pc', then') /\ BeforeCount(disk', ck', ram', pc', then', session')
  BY <1>1 DEF TypeInv, PlaceTyped, PcValues, Cleaning, BeforeCount, Committing, Starting, Marking
<1>4. /\ session < MaxSessions /\ CountsTyped(session, crashes, faults, committed)
      /\ RamTyped(ram) /\ InRange(ram)
  BY <1>1 DEF TypeInv, BeforeCount, Starting
<1>5. session + 1 \in 0..MaxSessions /\ 1 \in 0..MaxLength
  BY <1>4, BoundsAssumption DEF CountsTyped
<1>6. CountsTyped(session', crashes', faults', committed')
  BY <1>1, <1>4, <1>5 DEF CountsTyped
<1>7. RamTyped(ram') /\ InRange(ram')
  <2>1. CASE UNCHANGED <<ram, session>>
    BY <1>4, <2>1
  <2>2. ASSUME NEW durable \in BOOLEAN,
               ram' = [IdleRam EXCEPT !.state = "recording", !.sid = session + 1,
                                      !.size = 1, !.durable = durable]
        PROVE  RamTyped(ram') /\ InRange(ram')
    <3>1. RamTyped(ram')
      BY <1>5, <2>2, IdleIsTyped DEF RamTyped
    <3>2. ram'.off = 0 /\ ram'.target = 0 /\ ram'.saveOff = 0 /\ ram'.gen = 0 /\ ram'.size = 1
      BY <2>2 DEF IdleRam
    <3> QED
      BY <3>1, <3>2 DEF InRange
  <2> QED
    BY <1>1, <2>1, <2>2
<1> QED
  BY <1>2, <1>3, <1>6, <1>7 DEF TypeInv

\* The members that no step but Started lowers or raises out of their bounds.
LEMMA RamMembers ==
    ASSUME RamTyped(ram), InRange(ram)
    PROVE  \E off \in 0..MaxLength, size \in 0..MaxLength, target \in 0..MaxLength,
              gen \in 0..MaxLength, saveOff \in 0..MaxLength + 1 :
             /\ ram.off = off /\ ram.size = size /\ ram.target = target /\ ram.gen = gen
             /\ ram.saveOff = saveOff
             /\ off <= size /\ target <= size /\ saveOff <= size + 1 /\ gen <= off
BY DEF RamTyped, InRange

LEMMA MemoryTyped ==
    ASSUME TypeInv, Append \/ Stop \/ Finalize
    PROVE  TypeInv'
<1>1. /\ pc = "run" /\ pc' = pc /\ then' = then /\ UNCHANGED <<session, crashes, committed>>
      /\ Works /\ FilesTyped(disk', stable', ck') /\ then \in ThenValues
  <2>1. FilesTyped(disk, stable, ck) /\ then \in ThenValues
    BY DEF TypeInv, PlaceTyped
  <2>2. CASE Append \/ Finalize
    BY <2>1, <2>2, StoreSameTyped DEF Append, Finalize, Running, Quiet, RamOnly, Works
  <2>3. CASE Stop
    BY <2>1, <2>3, StoreSameTyped, SyncedTyped DEF Stop, Running, RamOnly
  <2> QED
    BY <2>1, <2>2, <2>3
<1>2. RamTyped(ram) /\ InRange(ram)
  BY DEF TypeInv
<1>3. PICK size \in 0..MaxLength : size = ram.size
  BY <1>2 DEF RamTyped
<1>4. CASE Append
  <2>1. size + 1 \in 0..MaxLength /\ ram' = [ram EXCEPT !.size = size + 1]
    BY <1>3, <1>4, BoundsAssumption DEF Append
  <2>2. RamTyped(ram')
    BY <1>2, <2>1 DEF RamTyped
  <2>3. /\ ram'.off = ram.off /\ ram'.target = ram.target /\ ram'.saveOff = ram.saveOff
        /\ ram'.gen = ram.gen /\ ram'.size = size + 1
    BY <1>2, <2>1 DEF RamTyped
  <2>4. InRange(ram')
    BY <1>2, <1>3, <2>3, RamMembers DEF InRange
  <2> QED
    BY <1>1, <2>2, <2>4, RunIsPlain, CallTyped
<1>5. CASE Stop \/ Finalize
  <2>1. PICK state \in {"stopping", "saving"} : ram' = [ram EXCEPT !.state = state]
    BY <1>5 DEF Stop, Finalize
  <2>2. RamTyped(ram') /\ InRange(ram')
    BY <1>2, <2>1 DEF RamTyped, InRange
  <2> QED
    BY <1>1, <2>2, RunIsPlain, CallTyped
<1> QED
  BY <1>4, <1>5
-----------------------------------------------------------------------------
\* A write that failed: the file is as it was, or ends inside a record.
TornWrite == disk' \in {disk, [disk EXCEPT !.tmp.sid = ram.sid, !.tmp.tail = "torn"]}

LEMMA TornWriteTyped ==
    ASSUME TypeInv, TornWrite, UNCHANGED <<stable, ck>>
    PROVE  FilesTyped(disk', stable', ck')
<1>1. FilesTyped(disk, stable, ck) /\ ram.sid \in 0..MaxSessions
  BY DEF TypeInv, RamTyped
<1>2. CASE disk' = disk
  BY <1>1, <1>2 DEF FilesTyped
<1>3. CASE disk' = [disk EXCEPT !.tmp.sid = ram.sid, !.tmp.tail = "torn"]
  <2>1. PICK f : f = [disk.tmp EXCEPT !.sid = ram.sid, !.tail = "torn"]
    OBVIOUS
  <2>2. f \in File
    BY <1>1, <2>1 DEF FilesTyped, File, Paths
  <2>3. disk' = [disk EXCEPT !.tmp = f]
    BY <1>1, <1>3, <2>1 DEF FilesTyped, Paths
  <2> QED
    BY <1>1, <2>2, <2>3, TemporaryTyped DEF FilesTyped
<1> QED
  BY <1>2, <1>3 DEF TornWrite

LEMMA CheckpointChunkTyped ==
    ASSUME TypeInv, CheckpointChunk
    PROVE  TypeInv'
<1>1. RamTyped(ram) /\ InRange(ram) /\ FilesTyped(disk, stable, ck) /\ PlaceTyped(pc, then)
      /\ pc = "run" /\ ram.size > ram.off /\ UNCHANGED <<stable, ck, session, crashes, committed>>
  BY DEF TypeInv, CheckpointChunk, CheckpointDue, Running
<1>2. PICK target \in {ram.target, ram.size} :
        \/ /\ Works
           /\ disk' = [disk EXCEPT !.tmp = [sid |-> ram.sid, len |-> ram.off + 1, tail |-> "none"]]
           /\ ram' = [ram EXCEPT !.target = target, !.off = @ + 1]
           /\ pc' \in {"run", "close"} /\ then' = then
        \/ /\ Fails /\ TornWrite
           /\ ram' = [ram EXCEPT !.ckFailed = TRUE]
           /\ UNCHANGED <<pc, then>>
  BY DEF CheckpointChunk, Goto, TornWrite
<1>3. CASE /\ Fails /\ TornWrite
           /\ ram' = [ram EXCEPT !.ckFailed = TRUE]
           /\ UNCHANGED <<pc, then>>
  <2>1. RamTyped(ram') /\ InRange(ram')
    BY <1>1, <1>3 DEF RamTyped, InRange
  <2>2. FilesTyped(disk', stable', ck')
    BY <1>1, <1>3, TornWriteTyped
  <2> QED
    BY <1>1, <1>3, <2>1, <2>2, RunIsPlain, CallTyped DEF PlaceTyped
<1>4. CASE /\ Works
           /\ disk' = [disk EXCEPT !.tmp = [sid |-> ram.sid, len |-> ram.off + 1, tail |-> "none"]]
           /\ ram' = [ram EXCEPT !.target = target, !.off = @ + 1]
           /\ pc' \in {"run", "close"} /\ then' = then
  <2>1. PICK off \in 0..MaxLength, size \in 0..MaxLength, goal \in 0..MaxLength, gen \in 0..MaxLength,
             saveOff \in 0..MaxLength + 1 :
          /\ ram.off = off /\ ram.size = size /\ ram.target = goal /\ ram.gen = gen
          /\ ram.saveOff = saveOff
          /\ off <= size /\ goal <= size /\ saveOff <= size + 1 /\ gen <= off
    BY <1>1, RamMembers
  <2>2. off + 1 \in 0..MaxLength /\ off + 1 <= size /\ gen < off + 1
    BY <1>1, <2>1, BoundsAssumption
  <2>3. ram' = [ram EXCEPT !.target = target, !.off = off + 1] /\ target \in 0..MaxLength
        /\ target <= size
    BY <1>4, <2>1
  <2>4. RamTyped(ram')
    BY <1>1, <2>2, <2>3 DEF RamTyped
  <2>5. /\ ram'.off = off + 1 /\ ram'.target = target /\ ram'.size = size /\ ram'.saveOff = saveOff
        /\ ram'.gen = gen
    BY <1>1, <2>1, <2>3 DEF RamTyped
  <2>6. InRange(ram') /\ ram'.gen < ram'.off
    BY <2>1, <2>2, <2>3, <2>5 DEF InRange
  <2>7. [sid |-> ram.sid, len |-> off + 1, tail |-> "none"] \in File
    BY <1>1, <2>2 DEF File, RamTyped
  <2>8. FilesTyped(disk', stable', ck')
    BY <1>1, <1>4, <2>1, <2>7, TemporaryTyped DEF FilesTyped
  <2>9. PlaceTyped(pc', then')
    BY <1>1, <1>4 DEF PlaceTyped, PcValues, Cleaning
  <2>10. BeforeCount(disk', ck', ram', pc', then', session')
    BY <1>4, <2>6 DEF BeforeCount, Starting, Cleaning, Marking
  <2>11. CountsTyped(session', crashes', faults', committed')
    BY <1>1, <1>4, CallCounts DEF TypeInv
  <2> QED
    BY <2>4, <2>6, <2>8, <2>9, <2>10, <2>11 DEF TypeInv
<1> QED
  BY <1>2, <1>3, <1>4

\* Between two calls of a commit.
LEMMA CommittingTyped ==
    ASSUME TypeInv, Works, FilesTyped(disk', stable', ck'),
           UNCHANGED <<ram, session, crashes, committed, then>>,
           Committing(pc), Committing(pc')
    PROVE  TypeInv'
<1>1. PlaceTyped(pc', then')
  BY DEF TypeInv, PlaceTyped, PcValues, Committing, Cleaning
<1>2. BeforeCount(disk', ck', ram', pc', then', session')
  BY DEF TypeInv, BeforeCount, Committing, Starting, Cleaning, Marking
<1>3. CountsTyped(session', crashes', faults', committed')
  BY CallCounts DEF TypeInv
<1> QED
  BY <1>1, <1>2, <1>3 DEF TypeInv

\* The generation goes up by one, and nothing else of those that count.
LEMMA GenerationTyped ==
    ASSUME RamTyped(ram), InRange(ram), ram.gen < ram.off,
           NEW slot \in 0..1, NEW failed \in BOOLEAN, NEW target \in {0, ram.target},
           ram' = [ram EXCEPT !.gen = @ + 1, !.slot = slot, !.target = target, !.ckFailed = failed]
    PROVE  RamTyped(ram') /\ InRange(ram')
<1>1. PICK off \in 0..MaxLength, size \in 0..MaxLength, goal \in 0..MaxLength, gen \in 0..MaxLength,
           saveOff \in 0..MaxLength + 1 :
        /\ ram.off = off /\ ram.size = size /\ ram.target = goal /\ ram.gen = gen
        /\ ram.saveOff = saveOff
        /\ off <= size /\ goal <= size /\ saveOff <= size + 1 /\ gen <= off
  BY RamMembers
<1>2. gen + 1 \in 0..MaxLength /\ gen + 1 <= off /\ target \in 0..MaxLength /\ target <= size
  BY <1>1, BoundsAssumption
<1>3. ram' = [ram EXCEPT !.gen = gen + 1, !.slot = slot, !.target = target, !.ckFailed = failed]
  BY <1>1
<1>4. RamTyped(ram')
  BY <1>2, <1>3, ZenonT(60) DEF RamTyped
<1>5. /\ ram'.off = off /\ ram'.target = target /\ ram'.size = size /\ ram'.saveOff = saveOff
      /\ ram'.gen = gen + 1
  BY <1>1, <1>3 DEF RamTyped
<1> QED
  BY <1>1, <1>2, <1>4, <1>5 DEF InRange

LEMMA CheckpointFailedTyped ==
    ASSUME TypeInv, Committing(pc), CheckpointFailed
    PROVE  TypeInv'
<1>1. /\ Fails /\ UNCHANGED <<store, session, crashes, committed, then>> /\ pc' = "run"
      /\ ram' = [ram EXCEPT !.ckFailed = TRUE, !.gen = @ + 1]
  BY DEF CheckpointFailed, Goto
<1>2. RamTyped(ram) /\ InRange(ram) /\ ram.gen < ram.off /\ then \in ThenValues
  BY DEF TypeInv, BeforeCount, PlaceTyped
<1>3. ram' = [ram EXCEPT !.gen = @ + 1, !.slot = ram.slot, !.target = ram.target, !.ckFailed = TRUE]
      /\ ram.slot \in 0..1
  BY <1>1, <1>2 DEF RamTyped
<1>4. RamTyped(ram') /\ InRange(ram')
  BY <1>2, <1>3, GenerationTyped
<1>5. FilesTyped(disk', stable', ck')
  BY <1>1, StoreSameTyped DEF TypeInv
<1> QED
  BY <1>1, <1>2, <1>4, <1>5, RunIsPlain, CallTyped

LEMMA CheckpointCommitTyped ==
    ASSUME TypeInv, CheckpointClose \/ CheckpointCommit
    PROVE  TypeInv'
<1>1. FilesTyped(disk, stable, ck) /\ ram.slot \in 0..1
  BY DEF TypeInv, RamTyped
<1>2. CASE CheckpointClose
  BY <1>1, <1>2, SyncedTyped, CommittingTyped DEF CheckpointClose, Keeps, Goto, Committing
<1>3. CASE CheckpointCommit
  <2>1. pc = "commit"
    BY <1>3 DEF CheckpointCommit
  <2>2. CASE Works /\ ManifestIs(ram.slot, TornManifest) /\ Keeps("commitEnd")
    BY <1>1, <2>1, <2>2, NoManifestTyped, CommittingTyped DEF Keeps, Goto, Committing
  <2>3. CASE CheckpointFailed
    BY <2>1, <2>3, CheckpointFailedTyped DEF Committing
  <2> QED
    BY <1>3, <2>2, <2>3 DEF CheckpointCommit
<1> QED
  BY <1>2, <1>3

LEMMA CheckpointCommittedTyped ==
    ASSUME TypeInv, CheckpointCommitted
    PROVE  TypeInv'
<1>1. pc = "commitEnd" /\ Committing(pc)
  BY DEF CheckpointCommitted, Committing
<1>2. CASE CheckpointFailed
  BY <1>1, <1>2, CheckpointFailedTyped
<1>3. CASE ~CheckpointFailed
  <2>1. /\ Works
        /\ ManifestIs(ram.slot, [kind |-> "valid", sid |-> ram.sid, len |-> ram.off,
                                 gen |-> ram.gen + 1, reset |-> FALSE])
        /\ ram' = [ram EXCEPT !.gen = @ + 1, !.slot = 1 - @, !.target = 0]
        /\ committed' = [sid |-> ram.sid, len |-> ram.off]
        /\ UNCHANGED <<session, crashes, then>> /\ pc' = "run"
    BY <1>3 DEF CheckpointCommitted, Goto
  <2>2. /\ RamTyped(ram) /\ InRange(ram) /\ ram.gen < ram.off /\ FilesTyped(disk, stable, ck)
        /\ then \in ThenValues /\ CountsTyped(session, crashes, faults, committed)
    BY <1>1 DEF TypeInv, BeforeCount, PlaceTyped
  <2>3. PICK gen \in 0..MaxLength, off \in 0..MaxLength, slot \in 0..1, sid \in 0..MaxSessions :
          gen = ram.gen /\ off = ram.off /\ slot = ram.slot /\ sid = ram.sid
    BY <2>2 DEF RamTyped
  <2>4. gen + 1 \in 0..MaxLength + 1 /\ gen + 1 <= MaxLength /\ 1 - slot \in 0..1
    BY <2>2, <2>3, BoundsAssumption
  <2>5. PICK m : m = [kind |-> "valid", sid |-> sid, len |-> off, gen |-> gen + 1, reset |-> FALSE]
    OBVIOUS
  <2>6. m \in Manifest /\ m.gen <= MaxLength
    BY <2>3, <2>4, <2>5 DEF Manifest
  <2>7. ManifestIs(slot, m)
    BY <2>1, <2>3, <2>5
  <2>8. FilesTyped(disk', stable', ck')
    BY <2>2, <2>3, <2>6, <2>7, ManifestTyped
  <2>9. ram' = [ram EXCEPT !.gen = @ + 1, !.slot = 1 - slot, !.target = 0, !.ckFailed = ram.ckFailed]
        /\ ram.ckFailed \in BOOLEAN
    BY <2>1, <2>2, <2>3 DEF RamTyped
  <2>10. RamTyped(ram') /\ InRange(ram')
    BY <2>2, <2>4, <2>9, GenerationTyped
  <2>11. CountsTyped(session', crashes', faults', committed')
    BY <2>1, <2>2, <2>3 DEF CountsTyped, Works
  <2>12. PlaceTyped(pc', then')
    BY <2>1, <2>2 DEF PlaceTyped, PcValues, Cleaning
  <2>13. BeforeCount(disk', ck', ram', pc', then', session')
    BY <2>1 DEF BeforeCount, Committing, Starting, Cleaning, Marking
  <2> QED
    BY <2>8, <2>10, <2>11, <2>12, <2>13 DEF TypeInv
<1> QED
  BY <1>2, <1>3
-----------------------------------------------------------------------------
LEMMA SaveFailedTyped ==
    ASSUME TypeInv, Works \/ Fails, FailSave, FilesTyped(disk', stable', ck')
    PROVE  TypeInv'
<1>1. /\ ram' = [ram EXCEPT !.state = "failed", !.open = FALSE]
      /\ UNCHANGED <<session, crashes, committed, then>> /\ pc' = "run"
  BY DEF FailSave, Goto
<1>2. RamTyped(ram) /\ InRange(ram) /\ then \in ThenValues
  BY DEF TypeInv, PlaceTyped
<1>3. RamTyped(ram') /\ InRange(ram')
  BY <1>1, <1>2 DEF RamTyped, InRange
<1> QED
  BY <1>1, <1>2, <1>3, RunIsPlain, CallTyped

LEMMA SaveOpenTyped ==
    ASSUME TypeInv, SaveOpen
    PROVE  TypeInv'
<1>1. /\ FilesTyped(disk, stable, ck) /\ RamTyped(ram) /\ InRange(ram) /\ then \in ThenValues
      /\ pc = "run" /\ MaxLength \in Nat /\ "tmp" \in Paths
  BY BoundsAssumption DEF TypeInv, PlaceTyped, SaveOpen, Running, Paths
<1>2. ASSUME NEW offset \in {0, ram.off}, SaveFrom(offset), Works \/ Fails,
             FilesTyped(disk', stable', ck')
      PROVE  TypeInv'
  <2>1. ram' = [ram EXCEPT !.open = TRUE, !.saveOff = offset]
        /\ UNCHANGED <<pc, then, session, crashes, committed>>
    BY <1>2 DEF SaveFrom, RamOnly
  <2>2. offset \in 0..MaxLength + 1 /\ offset <= ram.size + 1
    BY <1>1, RamMembers
  <2>3. RamTyped(ram')
    BY <1>1, <2>1, <2>2 DEF RamTyped
  <2>4. /\ ram'.off = ram.off /\ ram'.target = ram.target /\ ram'.size = ram.size
        /\ ram'.saveOff = offset /\ ram'.gen = ram.gen
    BY <1>1, <2>1 DEF RamTyped
  <2>5. InRange(ram')
    BY <1>1, <2>2, <2>4 DEF InRange
  <2> QED
    BY <1>1, <1>2, <2>1, <2>3, <2>5, RunIsPlain, CallTyped
<1>3. CASE Resumable /\ Works /\ UNCHANGED store /\ SaveFrom(ram.off)
  BY <1>1, <1>2, <1>3, StoreSameTyped
<1>4. CASE (IF Resumable THEN Fails ELSE Works) /\ Removed("tmp") /\ SaveFrom(0)
  BY <1>1, <1>2, <1>4, RemovedTyped
<1>5. CASE ~Resumable /\ Fails /\ Removed("tmp") /\ FailSave
  BY <1>1, <1>5, RemovedTyped, SaveFailedTyped
<1> QED
  BY <1>3, <1>4, <1>5 DEF SaveOpen

LEMMA SaveChunkTyped ==
    ASSUME TypeInv, SaveChunk
    PROVE  TypeInv'
<1>1. /\ FilesTyped(disk, stable, ck) /\ RamTyped(ram) /\ InRange(ram) /\ then \in ThenValues
      /\ pc = "run" /\ ram.saveOff <= ram.size /\ UNCHANGED <<stable, ck>>
  BY DEF TypeInv, PlaceTyped, SaveChunk, Running
<1>2. CASE Fails /\ FailSave /\ TornWrite
  BY <1>1, <1>2, SaveFailedTyped, TornWriteTyped
<1>3. CASE /\ Works /\ RamOnly
           /\ disk' = [disk EXCEPT !.tmp =
                IF ram.saveOff = ram.size
                THEN [sid |-> ram.sid, len |-> ram.size, tail |-> "full"]
                ELSE [sid |-> ram.sid, len |-> ram.saveOff + 1, tail |-> "none"]]
           /\ ram' = [ram EXCEPT !.saveOff = @ + 1]
  <2>1. PICK off \in 0..MaxLength, size \in 0..MaxLength, goal \in 0..MaxLength, gen \in 0..MaxLength,
             saveOff \in 0..MaxLength + 1 :
          /\ ram.off = off /\ ram.size = size /\ ram.target = goal /\ ram.gen = gen
          /\ ram.saveOff = saveOff
          /\ off <= size /\ goal <= size /\ saveOff <= size + 1 /\ gen <= off
    BY <1>1, RamMembers
  <2>2. /\ saveOff + 1 \in 0..MaxLength + 1 /\ saveOff + 1 <= size + 1
        /\ saveOff # size => saveOff + 1 \in 0..MaxLength
    BY <1>1, <2>1, BoundsAssumption
  <2>3. ram' = [ram EXCEPT !.saveOff = saveOff + 1]
    BY <1>3, <2>1
  <2>4. RamTyped(ram')
    BY <1>1, <2>2, <2>3 DEF RamTyped
  <2>5. /\ ram'.off = off /\ ram'.target = goal /\ ram'.size = size /\ ram'.saveOff = saveOff + 1
        /\ ram'.gen = gen
    BY <1>1, <2>1, <2>3 DEF RamTyped
  <2>6. InRange(ram')
    BY <2>1, <2>2, <2>5 DEF InRange
  <2>7. PICK f : f = IF saveOff = size THEN [sid |-> ram.sid, len |-> size, tail |-> "full"]
                     ELSE [sid |-> ram.sid, len |-> saveOff + 1, tail |-> "none"]
    OBVIOUS
  <2>8. f \in File
    BY <1>1, <2>1, <2>2, <2>7 DEF File, RamTyped, Ends
  <2>9. disk' = [disk EXCEPT !.tmp = f]
    BY <1>3, <2>1, <2>7
  <2>10. FilesTyped(disk', stable', ck')
    BY <1>1, <2>8, <2>9, TemporaryTyped DEF FilesTyped
  <2> QED
    BY <1>1, <1>3, <2>4, <2>6, <2>10, RunIsPlain, CallTyped DEF RamOnly
<1> QED
  BY <1>2, <1>3 DEF SaveChunk, TornWrite

LEMMA SaveCloseTyped ==
    ASSUME TypeInv, SaveClose
    PROVE  TypeInv'
<1>1. FilesTyped(disk, stable, ck) /\ RamTyped(ram) /\ InRange(ram) /\ then \in ThenValues
  BY DEF TypeInv, PlaceTyped
<1>2. CASE /\ Fails /\ FailSave
           /\ disk' = [disk EXCEPT !.tmp.tail = "torn"]
           /\ UNCHANGED <<stable, ck>>
  BY <1>1, <1>2, EndTyped, SaveFailedTyped
<1>3. CASE /\ Works /\ Synced
           /\ ram' = [ram EXCEPT !.open = FALSE]
           /\ UNCHANGED <<session, crashes, committed>>
           /\ Goto("savePreserve")
  <2>1. RamTyped(ram') /\ InRange(ram')
    BY <1>1, <1>3 DEF RamTyped, InRange
  <2> QED
    BY <1>1, <1>3, <2>1, SyncedTyped, PlainPlaces, CallTyped DEF Goto
<1> QED
  BY <1>2, <1>3 DEF SaveClose

LEMMA SavePromotionTyped ==
    ASSUME TypeInv, SavePreserve \/ SaveRename \/ SaveUndo \/ SavedBackup
    PROVE  TypeInv'
<1>1. FilesTyped(disk, stable, ck) /\ {"log", "tmp", "bak"} = Paths
  BY DEF TypeInv, Paths
<1>2. CASE SavePreserve
  <2>1. CASE Works /\ MakeRoom /\ Keeps("saveRename")
    BY <1>1, <2>1, MakeRoomTyped, PlainPlaces, BootCallTyped DEF Keeps, Goto
  <2>2. CASE Fails /\ UNCHANGED store /\ FailSave
    BY <1>1, <2>2, StoreSameTyped, SaveFailedTyped
  <2> QED
    BY <1>2, <2>1, <2>2 DEF SavePreserve
<1>3. CASE SaveRename
  BY <1>1, <1>3, RenamedTyped, PlainPlaces, BootCallTyped DEF SaveRename, Keeps, Goto
<1>4. CASE SaveUndo
  <2>1. FilesTyped(disk', stable', ck')
    BY <1>1, <1>4, RenamedTyped, StoreSameTyped DEF SaveUndo
  <2> QED
    BY <1>4, <2>1, SaveFailedTyped DEF SaveUndo
<1>5. CASE SavedBackup
  <2>1. FilesTyped(disk', stable', ck')
    BY <1>1, <1>5, RemovedTyped, StoreSameTyped DEF SavedBackup
  <2> QED
    BY <1>5, <2>1, CleaningTyped DEF SavedBackup, CleanUp, Cleaning
<1> QED
  BY <1>2, <1>3, <1>4, <1>5

LEMMA SaveEndTyped ==
    ASSUME TypeInv, Saved \/ Retried
    PROVE  TypeInv'
<1>1. /\ RamTyped(ram) /\ InRange(ram) /\ then \in ThenValues
      /\ Works /\ UNCHANGED <<store, session, crashes, committed, then>> /\ pc' = "run"
  BY DEF TypeInv, PlaceTyped, Saved, Retried, Quiet, Works, Goto
<1>2. FilesTyped(disk', stable', ck')
  BY <1>1, StoreSameTyped DEF TypeInv
<1>3. RamTyped(ram') /\ InRange(ram')
  <2>1. CASE ram' = IdleRam
    BY <2>1, IdleIsTyped
  <2>2. CASE ram' = [ram EXCEPT !.state = "saving", !.saveOff = 0, !.off = 0, !.target = 0,
                                !.gen = 0, !.slot = 0]
    <3>1. 0 \in 0..MaxLength /\ 0 \in 0..MaxLength + 1 /\ 0 \in 0..1
      BY BoundsAssumption
    <3>2. RamTyped(ram')
      BY <1>1, <2>2, <3>1 DEF RamTyped
    <3>3. /\ ram'.off = 0 /\ ram'.target = 0 /\ ram'.size = ram.size
          /\ ram'.saveOff = 0 /\ ram'.gen = 0 /\ ram.size \in Nat
      BY <1>1, <2>2 DEF RamTyped
    <3>4. InRange(ram')
      BY <3>3 DEF InRange
    <3> QED
      BY <3>2, <3>4
  <2> QED
    BY <2>1, <2>2 DEF Saved, Retried
<1> QED
  BY <1>1, <1>2, <1>3, RunIsPlain, CallTyped

LEMMA DeletionTyped ==
    ASSUME TypeInv, Deletion
    PROVE  TypeInv'
<1>1. FilesTyped(disk, stable, ck) /\ RamTyped(ram) /\ InRange(ram) /\ then \in ThenValues
      /\ {"log", "tmp", "bak"} = Paths /\ 0 \in 0..1 /\ 1 \in 0..1
  BY DEF TypeInv, PlaceTyped, Paths
<1>2. CASE Clear
  <2>1. CountsTyped(session', crashes', faults', committed')
    BY <1>2, FileTypes DEF TypeInv, CountsTyped, Clear, Quiet
  <2>2. FilesTyped(disk', stable', ck')
    BY <1>1, <1>2, StoreSameTyped DEF Clear, Quiet
  <2>3. PlaceTyped(pc', then')
    BY <1>2 DEF Clear, PlaceTyped, PcValues, ClearSteps, ThenValues, Cleaning
  <2>4. BeforeCount(disk', ck', ram', pc', then', session')
    BY <1>2 DEF Clear, BeforeCount, Committing, Starting, Cleaning, Marking
  <2>5. ram' = ram
    BY <1>2 DEF Clear
  <2> QED
    BY <1>1, <2>1, <2>2, <2>3, <2>4, <2>5 DEF TypeInv
<1>3. CASE ClearStep
  <2>2. FilesTyped(disk', stable', ck')
    BY <1>1, <1>3, RemovedTyped, NoManifestTyped, StoreSameTyped DEF ClearStep
  <2>3. pc' \in {"clearTmp", "clearBak", "clear0", "clear1", "clearEnd"}
    BY <1>3 DEF ClearStep, ClearNext
  <2>4. then' \in ThenValues
    BY <1>1, <1>3 DEF ClearStep, ThenValues
  <2>5. pc' \in Plain
    BY <2>3, PlainPlaces
  <2>6. UNCHANGED <<ram, session, crashes, committed>> /\ (Works \/ Fails)
    BY <1>3 DEF ClearStep
  <2> QED
    BY <1>1, <2>2, <2>4, <2>5, <2>6, CallTyped
<1>4. CASE ClearEnd
  <2>1. UNCHANGED <<store, session, crashes, committed>> /\ Works /\ ram' \in {ram, IdleRam}
        /\ pc' = "run" /\ then' = "inspect"
    BY <1>4 DEF ClearEnd, Quiet, Works
  <2>2. FilesTyped(disk', stable', ck') /\ RamTyped(ram') /\ InRange(ram') /\ then' \in ThenValues
    BY <1>1, <2>1, StoreSameTyped, IdleIsTyped DEF ThenValues
  <2> QED
    BY <2>1, <2>2, RunIsPlain, CallTyped
<1> QED
  BY <1>2, <1>3, <1>4 DEF Deletion

LEMMA BetweenTyped ==
    ASSUME NEW a \in File, NEW b \in File, NEW f \in Between(a, b)
    PROVE  f \in File
<1>1. PICK l \in 0..MaxLength : l = b.len
  BY DEF File
<1>2. PICK k \in 0..MaxLength : k = IF a.sid = b.sid THEN a.len ELSE 0
  <2>1. a.len \in 0..MaxLength /\ 0 \in 0..MaxLength
    BY BoundsAssumption DEF File
  <2> QED
    BY <2>1
<1>3. k..l \subseteq 0..MaxLength
  <2>1. PICK x \in Nat : x = MaxLength
    BY BoundsAssumption
  <2>2. k \in 0..x /\ l \in 0..x
    BY <2>1
  <2>3. k..l \subseteq 0..x
    BY <2>1, <2>2
  <2> QED
    BY <2>1, <2>3
<1>4. f \in {a, b} \/ f \in [sid: {b.sid}, len: k..l, tail: {"none", "torn"}]
  BY <1>1, <1>2 DEF Between
<1> QED
  BY <1>3, <1>4 DEF File

LEMMA ResetTyped ==
    ASSUME TypeInv, Reset
    PROVE  TypeInv'
<1>1. PICK tmp \in Between(stable, disk.tmp) :
        disk' = [disk EXCEPT !.tmp = tmp] /\ stable' = tmp
  BY DEF Reset
<1>2. FilesTyped(disk, stable, ck) /\ CountsTyped(session, crashes, faults, committed)
  BY DEF TypeInv
<1>3. tmp \in File
  BY <1>2, BetweenTyped DEF FilesTyped, Paths
<1>4. FilesTyped(disk', stable', ck')
  BY <1>1, <1>2, <1>3, TemporaryTyped DEF Reset
<1>5. CountsTyped(session', crashes', faults', committed')
  <2>1. crashes + 1 \in 0..MaxCrashes
    BY <1>2, BoundsAssumption DEF Reset, CountsTyped
  <2> QED
    BY <1>2, <2>1 DEF Reset, CountsTyped
<1>6. PlaceTyped(pc', then') /\ BeforeCount(disk', ck', ram', pc', then', session')
  BY DEF Reset, PlaceTyped, PcValues, BootSteps, ThenValues, Cleaning, BeforeCount, Committing,
     Starting, Marking
<1>7. RamTyped(ram') /\ InRange(ram')
  BY IdleIsTyped DEF Reset
<1> QED
  BY <1>4, <1>5, <1>6, <1>7 DEF TypeInv

LEMMA InitTyped == Init => TypeInv
<1> SUFFICES ASSUME Init PROVE TypeInv
  OBVIOUS
<1>1. PICK log \in OldFile(2), bak \in OldFile(1) :
        disk = [log |-> log, tmp |-> NoFile, bak |-> bak]
  BY DEF Init
<1>2. /\ 1 \in 0..MaxSessions /\ 2 \in 0..MaxSessions /\ 1 \in 0..MaxLength
      /\ 0 \in 0..MaxCrashes /\ 0 \in 0..MaxFaults /\ 0 <= MaxLength
  BY BoundsAssumption
<1>3. log \in File /\ bak \in File
  BY <1>2, FileTypes DEF OldFile, File, Ends
<1>4. disk \in [Paths -> File]
  BY <1>1, <1>3, FileTypes DEF Paths
<1>5. FilesTyped(disk, stable, ck)
  BY <1>2, <1>4, FileTypes DEF Init, FilesTyped, MarkedOnce
<1>6. CountsTyped(session, crashes, faults, committed)
  BY <1>2, FileTypes DEF Init, CountsTyped
<1>7. PlaceTyped(pc, then) /\ BeforeCount(disk, ck, ram, pc, then, session)
  BY DEF Init, PlaceTyped, PcValues, BootSteps, ThenValues, Cleaning, BeforeCount, Committing,
     Starting, Marking
<1>8. RamTyped(ram) /\ InRange(ram)
  BY IdleIsTyped DEF Init
<1> QED
  BY <1>5, <1>6, <1>7, <1>8 DEF TypeInv

LEMMA TypeInvariant == Spec => []TypeInv
<1>1. TypeInv /\ [Next]_vars => TypeInv'
  <2> SUFFICES ASSUME TypeInv, [Next]_vars
               PROVE  TypeInv'
    OBVIOUS
  <2>1. CASE UNCHANGED vars
    <3>1. UNCHANGED <<disk, stable, ck, ram, pc, then, session, crashes, faults, committed>>
      BY <2>1 DEF vars
    <3> QED
      BY <3>1 DEF TypeInv
  <2>2. CASE Boot \/ CleanUpStep
    BY <2>2, BootTyped, CleanUpTyped
  <2>3. CASE Recording
    BY <2>3, StartTyped, StartedTyped, MemoryTyped DEF Recording
  <2>4. CASE Checkpoint
    BY <2>4, CheckpointChunkTyped, CheckpointCommitTyped, CheckpointCommittedTyped DEF Checkpoint
  <2>5. CASE Save
    BY <2>5, SaveOpenTyped, SaveChunkTyped, SaveCloseTyped, SavePromotionTyped, SaveEndTyped,
       StartTyped
    DEF Save
  <2>6. CASE Deletion \/ Reset
    BY <2>6, DeletionTyped, ResetTyped
  <2> QED
    BY <2>1, <2>2, <2>3, <2>4, <2>5, <2>6 DEF Next
<1> QED
  BY <1>1, InitTyped, PTL DEF Spec

(* Whatever fails and however often the power goes, no file, manifest or      *)
(* member of the recorder outgrows the recording: what was written is at most *)
(* what is in memory, and each commit takes at least one chunk.               *)
THEOREM LogTypes == Spec => []TypeOK
<1>1. TypeInv => TypeOK
  BY DEF TypeInv, TypeOK, FilesTyped, RamTyped, PlaceTyped, CountsTyped, PcValues, ThenValues
<1> QED
  BY <1>1, TypeInvariant, PTL

-----------------------------------------------------------------------------
(* The saved session, whatever fails: the invariant behind the refinement of *)
(* SavedSession. Of a file that holds no chunk nothing is ever offered: what *)
(* is said of a file below is said of one with at least one.                 *)

Offered(s, c) == Ended(s) \/ HasManifest(c, s)
OfferSid(d, s, c) ==
    IF Offered(s, c) THEN s.sid
    ELSE IF Valid(d.log) THEN d.log.sid ELSE IF Valid(d.bak) THEN d.bak.sid ELSE 0

\* Sessions are numbered as they are recorded, and a newer file goes before.
FilesInOrder(d, s, c, n) ==
    /\ d.log.sid <= n /\ d.bak.sid <= n /\ d.tmp.sid <= n /\ s.sid <= n
    /\ c[0].sid <= n /\ c[1].sid <= n
    /\ d.log.len > 0 => d.bak.sid <= d.log.sid
    /\ s.len > 0 => d.log.sid <= s.sid /\ d.bak.sid <= s.sid

\* What the recorder holds at the places of its operations.
CleansFor(p, t, next) == p \in Cleaning /\ t = next
Control(r, p, t) ==
    /\ r.sid = 0 <=> r.state = "idle"
    /\ p \in BootSteps \cup {"start"} => r.state = "idle"
    /\ p \in SaveSteps => r.state = "saving"
    /\ Committing(p) => r.state = "recording" /\ ~r.ckFailed /\ r.off > 0
    /\ p = "retry" => r.state = "failed"
    /\ p \in ClearSteps => r.state \in {"idle", "failed"}
    /\ CleansFor(p, t, "inspect") \/ CleansFor(p, t, "start") => r.state = "idle"
    /\ CleansFor(p, t, "saved") => r.state = "saving"
    /\ CleansFor(p, t, "retry") => r.state = "failed"
    /\ r.state # "idle" => r.size > 0
    /\ r.open => r.state = "saving"

\* Where no temporary file is left.
NoTemporary(d, s) == d.tmp.len = 0 /\ s.len = 0
Emptied(p, t) ==
    \/ p = "start" \/ CleansFor(p, t, "start")
    \/ p \in {"clearBak", "clear0", "clear1", "clearEnd"} /\ t = "cleared"

\* Nothing is held: what a reset can change of the temporary file is its end,
\* and nothing is offered for that.
Synchronized(d, s, p) ==
    /\ d.tmp.len = s.len /\ (s.len > 0 => d.tmp.sid = s.sid)
    /\ s = d.tmp \/ (~Ended(s) /\ (~Ended(d.tmp) \/ p = "endSync"))
    /\ p \in BootSteps \ {"endSync", "inspect"} => s = d.tmp

\* What begin() knows at its places.
BootKnows(d, s, c, p, t) ==
    /\ p = "restore" => ~Valid(d.log)
    /\ p \in {"provenance", "provenanceWrite", "truncate", "end", "endSync"} =>
         HasManifest(c, s) /\ ~Ended(s)
    /\ p = "endSync" => Ended(d.tmp)
    /\ p \in {"preserve", "promote", "undo", "undoRestore"} => Ended(s)
    /\ p = "promoted" => s.len = 0
    /\ CleansFor(p, t, "inspect") => ~Offered(s, c)

\* A session is held: it is newer than log and backup until it is the log, and
\* the temporary file is its own, at least as long as what was synced of it.
IsTheLog(p, t) == p \in {"savedBackup", "saved"} \/ CleansFor(p, t, "saved")
HeldFiles(d, s, r, n, p, t) ==
    /\ r.sid <= n
    /\ d.bak.sid < r.sid
    /\ IsTheLog(p, t) => Valid(d.log) /\ d.log.sid = r.sid /\ NoTemporary(d, s)
    /\ ~IsTheLog(p, t) => d.log.sid < r.sid
    /\ s.len > 0 => s.sid = r.sid
    /\ d.tmp.len > 0 => d.tmp.sid = r.sid
    /\ s.len <= d.tmp.len
    /\ Ended(s) => s = d.tmp
    /\ p \in {"savePreserve", "saveRename", "saveUndo"} => Ended(s)

\* How far its file is written.
Progress(d, s, r, p) ==
    /\ r.state \in {"recording", "stopping"} => ~Ended(s) /\ ~Ended(d.tmp)
    /\ r.state = "recording" /\ ~r.ckFailed => d.tmp.len = r.off
    /\ p \in {"commit", "commitEnd"} => s = d.tmp
    /\ p = "run" /\ r.state = "saving" /\ (r.open \/ r.off > 0) => ~Ended(s)
    /\ p = "run" /\ r.state = "saving" /\ r.open =>
         IF r.saveOff <= r.size THEN d.tmp.len = r.saveOff
         ELSE d.tmp.len = r.size /\ d.tmp.tail = "full"

\* The slot that is rewritten is not the one that the held session is offered by.
Mine(m, r) == m.kind = "valid" /\ m.sid = r.sid
SlotsTurn(s, c, r) ==
    r.state = "recording" /\ ~r.ckFailed =>
        \/ ~Mine(c[0], r) /\ ~Mine(c[1], r)
        \/ Mine(c[1 - r.slot], r) /\ c[1 - r.slot].len \in 1..s.len

Unheld(d, s, c, p, t) == Synchronized(d, s, p) /\ BootKnows(d, s, c, p, t)
IsHeld(d, s, c, r, n, p, t) ==
    HeldFiles(d, s, r, n, p, t) /\ Progress(d, s, r, p) /\ SlotsTurn(s, c, r)
Keeping(d, s, c, r, p, t, n) ==
    /\ FilesInOrder(d, s, c, n)
    /\ Control(r, p, t)
    /\ Emptied(p, t) => NoTemporary(d, s)
    /\ r.sid = 0 => Unheld(d, s, c, p, t)
    /\ r.sid # 0 => IsHeld(d, s, c, r, n, p, t)
KeepingInv == Keeping(disk, stable, ck, ram, pc, then, session)

\* The moves of SavedSession.
Kept == OfferSid(disk, stable, ck)
Clearing == pc \in ClearSteps
Still == Kept' = Kept /\ ram.sid' = ram.sid /\ Clearing' = Clearing
SavedMove ==
    \/ Still
    \/ ram.sid = 0 /\ ram.sid' > Kept /\ Kept' = Kept /\ Clearing' = Clearing
    \/ /\ ram.sid # 0 /\ Kept' \in {Kept, ram.sid}
       /\ \/ ram.sid' = ram.sid /\ Clearing' = Clearing
          \/ ram.sid' = 0 /\ ~Clearing'
    \/ faults' > 0 /\ ram.sid # 0 /\ Kept = ram.sid /\ Kept' < Kept /\ ram.sid' = ram.sid /\ Clearing' = Clearing
    \/ Clearing' /\ Kept' = Kept /\ ram.sid' = ram.sid
    \/ Clearing /\ Clearing' /\ Kept' <= Kept /\ ram.sid' = ram.sid
    \/ ~Clearing' /\ ram.sid' \in {ram.sid, 0} /\ Kept' = Kept
Arrives == KeepingInv' /\ SavedMove
-----------------------------------------------------------------------------
LEMMA StoreNumbers ==
    ASSUME FilesTyped(disk, stable, ck)
    PROVE  /\ StoreTyped
           /\ disk.log \in AnyFile /\ disk.tmp \in AnyFile /\ disk.bak \in AnyFile /\ stable \in AnyFile
           /\ disk.log.sid \in Nat /\ disk.tmp.sid \in Nat /\ disk.bak.sid \in Nat /\ stable.sid \in Nat
           /\ disk.log.len \in Nat /\ disk.tmp.len \in Nat /\ disk.bak.len \in Nat /\ stable.len \in Nat
           /\ ck[0] \in AnyManifest /\ ck[1] \in AnyManifest
           /\ ck[0].sid \in Nat /\ ck[1].sid \in Nat /\ ck[0].len \in Nat /\ ck[1].len \in Nat
<1>1. \A f \in File : f \in AnyFile /\ f.sid \in Nat /\ f.len \in Nat
  BY DEF File, AnyFile
<1>2. \A m \in Manifest : m \in AnyManifest /\ m.sid \in Nat /\ m.len \in Nat
  BY DEF Manifest, AnyManifest
<1>3. /\ disk.log \in File /\ disk.tmp \in File /\ disk.bak \in File /\ stable \in File
      /\ ck[0] \in Manifest /\ ck[1] \in Manifest
  BY DEF FilesTyped, Paths
<1>4. disk \in [Paths -> AnyFile] /\ ck \in [0..1 -> AnyManifest]
  BY <1>1, <1>2 DEF FilesTyped
<1> QED
  BY <1>1, <1>2, <1>3, <1>4 DEF StoreTyped

LEMMA EmptyFile ==
    /\ NoFile.sid = 0 /\ NoFile.len = 0 /\ ~Valid(NoFile) /\ ~Ended(NoFile)
    /\ NoManifest.sid = 0 /\ TornManifest.sid = 0
    /\ \A c : ~Offered(NoFile, c)
BY NoFileFacts, NothingManifested DEF NoFile, NoManifest, TornManifest, Offered

\* A file that is offered holds a chunk.
LEMMA OfferedHasChunks ==
    ASSUME NEW f \in AnyFile, NEW c
    PROVE  /\ Ended(f) => f.len > 0
           /\ Valid(f) => f.len > 0
           /\ HasManifest(c, f) => f.len > 0
           /\ Offered(f, c) => f.len > 0
<1>1. Ended(f) \/ Valid(f) => f.len > 0
  BY FileStateCases
<1>2. ASSUME HasManifest(c, f) PROVE f.len > 0
  <2>1. PICK slot \in 0..1 : Authentic(c[slot], f)
    BY <1>2 DEF HasManifest
  <2>2. c[slot].len \in 1..f.len /\ f.len \in Nat
    BY <2>1 DEF Authentic, PrefixValid, AnyFile
  <2> QED
    BY <2>2
<1> QED
  BY <1>1, <1>2 DEF Offered

LEMMA SameOffered ==
    ASSUME NEW c, NEW f, NEW g, f.sid = g.sid, f.len = g.len, Ended(f) = Ended(g)
    PROVE  Offered(f, c) = Offered(g, c)
BY SameManifests DEF Offered

LEMMA OfferedStays ==
    ASSUME Offered(stable, ck), Offered(stable', ck'), stable'.sid = stable.sid
    PROVE  Kept' = Kept
BY DEF Kept, OfferSid

\* Which files are there is all that the order of the sessions speaks of.
LEMMA OrderAfterRemoval ==
    ASSUME FilesTyped(disk, stable, ck), FilesInOrder(disk, stable, ck, session), session \in Nat,
           NEW p \in Paths, Removed(p)
    PROVE  FilesInOrder(disk', stable', ck', session)
<1>1. /\ disk'[p] = NoFile /\ ck' = ck /\ stable' = IF p = "tmp" THEN NoFile ELSE stable
      /\ \A q \in Paths : q # p => disk'[q] = disk[q]
  BY StoreNumbers, RemovedFacts
<1>2. CASE p = "log"
  BY <1>1, <1>2, StoreNumbers, EmptyFile DEF FilesInOrder, Paths
<1>3. CASE p = "bak"
  BY <1>1, <1>3, StoreNumbers, EmptyFile DEF FilesInOrder, Paths
<1>4. CASE p = "tmp"
  BY <1>1, <1>4, StoreNumbers, EmptyFile DEF FilesInOrder, Paths
<1> QED
  BY <1>2, <1>3, <1>4 DEF Paths

LEMMA OrderAfterRestore ==
    ASSUME FilesTyped(disk, stable, ck), FilesInOrder(disk, stable, ck, session), session \in Nat,
           Renamed("bak", "log")
    PROVE  /\ FilesInOrder(disk', stable', ck', session) /\ ck' = ck /\ stable' = stable
           /\ disk'.log = disk.bak /\ disk'.bak = NoFile /\ disk'.tmp = disk.tmp
<1>1. /\ disk'.log = disk.bak /\ disk'.bak = NoFile /\ disk'.tmp = disk.tmp /\ ck' = ck
      /\ stable' = stable
  BY StoreNumbers, RenamedFacts DEF Paths
<1> QED
  BY <1>1, StoreNumbers, EmptyFile DEF FilesInOrder

LEMMA OrderAfterRoom ==
    ASSUME FilesTyped(disk, stable, ck), FilesInOrder(disk, stable, ck, session), session \in Nat,
           MakeRoom
    PROVE  /\ FilesInOrder(disk', stable', ck', session) /\ ck' = ck /\ stable' = stable
           /\ disk'.log = NoFile /\ disk'.tmp = disk.tmp /\ disk'.bak \in {disk.log, disk.bak}
<1>1. CASE UNCHANGED store /\ ~Exists(disk.log)
  BY <1>1 DEF store, Exists
<1>2. CASE Removed("log")
  BY <1>2, OrderAfterRemoval, StoreNumbers, RemovedFacts DEF Paths
<1>3. CASE Renamed("log", "bak")
  <2>1. /\ disk'.bak = disk.log /\ disk'.log = NoFile /\ disk'.tmp = disk.tmp /\ ck' = ck
        /\ stable' = stable
    BY <1>3, StoreNumbers, RenamedFacts DEF Paths
  <2> QED
    BY <2>1, StoreNumbers, EmptyFile DEF FilesInOrder
<1> QED
  BY <1>1, <1>2, <1>3 DEF MakeRoom

LEMMA OrderAfterPromotion ==
    ASSUME FilesTyped(disk, stable, ck), FilesInOrder(disk, stable, ck, session), session \in Nat,
           Renamed("tmp", "log"), stable = disk.tmp, stable.len > 0
    PROVE  /\ FilesInOrder(disk', stable', ck', session) /\ ck' = ck /\ stable' = NoFile
           /\ disk'.log = disk.tmp /\ disk'.bak = disk.bak /\ disk'.tmp = NoFile
<1>1. /\ disk'.log = disk.tmp /\ disk'.bak = disk.bak /\ disk'.tmp = NoFile /\ ck' = ck
      /\ stable' = NoFile
  BY StoreNumbers, RenamedFacts DEF Paths
<1> QED
  BY <1>1, StoreNumbers, EmptyFile DEF FilesInOrder

\* A step of begin() that keeps what is offered.
LEMMA BootArrivesKept ==
    ASSUME TypeInv, KeepingInv, pc \in BootSteps, pc' \in BootSteps \cup {"run"},
           UNCHANGED <<ram, session>>, Kept' = Kept,
           FilesInOrder(disk', stable', ck', session), Synchronized(disk', stable', pc'),
           BootKnows(disk', stable', ck', pc', then')
    PROVE  Arrives
<1>1. ram.state = "idle" /\ ram.sid = 0 /\ ~ram.open
  BY DEF KeepingInv, Keeping, Control
<1>2. /\ pc' \notin SaveSteps /\ pc' \notin ClearSteps /\ pc' \notin Cleaning /\ ~Committing(pc')
      /\ pc' # "retry" /\ pc' # "start" /\ pc \notin ClearSteps /\ pc' \notin {"clearBak", "clear0", "clear1", "clearEnd"}
  BY DEF BootSteps, SaveSteps, ClearSteps, Cleaning, Committing
<1>3. Control(ram', pc', then')
  BY <1>1, <1>2 DEF Control, CleansFor
<1>4. ~Emptied(pc', then')
  BY <1>2 DEF Emptied, CleansFor
<1>5. KeepingInv'
  BY <1>1, <1>3, <1>4 DEF KeepingInv, Keeping, Unheld
<1>6. Still
  BY <1>2 DEF Still, Clearing
<1> QED
  BY <1>5, <1>6 DEF Arrives, SavedMove
-----------------------------------------------------------------------------
LEMMA BootFacts ==
    ASSUME TypeInv, KeepingInv, pc \in BootSteps
    PROVE  /\ FilesTyped(disk, stable, ck) /\ FilesInOrder(disk, stable, ck, session) /\ session \in Nat
           /\ Synchronized(disk, stable, pc) /\ BootKnows(disk, stable, ck, pc, then)
           /\ ram.sid = 0 /\ ram.state = "idle"
BY DEF TypeInv, CountsTyped, KeepingInv, Keeping, Control, Unheld

LEMMA BootPrimaryKept ==
    ASSUME TypeInv, KeepingInv, BootPrimary
    PROVE  Arrives
<1>1. pc = "primary" /\ pc \in BootSteps /\ UNCHANGED <<ram, session, then>>
  BY DEF BootPrimary, Keeps, Goto, BootSteps
<1>2. /\ FilesTyped(disk, stable, ck) /\ FilesInOrder(disk, stable, ck, session) /\ session \in Nat
      /\ stable = disk.tmp
  BY <1>1, BootFacts DEF Synchronized
<1>3. \/ UNCHANGED <<disk, stable, ck>> /\ Valid(disk.log) /\ pc' = "backup"
      \/ UNCHANGED <<disk, stable, ck>> /\ ~Valid(disk.log) /\ pc' = "restore"
      \/ Removed("log") /\ ~Valid(disk.log) /\ pc' = "restore"
  BY DEF BootPrimary, BootCall, NoCall, Keeps, Goto, store
<1>4. CASE UNCHANGED <<disk, stable, ck>>
  <2>1. Kept' = Kept /\ FilesInOrder(disk', stable', ck', session)
    BY <1>2, <1>4 DEF Kept
  <2>2. Synchronized(disk', stable', pc')
    BY <1>2, <1>4, <1>3 DEF Synchronized
  <2>3. BootKnows(disk', stable', ck', pc', then')
    BY <1>3, <1>4 DEF BootKnows, CleansFor, Cleaning
  <2> QED
    BY <1>1, <1>3, <2>1, <2>2, <2>3, BootArrivesKept DEF BootSteps
<1>5. CASE Removed("log") /\ ~Valid(disk.log) /\ pc' = "restore"
  <2>1. /\ FilesInOrder(disk', stable', ck', session) /\ ck' = ck /\ stable' = stable
        /\ disk'.log = NoFile /\ disk'.tmp = disk.tmp /\ disk'.bak = disk.bak
    BY <1>2, <1>5, OrderAfterRemoval, StoreNumbers, RemovedFacts DEF Paths
  <2>2. Kept' = Kept
    BY <1>5, <2>1, EmptyFile DEF Kept, OfferSid
  <2>3. Synchronized(disk', stable', pc')
    BY <1>2, <2>1 DEF Synchronized
  <2>4. BootKnows(disk', stable', ck', pc', then')
    BY <1>5, <2>1, EmptyFile DEF BootKnows, CleansFor, Cleaning
  <2> QED
    BY <1>1, <1>5, <2>1, <2>2, <2>3, <2>4, BootArrivesKept DEF BootSteps
<1> QED
  BY <1>3, <1>4, <1>5

LEMMA BootRestoreKept ==
    ASSUME TypeInv, KeepingInv, BootRestore
    PROVE  Arrives
<1>1. pc = "restore" /\ pc \in BootSteps /\ UNCHANGED <<ram, session, then>> /\ pc' = "backup"
  BY DEF BootRestore, Keeps, Goto, BootSteps
<1>2. /\ FilesTyped(disk, stable, ck) /\ FilesInOrder(disk, stable, ck, session) /\ session \in Nat
      /\ stable = disk.tmp /\ ~Valid(disk.log)
  BY <1>1, BootFacts DEF Synchronized, BootKnows
<1>3. UNCHANGED <<disk, stable, ck>> \/ (Valid(disk.bak) /\ Renamed("bak", "log"))
  BY DEF BootRestore, BootCall, NoCall, store
<1>4. /\ FilesInOrder(disk', stable', ck', session) /\ ck' = ck /\ stable' = stable
      /\ disk'.tmp = disk.tmp
      /\ \/ disk' = disk
         \/ Valid(disk.bak) /\ disk'.log = disk.bak /\ disk'.bak = NoFile
  BY <1>2, <1>3, OrderAfterRestore
<1>5. Kept' = Kept
  BY <1>2, <1>4, EmptyFile DEF Kept, OfferSid
<1>6. Synchronized(disk', stable', pc')
  BY <1>2, <1>4 DEF Synchronized
<1>7. BootKnows(disk', stable', ck', pc', then')
  BY <1>1 DEF BootKnows, CleansFor, Cleaning
<1> QED
  BY <1>1, <1>4, <1>5, <1>6, <1>7, BootArrivesKept DEF BootSteps

LEMMA BootBackupKept ==
    ASSUME TypeInv, KeepingInv, BootBackup
    PROVE  Arrives
<1>1. pc = "backup" /\ pc \in BootSteps /\ UNCHANGED <<ram, session, then>> /\ pc' = "choose"
  BY DEF BootBackup, Keeps, Goto, BootSteps
<1>2. /\ FilesTyped(disk, stable, ck) /\ FilesInOrder(disk, stable, ck, session) /\ session \in Nat
      /\ stable = disk.tmp
  BY <1>1, BootFacts DEF Synchronized
<1>3. UNCHANGED <<disk, stable, ck>> \/ (BackupIsSpare(disk) /\ Removed("bak"))
  BY DEF BootBackup, BootCall, NoCall, store
<1>4. /\ FilesInOrder(disk', stable', ck', session) /\ ck' = ck /\ stable' = stable
      /\ disk'.tmp = disk.tmp /\ disk'.log = disk.log
      /\ disk'.bak = disk.bak \/ (BackupIsSpare(disk) /\ disk'.bak = NoFile)
  BY <1>2, <1>3, OrderAfterRemoval, StoreNumbers, RemovedFacts DEF Paths
<1>5. BackupIsSpare(disk) => Valid(disk.log) \/ ~Valid(disk.bak)
  BY DEF BackupIsSpare, Valid
<1>6. Kept' = Kept
  BY <1>4, <1>5, EmptyFile DEF Kept, OfferSid
<1>7. Synchronized(disk', stable', pc')
  BY <1>2, <1>4 DEF Synchronized
<1>8. BootKnows(disk', stable', ck', pc', then')
  BY <1>1 DEF BootKnows, CleansFor, Cleaning
<1> QED
  BY <1>1, <1>4, <1>6, <1>7, <1>8, BootArrivesKept DEF BootSteps

\* begin() goes on to the removal of what is left.
LEMMA BootCleansKept ==
    ASSUME TypeInv, KeepingInv, pc \in BootSteps, pc' \in Cleaning, then' = "inspect",
           UNCHANGED <<ram, session>>, Kept' = Kept,
           FilesInOrder(disk', stable', ck', session), Synchronized(disk', stable', pc'),
           ~Offered(stable', ck')
    PROVE  Arrives
<1>1. ram.state = "idle" /\ ram.sid = 0 /\ ~ram.open
  BY DEF KeepingInv, Keeping, Control
<1>2. /\ pc' \notin BootSteps /\ pc' \notin SaveSteps /\ pc' \notin ClearSteps /\ ~Committing(pc')
      /\ pc' # "retry" /\ pc' # "start" /\ pc \notin ClearSteps
      /\ pc' \notin {"clearBak", "clear0", "clear1", "clearEnd"}
  BY DEF BootSteps, SaveSteps, ClearSteps, Cleaning, Committing
<1>3. Control(ram', pc', then')
  BY <1>1, <1>2 DEF Control, CleansFor
<1>4. ~Emptied(pc', then')
  BY <1>2 DEF Emptied, CleansFor
<1>5. BootKnows(disk', stable', ck', pc', then')
  BY <1>2 DEF BootKnows, BootSteps, Cleaning
<1>6. KeepingInv'
  BY <1>1, <1>3, <1>4, <1>5 DEF KeepingInv, Keeping, Unheld
<1>7. Still
  BY <1>2 DEF Still, Clearing
<1> QED
  BY <1>6, <1>7 DEF Arrives, SavedMove

LEMMA BootChooseKept ==
    ASSUME TypeInv, KeepingInv, BootChoose
    PROVE  Arrives
<1>1. /\ pc = "choose" /\ pc \in BootSteps /\ UNCHANGED <<ram, session>>
      /\ UNCHANGED <<disk, stable, ck>>
  BY DEF BootChoose, NoCall, store, BootSteps
<1>2. /\ FilesInOrder(disk, stable, ck, session) /\ stable = disk.tmp
  BY <1>1, BootFacts DEF Synchronized
<1>3. Kept' = Kept /\ FilesInOrder(disk', stable', ck', session) /\ stable' = disk'.tmp
  BY <1>1, <1>2 DEF Kept
<1>4. Synchronized(disk', stable', pc')
  BY <1>3 DEF Synchronized
<1>5. CASE Ended(disk.tmp) /\ pc' = "preserve"
  <2>1. BootKnows(disk', stable', ck', pc', then')
    BY <1>1, <1>3, <1>5 DEF BootKnows, CleansFor, Cleaning
  <2> QED
    BY <1>1, <1>3, <1>4, <1>5, <2>1, BootArrivesKept DEF BootSteps
<1>6. CASE HasManifest(ck, disk.tmp) /\ ~Ended(disk.tmp) /\ pc' \in {"truncate", "provenance"}
  <2>1. BootKnows(disk', stable', ck', pc', then')
    BY <1>1, <1>3, <1>6 DEF BootKnows, CleansFor, Cleaning
  <2> QED
    BY <1>1, <1>3, <1>4, <1>6, <2>1, BootArrivesKept DEF BootSteps
<1>7. CASE /\ ~Ended(disk.tmp) /\ ~HasManifest(ck, disk.tmp)
           /\ pc' \in {"rmTmp", "rm0"} /\ then' = "inspect"
  <2>1. ~Offered(stable', ck')
    BY <1>1, <1>2, <1>7 DEF Offered
  <2> QED
    BY <1>1, <1>3, <1>4, <1>7, <2>1, BootCleansKept DEF Cleaning
<1> QED
  BY <1>5, <1>6, <1>7 DEF BootChoose, Goto, CleanUp

\* Another slot than the best one is written, at most with what the best one says.
LEMMA BootManifestKept ==
    ASSUME TypeInv, KeepingInv, pc \in {"provenance", "provenanceWrite"},
           pc' \in {"provenanceWrite", "truncate"}, UNCHANGED <<ram, session, then>>,
           NEW b \in 0..1, NEW m \in AnyManifest, Authentic(ck[b], disk.tmp),
           ManifestIs(1 - b, m), m.sid <= session
    PROVE  Arrives
<1>1. pc \in BootSteps
  BY DEF BootSteps
<1>2. /\ FilesTyped(disk, stable, ck) /\ FilesInOrder(disk, stable, ck, session) /\ session \in Nat
      /\ stable = disk.tmp /\ HasManifest(ck, stable) /\ ~Ended(stable)
  BY <1>1, BootFacts DEF Synchronized, BootKnows, BootSteps
<1>3. 1 - b \in 0..1 /\ 1 - (1 - b) = b /\ StoreTyped
  BY <1>2, StoreNumbers
<1>4. disk' = disk /\ stable' = stable /\ ck'[1 - b] = m /\ ck'[b] = ck[b]
  BY <1>3, ManifestFacts
<1>5. HasManifest(ck', stable')
  BY <1>2, <1>4 DEF HasManifest
<1>6. Kept' = Kept
  BY <1>2, <1>4, <1>5, OfferedStays DEF Offered
<1>7. ck'[0].sid <= session /\ ck'[1].sid <= session
  <2>1. CASE b = 0
    BY <1>2, <1>4, <2>1 DEF FilesInOrder
  <2>2. CASE b = 1
    BY <1>2, <1>4, <2>2 DEF FilesInOrder
  <2> QED
    BY <2>1, <2>2
<1>8. FilesInOrder(disk', stable', ck', session)
  BY <1>2, <1>4, <1>7 DEF FilesInOrder
<1>9. Synchronized(disk', stable', pc')
  BY <1>2, <1>4 DEF Synchronized
<1>10. BootKnows(disk', stable', ck', pc', then')
  BY <1>2, <1>4, <1>5 DEF BootKnows, CleansFor, Cleaning
<1> QED
  BY <1>1, <1>6, <1>8, <1>9, <1>10, BootArrivesKept DEF BootSteps

\* A call of begin() that fails where it is not waited for any more.
LEMMA BootGivesUpKept ==
    ASSUME TypeInv, KeepingInv, pc \in BootSteps, pc' = "inspect", UNCHANGED <<ram, session, store>>,
           pc # "endSync"
    PROVE  Arrives
<1>1. UNCHANGED <<disk, stable, ck>>
  BY DEF store
<1>2. FilesInOrder(disk, stable, ck, session) /\ Synchronized(disk, stable, pc)
  BY BootFacts
<1>3. Kept' = Kept /\ FilesInOrder(disk', stable', ck', session)
  BY <1>1, <1>2 DEF Kept
<1>4. Synchronized(disk', stable', pc')
  BY <1>1, <1>2 DEF Synchronized
<1>5. BootKnows(disk', stable', ck', pc', then')
  BY DEF BootKnows, CleansFor, Cleaning
<1> QED
  BY <1>3, <1>4, <1>5, BootArrivesKept DEF BootSteps

LEMMA BootProvenanceKept ==
    ASSUME TypeInv, KeepingInv, BootProvenance \/ BootProvenanceWrite
    PROVE  Arrives
<1>1. pc \in {"provenance", "provenanceWrite"} /\ UNCHANGED <<ram, session, then>>
  BY DEF BootProvenance, BootProvenanceWrite, Keeps, Goto
<1>2. pc \in BootSteps /\ pc # "endSync"
  BY <1>1 DEF BootSteps
<1>3. /\ FilesInOrder(disk, stable, ck, session) /\ stable = disk.tmp /\ HasManifest(ck, disk.tmp)
      /\ session \in Nat /\ FilesTyped(disk, stable, ck)
  BY <1>1, <1>2, BootFacts DEF Synchronized, BootKnows, BootSteps
<1>4. PICK b \in 0..1 : b = BestSlot(ck, disk.tmp) /\ Authentic(ck[b], disk.tmp)
  BY <1>3, BestIsAuthentic
<1>5. CASE Fails /\ UNCHANGED store /\ pc' = "inspect"
  BY <1>1, <1>2, <1>5, BootGivesUpKept
<1>6. CASE ManifestIs(1 - b, TornManifest) /\ pc' = "provenanceWrite"
  <2>1. TornManifest.sid <= session
    BY <1>3, EmptyFile
  <2> QED
    BY <1>1, <1>4, <1>6, <2>1, NoFileFacts, BootManifestKept
<1>7. CASE ManifestIs(1 - b, [ck[b] EXCEPT !.gen = @ + 1, !.reset = TRUE]) /\ pc' = "truncate"
  <2>1. ck[b] \in AnyManifest /\ ck[b].sid <= session
    <3>1. b = 0 \/ b = 1
      OBVIOUS
    <3> QED
      BY <1>3, <3>1, StoreNumbers DEF FilesInOrder
  <2>2. PICK n \in Nat : n = ck[b].gen
    BY <2>1 DEF AnyManifest
  <2>3. PICK m : m = [ck[b] EXCEPT !.gen = n + 1, !.reset = TRUE]
    OBVIOUS
  <2>3a. PICK old \in AnyManifest, g \in Nat : old = ck[b] /\ g = n + 1
    BY <2>1
  <2>3b. m = [old EXCEPT !.gen = g, !.reset = TRUE]
    BY <2>3, <2>3a
  <2>4. m \in AnyManifest /\ m.sid = ck[b].sid
    BY <2>3a, <2>3b DEF AnyManifest
  <2>5. ManifestIs(1 - b, m) /\ m.sid <= session
    BY <1>7, <2>1, <2>2, <2>3, <2>4
  <2> QED
    BY <1>1, <1>4, <1>7, <2>4, <2>5, BootManifestKept
<1> QED
  BY <1>4, <1>5, <1>6, <1>7 DEF BootProvenance, BootProvenanceWrite, Keeps, Goto
-----------------------------------------------------------------------------
\* The temporary file is written; log and backup stay.
LEMMA OrderAfterWrite ==
    ASSUME FilesTyped(disk, stable, ck), FilesInOrder(disk, stable, ck, session), UNCHANGED ck,
           NEW f, disk' = [disk EXCEPT !.tmp = f], f.sid <= session, stable'.sid <= session,
           stable'.len > 0 => disk.log.sid <= stable'.sid /\ disk.bak.sid <= stable'.sid
    PROVE  FilesInOrder(disk', stable', ck', session)
<1>1. disk'.tmp = f /\ disk'.log = disk.log /\ disk'.bak = disk.bak
  BY DEF FilesTyped, Paths
<1> QED
  BY <1>1 DEF FilesInOrder

LEMMA BootTruncateKept ==
    ASSUME TypeInv, KeepingInv, BootTruncate
    PROVE  Arrives
<1>1. pc = "truncate" /\ pc \in BootSteps /\ pc # "endSync" /\ UNCHANGED <<ram, session, then>>
  BY DEF BootTruncate, Keeps, Goto, BootSteps
<1>2. /\ FilesTyped(disk, stable, ck) /\ FilesInOrder(disk, stable, ck, session) /\ session \in Nat
      /\ stable = disk.tmp /\ HasManifest(ck, disk.tmp)
  BY <1>1, BootFacts DEF Synchronized, BootKnows, BootSteps
<1>3. CASE Fails /\ UNCHANGED store /\ pc' = "inspect"
  BY <1>1, <1>3, BootGivesUpKept
<1>4. CASE /\ disk' = [disk EXCEPT !.tmp.len = ck[BestSlot(ck, disk.tmp)].len, !.tmp.tail = "none"]
           /\ stable' = disk'.tmp /\ UNCHANGED ck /\ pc' = "end"
  <2>1. PICK f : f = [disk.tmp EXCEPT !.len = ck[BestSlot(ck, disk.tmp)].len, !.tail = "none"]
    OBVIOUS
  <2>2. disk.tmp \in AnyFile /\ disk \in [Paths -> AnyFile]
    BY <1>2, StoreNumbers DEF StoreTyped
  <2>3. f.sid = disk.tmp.sid /\ f.len = ck[BestSlot(ck, disk.tmp)].len
    BY <2>1, <2>2 DEF AnyFile
  <2>4. disk' = [disk EXCEPT !.tmp = f]
    BY <1>4, <2>1, <2>2 DEF Paths
  <2>5. disk'.tmp = f /\ stable' = f /\ ck' = ck
    BY <1>4, <2>2, <2>4 DEF Paths
  <2>6. HasManifest(ck, f)
    BY <1>2, <2>2, <2>3, BestOfCut
  <2>12. ~Ended(f)
    <3>1. f.tail = "none"
      BY <2>1, <2>2 DEF AnyFile
    <3> QED
      BY <3>1 DEF Ended, FileState, FileStates
  <2>7. Kept' = Kept
    BY <1>2, <2>3, <2>5, <2>6, OfferedStays DEF Offered
  <2>8. stable.len > 0
    BY <1>2, <2>2, OfferedHasChunks
  <2>9. FilesInOrder(disk', stable', ck', session)
    BY <1>2, <2>3, <2>4, <2>5, <2>8, OrderAfterWrite DEF FilesInOrder
  <2>10. Synchronized(disk', stable', pc')
    BY <2>5 DEF Synchronized
  <2>11. BootKnows(disk', stable', ck', pc', then')
    BY <1>4, <2>5, <2>6, <2>12 DEF BootKnows, CleansFor, Cleaning
  <2> QED
    BY <1>1, <1>4, <2>7, <2>9, <2>10, <2>11, BootArrivesKept DEF BootSteps
<1> QED
  BY <1>3, <1>4 DEF BootTruncate, Keeps, Goto

\* A file with one chunk and another end.
LEMMA EndChanged ==
    ASSUME FilesTyped(disk, stable, ck), NEW tail \in {"recovered", "torn"},
           disk' = [disk EXCEPT !.tmp.tail = tail]
    PROVE  /\ disk'.log = disk.log /\ disk'.bak = disk.bak
           /\ disk'.tmp \in AnyFile /\ disk'.tmp.sid = disk.tmp.sid /\ disk'.tmp.len = disk.tmp.len
           /\ disk'.tmp.tail = tail
           /\ tail = "torn" => ~Ended(disk'.tmp)
           /\ tail = "recovered" /\ disk.tmp.len > 0 => Ended(disk'.tmp)
<1>1. disk.tmp \in AnyFile /\ disk \in [Paths -> AnyFile]
  BY StoreNumbers DEF StoreTyped
<1>2. PICK f : f = [disk.tmp EXCEPT !.tail = tail]
  OBVIOUS
<1>3. f \in AnyFile /\ f.sid = disk.tmp.sid /\ f.len = disk.tmp.len /\ f.tail = tail
  BY <1>1, <1>2 DEF AnyFile, Ends
<1>4. disk'.tmp = f /\ disk'.log = disk.log /\ disk'.bak = disk.bak
  BY <1>1, <1>2 DEF Paths
<1> QED
  BY <1>3, <1>4, FileStateCases DEF Ends

LEMMA BootEndKept ==
    ASSUME TypeInv, KeepingInv, BootEnd
    PROVE  Arrives
<1>1. pc = "end" /\ pc \in BootSteps /\ UNCHANGED <<ram, session, then, stable, ck>>
  BY DEF BootEnd, Keeps, Goto, BootSteps
<1>2. /\ FilesTyped(disk, stable, ck) /\ FilesInOrder(disk, stable, ck, session) /\ session \in Nat
      /\ stable = disk.tmp /\ HasManifest(ck, stable) /\ ~Ended(stable)
  BY <1>1, BootFacts DEF Synchronized, BootKnows, BootSteps
<1>3. stable.len > 0
  BY <1>2, StoreNumbers, OfferedHasChunks
<1>4. PICK tail \in {"recovered", "torn"} :
         /\ disk' = [disk EXCEPT !.tmp.tail = tail]
         /\ pc' = IF tail = "recovered" THEN "endSync" ELSE "inspect"
  BY DEF BootEnd, Keeps, Goto
<1>5. /\ disk'.log = disk.log /\ disk'.bak = disk.bak
      /\ disk'.tmp \in AnyFile /\ disk'.tmp.sid = disk.tmp.sid /\ disk'.tmp.len = disk.tmp.len
      /\ disk'.tmp.tail = tail
      /\ tail = "torn" => ~Ended(disk'.tmp)
      /\ tail = "recovered" => Ended(disk'.tmp)
  BY <1>2, <1>3, <1>4, EndChanged
<1>6. HasManifest(ck', stable') /\ Kept' = Kept
  <2>1. Offered(stable, ck) /\ Offered(stable', ck') /\ stable'.sid = stable.sid
    BY <1>1, <1>2 DEF Offered
  <2> QED
    BY <1>1, <1>2, <2>1, OfferedStays
<1>7. FilesInOrder(disk', stable', ck', session)
  BY <1>1, <1>2, <1>5 DEF FilesInOrder
<1>8. Synchronized(disk', stable', pc')
  BY <1>1, <1>2, <1>4, <1>5 DEF Synchronized
<1>9. BootKnows(disk', stable', ck', pc', then')
  BY <1>1, <1>2, <1>4, <1>5, <1>6 DEF BootKnows, CleansFor, Cleaning
<1> QED
  BY <1>1, <1>4, <1>6, <1>7, <1>8, <1>9, BootArrivesKept DEF BootSteps

LEMMA BootEndSyncKept ==
    ASSUME TypeInv, KeepingInv, BootEndSync
    PROVE  Arrives
<1>1. pc = "endSync" /\ pc \in BootSteps /\ UNCHANGED <<ram, session, then, ck>>
  BY DEF BootEndSync, Keeps, Goto, BootSteps, Synced
<1>2. /\ FilesTyped(disk, stable, ck) /\ FilesInOrder(disk, stable, ck, session) /\ session \in Nat
      /\ HasManifest(ck, stable) /\ ~Ended(stable) /\ Ended(disk.tmp)
      /\ disk.tmp.len = stable.len /\ (stable.len > 0 => disk.tmp.sid = stable.sid)
  BY <1>1, BootFacts DEF Synchronized, BootKnows, BootSteps
<1>3. stable.len > 0 /\ disk.tmp.sid = stable.sid
  BY <1>2, StoreNumbers, OfferedHasChunks
<1>4. CASE Synced /\ pc' = "preserve"
  <2>1. disk' = disk /\ stable' = disk.tmp
    BY <1>4 DEF Synced
  <2>2. Offered(stable, ck) /\ Offered(stable', ck')
    BY <1>2, <2>1 DEF Offered
  <2>3. Kept' = Kept
    BY <1>3, <2>1, <2>2, OfferedStays
  <2>4. FilesInOrder(disk', stable', ck', session)
    BY <1>1, <1>2, <1>3, <2>1 DEF FilesInOrder
  <2>5. Synchronized(disk', stable', pc')
    BY <2>1 DEF Synchronized
  <2>6. BootKnows(disk', stable', ck', pc', then')
    BY <1>2, <1>4, <2>1 DEF BootKnows, CleansFor, Cleaning
  <2> QED
    BY <1>1, <1>4, <2>3, <2>4, <2>5, <2>6, BootArrivesKept DEF BootSteps
<1>5. CASE /\ disk' = [disk EXCEPT !.tmp.tail = "torn"] /\ UNCHANGED <<stable, ck>>
           /\ pc' = "inspect"
  <2>1. /\ disk'.log = disk.log /\ disk'.bak = disk.bak
        /\ disk'.tmp.sid = disk.tmp.sid /\ disk'.tmp.len = disk.tmp.len
        /\ ~Ended(disk'.tmp)
    BY <1>2, <1>5, EndChanged
  <2>2. Kept' = Kept
    <3>1. Offered(stable, ck) /\ Offered(stable', ck') /\ stable'.sid = stable.sid
      BY <1>2, <1>5 DEF Offered
    <3> QED
      BY <3>1, OfferedStays
  <2>3. FilesInOrder(disk', stable', ck', session)
    BY <1>2, <1>5, <2>1 DEF FilesInOrder
  <2>4. Synchronized(disk', stable', pc')
    BY <1>2, <1>5, <2>1 DEF Synchronized
  <2>5. BootKnows(disk', stable', ck', pc', then')
    BY <1>5 DEF BootKnows, CleansFor, Cleaning
  <2> QED
    BY <1>1, <1>5, <2>2, <2>3, <2>4, <2>5, BootArrivesKept DEF BootSteps
<1> QED
  BY <1>4, <1>5 DEF BootEndSync, Keeps, Goto

\* The candidate is complete: whatever happens to log and backup, it is offered.
LEMMA BootMovesKept ==
    ASSUME TypeInv, KeepingInv, BootPreserve \/ BootUndo \/ BootUndoRestore
    PROVE  Arrives
<1>1. /\ pc \in {"preserve", "undo", "undoRestore"} /\ pc \in BootSteps
      /\ UNCHANGED <<ram, session, then>> /\ pc' \in {"promote", "undo", "undoRestore", "inspect"}
  BY DEF BootPreserve, BootUndo, BootUndoRestore, Keeps, Goto, BootSteps
<1>2. /\ FilesTyped(disk, stable, ck) /\ FilesInOrder(disk, stable, ck, session) /\ session \in Nat
      /\ stable = disk.tmp /\ Ended(stable)
  BY <1>1, BootFacts DEF Synchronized, BootKnows, BootSteps
<1>3. UNCHANGED store \/ MakeRoom \/ Removed("log") \/ Renamed("bak", "log")
  BY DEF BootPreserve, BootUndo, BootUndoRestore, BootCall, NoCall
<1>4. /\ FilesInOrder(disk', stable', ck', session) /\ ck' = ck /\ stable' = stable
      /\ disk'.tmp = disk.tmp
  <2>1. CASE UNCHANGED store
    BY <1>2, <2>1 DEF store
  <2>2. CASE MakeRoom
    BY <1>2, <2>2, OrderAfterRoom
  <2>3. CASE Removed("log")
    BY <1>2, <2>3, OrderAfterRemoval, StoreNumbers, RemovedFacts DEF Paths
  <2>4. CASE Renamed("bak", "log")
    BY <1>2, <2>4, OrderAfterRestore
  <2> QED
    BY <1>3, <2>1, <2>2, <2>3, <2>4
<1>5. Kept' = Kept
  BY <1>2, <1>4, OfferedStays DEF Offered
<1>6. Synchronized(disk', stable', pc')
  BY <1>2, <1>4 DEF Synchronized
<1>7. BootKnows(disk', stable', ck', pc', then')
  BY <1>1, <1>2, <1>4 DEF BootKnows, CleansFor, Cleaning
<1> QED
  BY <1>1, <1>4, <1>5, <1>6, <1>7, BootArrivesKept DEF BootSteps

LEMMA BootPromoteKept ==
    ASSUME TypeInv, KeepingInv, BootPromote
    PROVE  Arrives
<1>1. pc = "promote" /\ pc \in BootSteps /\ UNCHANGED <<ram, session, then>>
  BY DEF BootPromote, Keeps, Goto, BootSteps
<1>2. /\ FilesTyped(disk, stable, ck) /\ FilesInOrder(disk, stable, ck, session) /\ session \in Nat
      /\ stable = disk.tmp /\ Ended(stable)
  BY <1>1, BootFacts DEF Synchronized, BootKnows, BootSteps
<1>3. stable.len > 0 /\ Valid(disk.tmp)
  BY <1>2, StoreNumbers, FileStateCases, OfferedHasChunks
<1>4. CASE Renamed("tmp", "log") /\ pc' = "promoted"
  <2>1. /\ FilesInOrder(disk', stable', ck', session) /\ ck' = ck /\ stable' = NoFile
        /\ disk'.log = disk.tmp /\ disk'.bak = disk.bak /\ disk'.tmp = NoFile
    BY <1>2, <1>3, <1>4, OrderAfterPromotion
  <2>2. Kept' = Kept
    BY <1>2, <1>3, <2>1, EmptyFile DEF Kept, OfferSid, Offered
  <2>3. Synchronized(disk', stable', pc')
    BY <2>1 DEF Synchronized
  <2>4. BootKnows(disk', stable', ck', pc', then')
    BY <1>4, <2>1, EmptyFile DEF BootKnows, CleansFor, Cleaning
  <2> QED
    BY <1>1, <1>4, <2>1, <2>2, <2>3, <2>4, BootArrivesKept DEF BootSteps
<1>5. CASE UNCHANGED store /\ pc' = "undo"
  <2>1. Kept' = Kept /\ FilesInOrder(disk', stable', ck', session) /\ UNCHANGED <<disk, stable, ck>>
    BY <1>2, <1>5 DEF Kept, store
  <2>2. Synchronized(disk', stable', pc')
    BY <1>2, <2>1 DEF Synchronized
  <2>3. BootKnows(disk', stable', ck', pc', then')
    BY <1>2, <1>5, <2>1 DEF BootKnows, CleansFor, Cleaning
  <2> QED
    BY <1>1, <1>5, <2>1, <2>2, <2>3, BootArrivesKept DEF BootSteps
<1> QED
  BY <1>4, <1>5 DEF BootPromote, Keeps, Goto

LEMMA BootPromotedKept ==
    ASSUME TypeInv, KeepingInv, BootPromoted
    PROVE  Arrives
<1>1. /\ pc = "promoted" /\ pc \in BootSteps /\ UNCHANGED <<ram, session>>
      /\ pc' \in Cleaning /\ then' = "inspect"
  BY DEF BootPromoted, CleanUp, BootSteps, Cleaning
<1>2. /\ FilesTyped(disk, stable, ck) /\ FilesInOrder(disk, stable, ck, session) /\ session \in Nat
      /\ stable = disk.tmp /\ stable.len = 0
  BY <1>1, BootFacts DEF Synchronized, BootKnows, BootSteps
<1>3. UNCHANGED store \/ (Removed("bak") /\ FileState(disk.log) = "Complete")
  BY DEF BootPromoted, BootCall, NoCall
<1>4. /\ FilesInOrder(disk', stable', ck', session) /\ ck' = ck /\ stable' = stable
      /\ disk'.tmp = disk.tmp /\ disk'.log = disk.log
      /\ disk'.bak = disk.bak \/ Valid(disk.log)
  <2>1. CASE UNCHANGED store
    BY <1>2, <2>1 DEF store
  <2>2. CASE Removed("bak") /\ FileState(disk.log) = "Complete"
    BY <1>2, <2>2, OrderAfterRemoval, StoreNumbers, RemovedFacts DEF Paths, Valid
  <2> QED
    BY <1>3, <2>1, <2>2
<1>5. ~Offered(stable, ck)
  BY <1>2, StoreNumbers, OfferedHasChunks
<1>6. Kept' = Kept
  BY <1>4 DEF Kept, OfferSid
<1>7. Synchronized(disk', stable', pc')
  BY <1>2, <1>4 DEF Synchronized
<1> QED
  BY <1>1, <1>4, <1>5, <1>6, <1>7, BootCleansKept

LEMMA BootInspectKept ==
    ASSUME TypeInv, KeepingInv, BootInspect
    PROVE  Arrives
<1>1. /\ pc = "inspect" /\ pc \in BootSteps /\ UNCHANGED <<ram, session, then>> /\ pc' = "run"
      /\ UNCHANGED <<disk, stable, ck>>
  BY DEF BootInspect, NoCall, Keeps, Goto, BootSteps, store
<1>2. FilesInOrder(disk, stable, ck, session) /\ Synchronized(disk, stable, pc)
  BY <1>1, BootFacts
<1>3. Kept' = Kept /\ FilesInOrder(disk', stable', ck', session)
  BY <1>1, <1>2 DEF Kept
<1>4. Synchronized(disk', stable', pc')
  BY <1>1, <1>2 DEF Synchronized, BootSteps
<1>5. BootKnows(disk', stable', ck', pc', then')
  BY <1>1 DEF BootKnows, CleansFor, Cleaning
<1> QED
  BY <1>1, <1>3, <1>4, <1>5, BootArrivesKept

LEMMA BootKept ==
    ASSUME TypeInv, KeepingInv, Boot
    PROVE  Arrives
BY BootPrimaryKept, BootRestoreKept, BootBackupKept, BootChooseKept, BootProvenanceKept,
   BootTruncateKept, BootEndKept, BootEndSyncKept, BootMovesKept, BootPromoteKept,
   BootPromotedKept, BootInspectKept
DEF Boot
-----------------------------------------------------------------------------
\* What goes of temporary file and manifests offers nothing new.
Shrinks ==
    /\ FilesInOrder(disk', stable', ck', session) /\ disk'.log = disk.log /\ disk'.bak = disk.bak
    /\ \/ stable' = stable /\ disk'.tmp = disk.tmp
       \/ stable' = NoFile /\ disk'.tmp = NoFile
    /\ Offered(stable', ck') => stable' = stable /\ Offered(stable, ck)

LEMMA RemovalShrinks ==
    ASSUME FilesTyped(disk, stable, ck), FilesInOrder(disk, stable, ck, session), session \in Nat,
           UNCHANGED store \/ Removed("tmp") \/ (\E slot \in 0..1 : ManifestIs(slot, NoManifest))
    PROVE  Shrinks
<1>1. CASE UNCHANGED store
  BY <1>1 DEF Shrinks, store
<1>2. CASE Removed("tmp")
  BY <1>2, OrderAfterRemoval, StoreNumbers, RemovedFacts, EmptyFile DEF Shrinks, Paths
<1>3. ASSUME NEW slot \in 0..1, ManifestIs(slot, NoManifest) PROVE Shrinks
  <2>1. disk' = disk /\ stable' = stable /\ ck'[slot] = NoManifest /\ ck'[1 - slot] = ck[1 - slot]
    BY <1>3, StoreNumbers, ManifestFacts, NoFileFacts
  <2>2. ck'[0] \in {ck[0], NoManifest} /\ ck'[1] \in {ck[1], NoManifest}
    <3>1. CASE slot = 0
      BY <2>1, <3>1
    <3>2. CASE slot = 1
      BY <2>1, <3>2
    <3> QED
      BY <3>1, <3>2
  <2>3. ck'[0].sid <= session /\ ck'[1].sid <= session
    BY <2>2, EmptyFile DEF FilesInOrder
  <2>4. ASSUME HasManifest(ck', stable) PROVE HasManifest(ck, stable)
    <3>1. PICK s \in 0..1 : Authentic(ck'[s], stable)
      BY <2>4 DEF HasManifest
    <3>2. s = 0 \/ s = 1
      OBVIOUS
    <3>3. ck'[s] = ck[s]
      BY <2>2, <3>1, <3>2, NoFileFacts DEF Authentic
    <3> QED
      BY <3>1, <3>3 DEF HasManifest
  <2> QED
    BY <2>1, <2>3, <2>4 DEF Shrinks, FilesInOrder, Offered
<1> QED
  BY <1>1, <1>2, <1>3

LEMMA NoTemporaryOffersNothing ==
    ASSUME FilesTyped(disk, stable, ck), NoTemporary(disk, stable), Shrinks
    PROVE  NoTemporary(disk', stable') /\ Kept' = Kept
<1>1. ~Offered(stable, ck)
  BY StoreNumbers, OfferedHasChunks DEF NoTemporary
<1> QED
  BY <1>1, EmptyFile DEF NoTemporary, Shrinks, Kept, OfferSid

LEMMA ShrinkSynchronized ==
    ASSUME Shrinks, Synchronized(disk, stable, pc), pc \in Cleaning \cup ClearSteps
    PROVE  /\ pc' \notin BootSteps \/ pc' = "inspect" => Synchronized(disk', stable', pc')
BY EmptyFile DEF Shrinks, Synchronized, BootSteps, Cleaning, ClearSteps

LEMMA CleanUpEffect ==
    ASSUME TypeInv, KeepingInv, CleanUpStep
    PROVE  /\ Shrinks /\ pc \in Cleaning /\ UNCHANGED <<ram, session, then>> /\ FilesTyped(disk, stable, ck)
           /\ pc' \in (Cleaning \ {"rmTmp"}) \cup {then} /\ then \in {"inspect", "start", "saved", "retry"}
           /\ faults' = faults \/ faults' = faults + 1
<1>1. /\ FilesTyped(disk, stable, ck) /\ FilesInOrder(disk, stable, ck, session) /\ session \in Nat
      /\ PlaceTyped(pc, then)
  BY DEF TypeInv, CountsTyped, KeepingInv, Keeping
<1>2. /\ UNCHANGED store \/ Removed("tmp") \/ (\E slot \in 0..1 : ManifestIs(slot, NoManifest))
      /\ pc \in Cleaning /\ UNCHANGED <<ram, session, then>>
      /\ pc' \in (Cleaning \ {"rmTmp"}) \cup {then}
      /\ faults' = faults \/ faults' = faults + 1
  BY DEF CleanUpStep, Keeps, Goto, Cleaning, Works, Fails
<1> QED
  BY <1>1, <1>2, RemovalShrinks DEF PlaceTyped

\* Where removeCheckpointArtifacts is and where it returns to.
LEMMA CleaningPlaces ==
    /\ \A p \in Cleaning : /\ p \notin BootSteps /\ p \notin SaveSteps /\ p \notin ClearSteps
                           /\ ~Committing(p) /\ p \notin {"retry", "start", "run", "saved", "savedBackup"}
                           /\ p \notin {"clearBak", "clear0", "clear1", "clearEnd", "endSync", "restore",
                                        "promoted", "commit", "commitEnd"}
    /\ "inspect" \notin SaveSteps /\ "inspect" \notin ClearSteps /\ ~Committing("inspect")
    /\ "start" \notin SaveSteps /\ "start" \notin ClearSteps /\ ~Committing("start") /\ "start" \notin BootSteps
    /\ "saved" \notin BootSteps /\ "saved" \notin ClearSteps /\ ~Committing("saved") /\ "saved" \in SaveSteps
    /\ "retry" \notin SaveSteps /\ "retry" \notin ClearSteps /\ ~Committing("retry") /\ "retry" \notin BootSteps
    /\ "inspect" \notin Cleaning /\ "start" \notin Cleaning /\ "saved" \notin Cleaning /\ "retry" \notin Cleaning
    /\ \A p \in ClearSteps : /\ p \notin BootSteps /\ p \notin SaveSteps /\ ~Committing(p)
                             /\ p \notin Cleaning /\ p \notin {"retry", "start", "run"}
BY DEF Cleaning, BootSteps, SaveSteps, ClearSteps, Committing

LEMMA CleanUpIdleKept ==
    ASSUME TypeInv, KeepingInv, CleanUpStep, then \in {"inspect", "start"}
    PROVE  Arrives
<1>1. /\ Shrinks /\ pc \in Cleaning /\ UNCHANGED <<ram, session, then>> /\ FilesTyped(disk, stable, ck)
      /\ pc' \in Cleaning \cup {then}
  BY CleanUpEffect
<1>2. ram.state = "idle" /\ ram.sid = 0 /\ ~ram.open /\ Unheld(disk, stable, ck, pc, then)
  BY <1>1 DEF KeepingInv, Keeping, Control, CleansFor
<1>3. pc' \notin ClearSteps /\ pc \notin ClearSteps /\ (pc' \notin BootSteps \/ pc' = "inspect")
      /\ pc' \notin SaveSteps /\ ~Committing(pc') /\ pc' # "retry"
      /\ (pc' \in Cleaning => pc' # "start")
  BY <1>1, CleaningPlaces
<1>4. Control(ram', pc', then')
  BY <1>1, <1>2, <1>3 DEF Control, CleansFor
<1>5. Synchronized(disk', stable', pc')
  BY <1>1, <1>2, <1>3, ShrinkSynchronized DEF Unheld
<1>6. ~Offered(stable', ck') /\ Kept' = Kept
  <2>1. ~Offered(stable, ck)
    <3>1. CASE then = "inspect"
      BY <1>1, <1>2, <3>1 DEF Unheld, BootKnows, CleansFor
    <3>2. CASE then = "start"
      <4>1. NoTemporary(disk, stable)
        BY <1>1, <3>2 DEF KeepingInv, Keeping, Emptied, CleansFor
      <4> QED
        BY <1>1, <4>1, StoreNumbers, OfferedHasChunks DEF NoTemporary
    <3> QED
      BY <3>1, <3>2
  <2>2. ~Offered(stable', ck')
    BY <1>1, <2>1 DEF Shrinks
  <2> QED
    BY <1>1, <2>1, <2>2 DEF Shrinks, Kept, OfferSid
<1>7. BootKnows(disk', stable', ck', pc', then')
  BY <1>1, <1>6, CleaningPlaces DEF BootKnows, BootSteps
<1>8. Emptied(pc', then') => NoTemporary(disk', stable')
  <2>1. CASE then = "inspect"
    BY <1>1, <2>1, CleaningPlaces DEF Emptied, CleansFor
  <2>2. CASE then = "start"
    <3>1. NoTemporary(disk, stable)
      BY <1>1, <2>2 DEF KeepingInv, Keeping, Emptied, CleansFor
    <3> QED
      BY <1>1, <3>1, NoTemporaryOffersNothing
  <2> QED
    BY <2>1, <2>2
<1>9. KeepingInv'
  BY <1>1, <1>2, <1>4, <1>5, <1>7, <1>8 DEF KeepingInv, Keeping, Unheld, Shrinks
<1>10. Still
  BY <1>1, <1>3, <1>6 DEF Still, Clearing
<1> QED
  BY <1>9, <1>10 DEF Arrives, SavedMove

LEMMA CleanUpSavedKept ==
    ASSUME TypeInv, KeepingInv, CleanUpStep, then = "saved"
    PROVE  Arrives
<1>1. /\ Shrinks /\ pc \in Cleaning /\ UNCHANGED <<ram, session, then>> /\ FilesTyped(disk, stable, ck)
      /\ pc' \in Cleaning \cup {"saved"}
  BY CleanUpEffect
<1>2. ram.state = "saving" /\ ram.sid # 0 /\ IsHeld(disk, stable, ck, ram, session, pc, then)
      /\ ram.size > 0
  BY <1>1 DEF KeepingInv, Keeping, Control, CleansFor
<1>3. IsTheLog(pc, then) /\ IsTheLog(pc', then')
  BY <1>1 DEF IsTheLog, CleansFor
<1>4. NoTemporary(disk, stable)
  BY <1>2, <1>3 DEF IsHeld, HeldFiles
<1>5. NoTemporary(disk', stable') /\ Kept' = Kept
  BY <1>1, <1>4, NoTemporaryOffersNothing
<1>6. /\ pc' \notin BootSteps /\ pc' \notin ClearSteps /\ pc \notin ClearSteps /\ ~Committing(pc')
      /\ pc' \notin {"retry", "start", "run", "commit", "commitEnd"}
  BY <1>1, CleaningPlaces
<1>7. Control(ram', pc', then')
  BY <1>1, <1>2, <1>6, CleaningPlaces DEF Control, CleansFor
<1>8. Ended(stable') => stable' = disk'.tmp
  BY <1>1, <1>2, EmptyFile DEF IsHeld, HeldFiles, Shrinks
<1>9. pc' \notin {"savePreserve", "saveRename", "saveUndo"}
  BY <1>1 DEF Cleaning
<1>10. HeldFiles(disk', stable', ram', session', pc', then')
  BY <1>1, <1>2, <1>3, <1>5, <1>8, <1>9 DEF IsHeld, HeldFiles, Shrinks, NoTemporary
<1>11. Progress(disk', stable', ram', pc') /\ SlotsTurn(stable', ck', ram')
  BY <1>1, <1>2, <1>6 DEF Progress, SlotsTurn
<1>12. KeepingInv'
  BY <1>1, <1>2, <1>5, <1>7, <1>10, <1>11 DEF KeepingInv, Keeping, IsHeld, Shrinks
<1>13. Still
  BY <1>1, <1>5, <1>6 DEF Still, Clearing
<1> QED
  BY <1>12, <1>13 DEF Arrives, SavedMove

\* A save has failed, and files go.
LEMMA FailedHeld ==
    ASSUME TypeInv, KeepingInv, ram.state = "failed", UNCHANGED <<ram, session>>,
           disk'.log \in {disk.log, NoFile}, disk'.bak \in {disk.bak, NoFile},
           \/ stable' = stable /\ disk'.tmp = disk.tmp
           \/ stable' = NoFile /\ disk'.tmp = NoFile,
           ~IsTheLog(pc', then'), pc' \notin SaveSteps, ~Committing(pc')
    PROVE  IsHeld(disk', stable', ck', ram', session', pc', then')
<1>1. ram.sid # 0 /\ IsHeld(disk, stable, ck, ram, session, pc, then) /\ ram.sid \in Nat
  <2>1. ram.sid # 0
    BY DEF KeepingInv, Keeping, Control
  <2> QED
    BY <2>1 DEF KeepingInv, Keeping, TypeInv, RamTyped
<1>2. ~IsTheLog(pc, then)
  BY DEF IsTheLog, KeepingInv, Keeping, Control, SaveSteps
<1>3. 0 < ram.sid
  BY <1>1
<1>4. disk'.bak.sid < ram.sid /\ disk'.log.sid < ram.sid
  BY <1>1, <1>2, <1>3, EmptyFile DEF IsHeld, HeldFiles
<1>5. pc' \notin {"savePreserve", "saveRename", "saveUndo"} /\ pc' \notin {"commit", "commitEnd"}
  BY DEF SaveSteps, Committing
<1>6. /\ stable'.len > 0 => stable'.sid = ram.sid
      /\ disk'.tmp.len > 0 => disk'.tmp.sid = ram.sid
      /\ stable'.len <= disk'.tmp.len
      /\ Ended(stable') => stable' = disk'.tmp
  BY <1>1, EmptyFile DEF IsHeld, HeldFiles
<1>7. HeldFiles(disk', stable', ram', session', pc', then')
  BY <1>1, <1>4, <1>5, <1>6 DEF IsHeld, HeldFiles
<1>8. Progress(disk', stable', ram', pc') /\ SlotsTurn(stable', ck', ram')
  BY <1>5 DEF Progress, SlotsTurn
<1> QED
  BY <1>7, <1>8 DEF IsHeld

LEMMA FailedMeansFault ==
    ASSUME TypeInv, RecoveryInv, ram.state = "failed" \/ (pc \in Cleaning /\ then = "retry")
    PROVE  faults > 0
<1>1. CASE faults = 0
  BY <1>1 DEF RecoveryInv, Good, Places
<1>2. CASE faults # 0
  BY <1>2 DEF RecoveryInv
<1> QED
  BY <1>1, <1>2

\* What is offered instead, while a session is held, is older than it.
LEMMA HeldGoesBack ==
    ASSUME TypeInv, KeepingInv, ram.sid # 0, ~IsTheLog(pc, then), Shrinks
    PROVE  Kept' = Kept \/ (Kept = ram.sid /\ Kept' < Kept)
<1>1. /\ HeldFiles(disk, stable, ram, session, pc, then) /\ ram.sid \in Nat
      /\ FilesTyped(disk, stable, ck)
  BY DEF KeepingInv, Keeping, IsHeld, TypeInv, RamTyped
<1>2. CASE Offered(stable', ck')
  BY <1>2 DEF Shrinks, Kept, OfferSid
<1>3. CASE ~Offered(stable, ck)
  BY <1>3 DEF Shrinks, Kept, OfferSid
<1>4. CASE Offered(stable, ck) /\ ~Offered(stable', ck')
  <2>1. Kept = ram.sid
    BY <1>1, <1>4, StoreNumbers, OfferedHasChunks DEF Kept, OfferSid, HeldFiles
  <2>2. Kept' \in {disk.log.sid, disk.bak.sid, 0}
    BY <1>4 DEF Shrinks, Kept, OfferSid
  <2> QED
    BY <1>1, <2>1, <2>2 DEF HeldFiles
<1> QED
  BY <1>2, <1>3, <1>4

LEMMA CleanUpRetryKept ==
    ASSUME TypeInv, RecoveryInv, KeepingInv, CleanUpStep, then = "retry"
    PROVE  Arrives
<1>1. /\ Shrinks /\ pc \in Cleaning /\ UNCHANGED <<ram, session, then>> /\ FilesTyped(disk, stable, ck)
      /\ pc' \in Cleaning \cup {"retry"} /\ (faults' = faults \/ faults' = faults + 1)
  BY CleanUpEffect
<1>2. ram.state = "failed" /\ ram.sid # 0 /\ ram.size > 0 /\ ~ram.open
  BY <1>1 DEF KeepingInv, Keeping, Control, CleansFor
<1>3. /\ pc' \notin BootSteps /\ pc' \notin ClearSteps /\ pc \notin ClearSteps /\ ~Committing(pc')
      /\ pc' \notin SaveSteps /\ pc' \notin {"start", "savedBackup", "saved"}
  BY <1>1, CleaningPlaces
<1>4. ~IsTheLog(pc', then') /\ ~IsTheLog(pc, then) /\ ~Emptied(pc', then')
  BY <1>1, <1>3, CleaningPlaces DEF IsTheLog, CleansFor, Emptied
<1>5. IsHeld(disk', stable', ck', ram', session', pc', then')
  BY <1>1, <1>2, <1>3, <1>4, FailedHeld DEF Shrinks
<1>6. Control(ram', pc', then')
  BY <1>1, <1>2, <1>3 DEF Control, CleansFor
<1>7. KeepingInv'
  BY <1>1, <1>2, <1>4, <1>5, <1>6 DEF KeepingInv, Keeping, Shrinks
<1>8. faults' > 0
  <2>1. faults > 0 /\ faults \in Nat
    BY <1>2, FailedMeansFault DEF RecoveryInv
  <2> QED
    BY <1>1, <2>1
<1>9. Kept' = Kept \/ (Kept = ram.sid /\ Kept' < Kept)
  BY <1>1, <1>2, <1>4, HeldGoesBack
<1>10. ram.sid' = ram.sid /\ Clearing' = Clearing
  BY <1>1, <1>3 DEF Clearing
<1>11. SavedMove
  BY <1>2, <1>8, <1>9, <1>10 DEF SavedMove, Still
<1> QED
  BY <1>7, <1>11 DEF Arrives

LEMMA CleanUpKept ==
    ASSUME TypeInv, RecoveryInv, KeepingInv, CleanUpStep
    PROVE  Arrives
BY CleanUpEffect, CleanUpIdleKept, CleanUpSavedKept, CleanUpRetryKept

-----------------------------------------------------------------------------
(* clear(). *)

\* Without a file what is offered is older, or it stays.
LEMMA FewerFilesOfferLess ==
    ASSUME FilesTyped(disk, stable, ck), FilesInOrder(disk, stable, ck, session), session \in Nat,
           Removed("log") \/ Removed("bak") \/ Shrinks
    PROVE  Kept' <= Kept
<1>1. CASE Removed("log")
  <2>1. disk'.log = NoFile /\ disk'.bak = disk.bak /\ ck' = ck /\ stable' = stable
    BY <1>1, StoreNumbers, RemovedFacts DEF Paths
  <2>2. CASE Offered(stable, ck)
    BY <2>1, <2>2, StoreNumbers DEF Kept, OfferSid
  <2>3. CASE ~Offered(stable, ck) /\ Valid(disk.log)
    <3>1. disk.bak.sid <= disk.log.sid
      BY <2>3, StoreNumbers, OfferedHasChunks DEF FilesInOrder
    <3>2. Kept = disk.log.sid /\ Kept' \in {disk.bak.sid, 0}
      BY <2>1, <2>3, EmptyFile DEF Kept, OfferSid
    <3> QED
      BY <3>1, <3>2, StoreNumbers
  <2>4. CASE ~Offered(stable, ck) /\ ~Valid(disk.log)
    <3>1. Kept' = Kept /\ Kept \in Nat
      BY <2>1, <2>4, EmptyFile, StoreNumbers DEF Kept, OfferSid
    <3> QED
      BY <3>1
  <2> QED
    BY <2>2, <2>3, <2>4
<1>2. CASE Removed("bak")
  <2>1. disk'.log = disk.log /\ disk'.bak = NoFile /\ ck' = ck /\ stable' = stable
    BY <1>2, StoreNumbers, RemovedFacts DEF Paths
  <2>2. Kept' \in {Kept, 0} /\ Kept \in Nat
    BY <2>1, EmptyFile, StoreNumbers DEF Kept, OfferSid
  <2> QED
    BY <2>2
<1>3. CASE Shrinks
  <2>1. CASE Offered(stable', ck') \/ ~Offered(stable, ck)
    <3>1. Kept' = Kept /\ Kept \in Nat
      BY <1>3, <2>1, StoreNumbers DEF Shrinks, Kept, OfferSid
    <3> QED
      BY <3>1
  <2>2. CASE ~Offered(stable', ck') /\ Offered(stable, ck)
    <3>1. Kept = stable.sid /\ Kept' \in {disk.log.sid, disk.bak.sid, 0}
      BY <1>3, <2>2 DEF Shrinks, Kept, OfferSid
    <3>2. disk.log.sid <= stable.sid /\ disk.bak.sid <= stable.sid /\ 0 <= stable.sid
      BY <2>2, StoreNumbers, OfferedHasChunks DEF FilesInOrder
    <3> QED
      BY <3>1, <3>2
  <2> QED
    BY <2>1, <2>2
<1> QED
  BY <1>1, <1>2, <1>3

LEMMA ClearKept ==
    ASSUME TypeInv, KeepingInv, Clear
    PROVE  Arrives
<1>1. /\ pc = "run" /\ ram.state \in {"idle", "failed"} /\ UNCHANGED <<ram, session, disk, stable, ck>>
      /\ pc' = "clearLog" /\ then' = "cleared"
  BY DEF Clear, Running, Quiet, store
<1>2. Clearing' /\ pc' \notin Cleaning /\ pc' \notin BootSteps /\ pc' \notin SaveSteps /\ ~Committing(pc')
  BY <1>1 DEF Clearing, ClearSteps, Cleaning, BootSteps, SaveSteps, Committing
<1>3. Control(ram', pc', then')
  BY <1>1, <1>2 DEF Control, CleansFor, KeepingInv, Keeping
<1>4. ~Emptied(pc', then') /\ ~IsTheLog(pc', then')
  BY <1>1 DEF Emptied, CleansFor, IsTheLog, Cleaning
<1>5. CASE ram.sid = 0
  <2>1. Synchronized(disk', stable', pc')
    BY <1>1, <1>2, <1>5 DEF KeepingInv, Keeping, Unheld, Synchronized
  <2>2. BootKnows(disk', stable', ck', pc', then')
    BY <1>1 DEF BootKnows, CleansFor, Cleaning
  <2>3. KeepingInv'
    BY <1>1, <1>3, <1>4, <1>5, <2>1, <2>2 DEF KeepingInv, Keeping, Unheld
  <2> QED
    BY <1>1, <1>2, <2>3 DEF Arrives, SavedMove, Kept
<1>6. CASE ram.sid # 0
  <2>1. ram.state = "failed"
    BY <1>1, <1>6 DEF KeepingInv, Keeping, Control
  <2>2. IsHeld(disk', stable', ck', ram', session', pc', then')
    BY <1>1, <1>2, <1>4, <2>1, FailedHeld
  <2>3. KeepingInv'
    BY <1>1, <1>3, <1>4, <1>6, <2>2 DEF KeepingInv, Keeping
  <2> QED
    BY <1>1, <1>2, <2>3 DEF Arrives, SavedMove, Kept
<1> QED
  BY <1>5, <1>6

LEMMA ClearEffect ==
    ASSUME TypeInv, KeepingInv, ClearStep
    PROVE  /\ pc \in ClearSteps /\ pc' \in ClearSteps \ {"clearLog"} /\ UNCHANGED <<ram, session>>
           /\ FilesTyped(disk, stable, ck) /\ FilesInOrder(disk, stable, ck, session) /\ session \in Nat
           /\ FilesInOrder(disk', stable', ck', session)
           /\ disk'.log \in {disk.log, NoFile} /\ disk'.bak \in {disk.bak, NoFile}
           /\ \/ stable' = stable /\ disk'.tmp = disk.tmp
              \/ stable' = NoFile /\ disk'.tmp = NoFile
           /\ Kept' <= Kept
           /\ then' = "cleared" => then = "cleared" /\ (pc = "clearTmp" => disk'.tmp = NoFile /\ stable' = NoFile)
           /\ pc' \in {"clearTmp", "clearBak"} => pc = IF pc' = "clearTmp" THEN "clearLog" ELSE "clearTmp"
<1>1. /\ FilesTyped(disk, stable, ck) /\ FilesInOrder(disk, stable, ck, session) /\ session \in Nat
  BY DEF TypeInv, CountsTyped, KeepingInv, Keeping
<1>2. /\ pc \in {"clearLog", "clearTmp", "clearBak", "clear0", "clear1"}
      /\ pc' = ClearNext[pc] /\ UNCHANGED <<ram, session>>
  BY DEF ClearStep, ClearNext
<1>3. /\ pc \in ClearSteps /\ pc' \in ClearSteps \ {"clearLog"}
      /\ pc' \in {"clearTmp", "clearBak"} => pc = IF pc' = "clearTmp" THEN "clearLog" ELSE "clearTmp"
  BY <1>2 DEF ClearNext, ClearSteps
<1>4. \/ Removed("log") \/ Removed("bak")
      \/ UNCHANGED store \/ Removed("tmp") \/ (\E slot \in 0..1 : ManifestIs(slot, NoManifest))
  BY DEF ClearStep
<1>5. /\ FilesInOrder(disk', stable', ck', session)
      /\ disk'.log \in {disk.log, NoFile} /\ disk'.bak \in {disk.bak, NoFile}
      /\ \/ stable' = stable /\ disk'.tmp = disk.tmp
         \/ stable' = NoFile /\ disk'.tmp = NoFile
      /\ Kept' <= Kept
  <2>1. CASE Removed("log") \/ Removed("bak")
    BY <1>1, <2>1, OrderAfterRemoval, FewerFilesOfferLess, StoreNumbers, RemovedFacts DEF Paths
  <2>2. CASE UNCHANGED store \/ Removed("tmp") \/ (\E slot \in 0..1 : ManifestIs(slot, NoManifest))
    <3>1. Shrinks
      BY <1>1, <2>2, RemovalShrinks
    <3>2. Kept' <= Kept
      BY <1>1, <3>1, FewerFilesOfferLess
    <3> QED
      BY <3>1, <3>2 DEF Shrinks
  <2> QED
    BY <1>4, <2>1, <2>2
<1>6. then' = "cleared" => then = "cleared" /\ (pc = "clearTmp" => disk'.tmp = NoFile /\ stable' = NoFile)
  <2> SUFFICES ASSUME then' = "cleared"
               PROVE  then = "cleared" /\ (pc = "clearTmp" => Removed("tmp"))
    BY <1>1, StoreNumbers, RemovedFacts DEF Paths
  <2> QED
    BY DEF ClearStep
<1> QED
  BY <1>1, <1>2, <1>3, <1>5, <1>6

LEMMA ClearStepKept ==
    ASSUME TypeInv, KeepingInv, ClearStep
    PROVE  Arrives
<1>1. /\ pc \in ClearSteps /\ pc' \in ClearSteps \ {"clearLog"} /\ UNCHANGED <<ram, session>>
      /\ FilesInOrder(disk', stable', ck', session)
      /\ disk'.log \in {disk.log, NoFile} /\ disk'.bak \in {disk.bak, NoFile}
      /\ \/ stable' = stable /\ disk'.tmp = disk.tmp
         \/ stable' = NoFile /\ disk'.tmp = NoFile
      /\ Kept' <= Kept
      /\ then' = "cleared" => then = "cleared" /\ (pc = "clearTmp" => disk'.tmp = NoFile /\ stable' = NoFile)
      /\ pc' \in {"clearTmp", "clearBak"} => pc = IF pc' = "clearTmp" THEN "clearLog" ELSE "clearTmp"
  BY ClearEffect
<1>2. ram.state \in {"idle", "failed"} /\ (ram.state # "idle" => ram.size > 0) /\ ~ram.open
      /\ (ram.sid = 0 <=> ram.state = "idle")
  BY <1>1 DEF KeepingInv, Keeping, Control
<1>3. /\ pc' \notin BootSteps /\ pc' \notin SaveSteps /\ ~Committing(pc') /\ pc' \notin Cleaning
      /\ pc' \notin {"retry", "start", "run"} /\ ~IsTheLog(pc', then')
  BY <1>1, CleaningPlaces DEF IsTheLog, CleansFor, SaveSteps
<1>4. Control(ram', pc', then')
  BY <1>1, <1>2, <1>3 DEF Control, CleansFor
<1>5. Emptied(pc', then') => NoTemporary(disk', stable')
  <2> SUFFICES ASSUME Emptied(pc', then') PROVE NoTemporary(disk', stable')
    OBVIOUS
  <2>1. then = "cleared" /\ pc' # "clearTmp" /\ then' = "cleared"
    BY <1>1, <1>3 DEF Emptied, CleansFor
  <2>2. CASE pc = "clearTmp"
    BY <1>1, <2>1, <2>2, EmptyFile DEF NoTemporary
  <2>3. CASE pc # "clearTmp"
    <3>1. pc # "clearLog"
      BY <2>1 DEF ClearStep, ClearNext
    <3>2. Emptied(pc, then)
      BY <1>1, <2>1, <2>3, <3>1 DEF Emptied, ClearSteps
    <3> QED
      BY <1>1, <3>2, EmptyFile DEF KeepingInv, Keeping, NoTemporary
  <2> QED
    BY <2>2, <2>3
<1>6. KeepingInv'
  <2>1. CASE ram.sid = 0
    <3>1. Synchronized(disk', stable', pc')
      BY <1>1, <1>3, <2>1, EmptyFile, CleaningPlaces DEF KeepingInv, Keeping, Unheld, Synchronized, ClearSteps
    <3>2. BootKnows(disk', stable', ck', pc', then')
      BY <1>3 DEF BootKnows, BootSteps, CleansFor
    <3> QED
      BY <1>1, <1>4, <1>5, <2>1, <3>1, <3>2 DEF KeepingInv, Keeping, Unheld
  <2>2. CASE ram.sid # 0
    <3>1. IsHeld(disk', stable', ck', ram', session', pc', then')
      BY <1>1, <1>2, <1>3, <2>2, FailedHeld
    <3> QED
      BY <1>1, <1>4, <1>5, <2>2, <3>1 DEF KeepingInv, Keeping
  <2> QED
    BY <2>1, <2>2
<1>7. SavedMove
  BY <1>1 DEF SavedMove, Clearing
<1> QED
  BY <1>6, <1>7 DEF Arrives

LEMMA ClearEndKept ==
    ASSUME TypeInv, KeepingInv, ClearEnd
    PROVE  Arrives
<1>1. /\ pc = "clearEnd" /\ pc \in ClearSteps /\ UNCHANGED <<disk, stable, ck, session>>
      /\ ram' = (IF then = "cleared" THEN IdleRam ELSE ram) /\ pc' = "run" /\ then' = "inspect"
  BY DEF ClearEnd, Quiet, store, ClearSteps
<1>2. ram.state \in {"idle", "failed"} /\ (ram.state # "idle" => ram.size > 0) /\ ~ram.open
      /\ (ram.sid = 0 <=> ram.state = "idle")
  BY <1>1 DEF KeepingInv, Keeping, Control
<1>3. IdleRam.sid = 0 /\ IdleRam.state = "idle" /\ ~IdleRam.open
  BY DEF IdleRam
<1>4. /\ pc' \notin BootSteps /\ pc' \notin SaveSteps /\ ~Committing(pc') /\ pc' \notin Cleaning
      /\ pc' \notin ClearSteps /\ ~IsTheLog(pc', then') /\ ~Emptied(pc', then')
  BY <1>1 DEF IsTheLog, CleansFor, SaveSteps, BootSteps, Committing, Cleaning, ClearSteps, Emptied
<1>5. Control(ram', pc', then')
  BY <1>1, <1>2, <1>3, <1>4 DEF Control, CleansFor
<1>6. BootKnows(disk', stable', ck', pc', then')
  BY <1>4, <1>1 DEF BootKnows, CleansFor
<1>7. ram'.sid = 0 => Synchronized(disk', stable', pc')
  <2>1. CASE ram.sid = 0
    BY <1>1, <1>4, <2>1 DEF KeepingInv, Keeping, Unheld, Synchronized
  <2>2. CASE ram.sid # 0 /\ then = "cleared"
    <3>1. NoTemporary(disk, stable)
      BY <1>1, <2>2 DEF KeepingInv, Keeping, Emptied
    <3>2. ~Ended(stable) /\ ~Ended(disk.tmp)
      BY <3>1, StoreNumbers, OfferedHasChunks DEF NoTemporary, TypeInv
    <3> QED
      BY <1>1, <1>4, <3>1, <3>2, StoreNumbers DEF NoTemporary, Synchronized, TypeInv
  <2> QED
    BY <1>1, <2>1, <2>2
<1>8. ram'.sid # 0 => IsHeld(disk', stable', ck', ram', session', pc', then')
  BY <1>1, <1>2, <1>3, <1>4, FailedHeld
<1>9. KeepingInv'
  BY <1>1, <1>4, <1>5, <1>6, <1>7, <1>8 DEF KeepingInv, Keeping, Unheld
<1>10. SavedMove
  BY <1>1, <1>3, <1>4 DEF SavedMove, Clearing, Kept
<1> QED
  BY <1>9, <1>10 DEF Arrives

LEMMA DeletionKept ==
    ASSUME TypeInv, KeepingInv, Deletion
    PROVE  Arrives
BY ClearKept, ClearStepKept, ClearEndKept DEF Deletion

-----------------------------------------------------------------------------
(* A recording. *)

\* The places between which the recorder works on the session it holds.
AtWork(p) == p \in {"run", "close", "commit", "commitEnd"}
LEMMA WorkPlaces ==
    ASSUME NEW p, NEW t, AtWork(p)
    PROVE  /\ p \notin BootSteps /\ p \notin SaveSteps /\ p \notin ClearSteps /\ p \notin Cleaning
           /\ p # "start" /\ p # "retry" /\ ~IsTheLog(p, t) /\ ~Emptied(p, t)
           /\ \A next : ~CleansFor(p, t, next)
           /\ p \notin {"savePreserve", "saveRename", "saveUndo"}
BY DEF AtWork, BootSteps, SaveSteps, ClearSteps, Cleaning, IsTheLog, CleansFor, Emptied

\* A step on the held session.
LEMMA WorkArrives ==
    ASSUME TypeInv, KeepingInv, AtWork(pc'), FilesInOrder(disk', stable', ck', session'),
           ram'.sid # 0, ram'.state # "idle", ram'.size > 0, ram'.open => ram'.state = "saving",
           Committing(pc') => ram'.state = "recording" /\ ~ram'.ckFailed /\ ram'.off > 0,
           HeldFiles(disk', stable', ram', session', pc', then'), Progress(disk', stable', ram', pc'),
           SlotsTurn(stable', ck', ram')
    PROVE  KeepingInv'
<1>1. Control(ram', pc', then') /\ ~Emptied(pc', then')
  BY WorkPlaces DEF Control
<1> QED
  BY <1>1 DEF KeepingInv, Keeping, IsHeld

LEMMA WorkFacts ==
    ASSUME TypeInv, KeepingInv, AtWork(pc), ram.state # "idle"
    PROVE  /\ FilesTyped(disk, stable, ck) /\ FilesInOrder(disk, stable, ck, session)
           /\ session \in Nat /\ ram.sid \in Nat /\ ram.sid # 0 /\ ram.size > 0
           /\ ram.size \in Nat /\ ram.off \in Nat /\ ram.saveOff \in Nat /\ ram.off <= ram.size
           /\ HeldFiles(disk, stable, ram, session, pc, then) /\ Progress(disk, stable, ram, pc)
           /\ SlotsTurn(stable, ck, ram)
           /\ ram.open => ram.state = "saving"
           /\ Committing(pc) => ram.state = "recording" /\ ~ram.ckFailed /\ ram.off > 0
           /\ disk.log.sid < ram.sid /\ disk.bak.sid < ram.sid
<1>1. ram.sid # 0 /\ ~IsTheLog(pc, then)
  BY WorkPlaces DEF KeepingInv, Keeping, Control
<1>2. ram.sid \in Nat /\ ram.size \in Nat /\ ram.off \in Nat /\ ram.saveOff \in Nat /\ session \in Nat
  BY DEF TypeInv, RamTyped, CountsTyped
<1> QED
  BY <1>1, <1>2 DEF KeepingInv, Keeping, Control, IsHeld, HeldFiles, TypeInv, InRange

LEMMA StartKept ==
    ASSUME TypeInv, KeepingInv, Start
    PROVE  Arrives
<1>1. /\ pc = "run" /\ ram.state = "idle" /\ disk.tmp = NoFile /\ UNCHANGED <<disk, stable, ck, ram, session>>
      /\ pc' = "rm0" /\ then' = "start"
  BY DEF Start, Running, Exists, Quiet, store, CleanUp
<1>2. /\ ram.sid = 0 /\ ~ram.open /\ FilesInOrder(disk, stable, ck, session)
      /\ Synchronized(disk, stable, pc)
  BY <1>1 DEF KeepingInv, Keeping, Control, Unheld
<1>3. pc' \in Cleaning /\ pc' \notin BootSteps /\ pc' \notin SaveSteps /\ pc' \notin ClearSteps /\ pc \notin ClearSteps /\ ~Committing(pc')
      /\ pc' # "retry"
  BY <1>1 DEF Cleaning, BootSteps, SaveSteps, ClearSteps, Committing
<1>4. Control(ram', pc', then')
  BY <1>1, <1>2, <1>3 DEF Control, CleansFor
<1>5. Synchronized(disk', stable', pc')
  BY <1>1, <1>2, <1>3 DEF Synchronized
<1>6. BootKnows(disk', stable', ck', pc', then')
  BY <1>1, <1>3 DEF BootKnows, BootSteps, CleansFor
<1>7. NoTemporary(disk', stable')
  BY <1>1, <1>2, EmptyFile DEF NoTemporary, Synchronized
<1>8. KeepingInv'
  BY <1>1, <1>2, <1>4, <1>5, <1>6, <1>7 DEF KeepingInv, Keeping, Unheld
<1> QED
  BY <1>1, <1>3, <1>8 DEF Arrives, SavedMove, Still, Kept, Clearing

\* The number of a session is on none of the files that are there.
LEMMA StartedKept ==
    ASSUME TypeInv, KeepingInv, Started
    PROVE  Arrives
<1>1. /\ pc = "start" /\ UNCHANGED <<disk, stable, ck, then>> /\ pc' = "run"
      /\ \/ UNCHANGED <<ram, session>>
         \/ \E durable \in BOOLEAN :
              /\ session' = session + 1
              /\ ram' = [IdleRam EXCEPT !.state = "recording", !.sid = session + 1,
                                        !.size = 1, !.durable = durable]
  BY DEF Started, Quiet, Goto, store
<1>2. /\ ram.sid = 0 /\ ram.state = "idle" /\ ~ram.open /\ FilesInOrder(disk, stable, ck, session)
      /\ Synchronized(disk, stable, pc) /\ session \in Nat /\ NoTemporary(disk, stable)
      /\ FilesTyped(disk, stable, ck)
  <2>1. ram.state = "idle" /\ ram.sid = 0
    BY <1>1 DEF KeepingInv, Keeping, Control
  <2>2. ~ram.open
    BY <2>1 DEF KeepingInv, Keeping, Control
  <2>3. NoTemporary(disk, stable)
    BY <1>1 DEF KeepingInv, Keeping, Emptied
  <2>4. FilesInOrder(disk, stable, ck, session) /\ Synchronized(disk, stable, pc)
    BY <2>1 DEF KeepingInv, Keeping, Unheld
  <2>5. session \in Nat /\ FilesTyped(disk, stable, ck)
    BY DEF TypeInv, CountsTyped
  <2> QED
    BY <2>1, <2>2, <2>3, <2>4, <2>5
<1>3. Clearing' = Clearing /\ AtWork(pc') /\ Kept' = Kept
  <2>1. ~Clearing /\ ~Clearing'
    BY <1>1 DEF Clearing, ClearSteps
  <2>2. AtWork(pc') /\ Kept' = Kept
    BY <1>1 DEF AtWork, Kept
  <2> QED
    BY <2>1, <2>2 DEF Clearing
<1>4. CASE UNCHANGED <<ram, session>>
  <2>1. Control(ram', pc', then') /\ ~Emptied(pc', then')
    BY <1>1, <1>2, <1>3, <1>4, WorkPlaces DEF Control, Committing
  <2>2. Synchronized(disk', stable', pc')
    BY <1>1, <1>2, <1>3, WorkPlaces DEF Synchronized
  <2>3. BootKnows(disk', stable', ck', pc', then')
    BY <1>1 DEF BootKnows, CleansFor, Cleaning
  <2>4. KeepingInv'
    BY <1>1, <1>2, <1>4, <2>1, <2>2, <2>3 DEF KeepingInv, Keeping, Unheld
  <2> QED
    BY <1>3, <1>4, <2>4 DEF Arrives, SavedMove, Still
<1>5. ASSUME NEW durable \in BOOLEAN, session' = session + 1,
             ram' = [IdleRam EXCEPT !.state = "recording", !.sid = session + 1,
                                    !.size = 1, !.durable = durable]
      PROVE  Arrives
  <2>0. PICK n \in Nat : n = session + 1 /\ n > session /\ n # 0
    BY <1>2
  <2>1. /\ ram'.sid = n /\ ram'.state = "recording" /\ ram'.size = 1 /\ ~ram'.open
        /\ ram'.off = 0 /\ ram'.ckFailed = FALSE /\ session' = n
    BY <1>5, <2>0 DEF IdleRam
  <2>2. FilesInOrder(disk', stable', ck', session')
    <3>1. \A k \in Nat : k <= session => k <= n
      BY <1>2, <2>0
    <3> QED
      BY <1>1, <1>2, <2>1, <3>1, StoreNumbers DEF FilesInOrder
  <2>3. ~Ended(stable) /\ ~Ended(disk.tmp)
    BY <1>2, StoreNumbers, OfferedHasChunks DEF NoTemporary
  <2>4. HeldFiles(disk', stable', ram', session', pc', then')
    <3>1. disk.log.sid < n /\ disk.bak.sid < n
      BY <1>2, <2>0, StoreNumbers DEF FilesInOrder
    <3>2. ~IsTheLog(pc', then') /\ pc' \notin {"savePreserve", "saveRename", "saveUndo"}
      BY <1>3, WorkPlaces
    <3>3. disk'.tmp.len = 0 /\ stable'.len = 0
      BY <1>1, <1>2 DEF NoTemporary
    <3>4. n <= n /\ ~(0 > 0) /\ 0 <= 0
      BY <2>0
    <3>5. ~Ended(stable')
      BY <1>1, <2>3
    <3>6. disk'.log.sid < ram'.sid /\ disk'.bak.sid < ram'.sid /\ ram'.sid <= session'
      BY <1>1, <2>1, <3>1, <3>4
    <3> QED
      BY <3>2, <3>3, <3>4, <3>5, <3>6 DEF HeldFiles
  <2>5. Progress(disk', stable', ram', pc')
    BY <1>1, <1>2, <2>1, <2>3 DEF Progress, NoTemporary
  <2>6. SlotsTurn(stable', ck', ram')
    <3>1. ck[0].sid # n /\ ck[1].sid # n
      BY <1>2, <2>0, StoreNumbers DEF FilesInOrder
    <3> QED
      BY <1>1, <2>1, <3>1 DEF SlotsTurn, Mine
  <2>7. KeepingInv'
    <3>2. ram'.sid # 0
      BY <2>0, <2>1
    <3>3. ram'.size > 0
      BY <2>1
    <3>4. ~Committing(pc')
      BY <1>1 DEF Committing
    <3>1. ram'.sid # 0 /\ ram'.size > 0 /\ ~Committing(pc')
      BY <3>2, <3>3, <3>4
    <3> QED
      BY <1>3, <2>1, <2>2, <2>4, <2>5, <2>6, <3>1, WorkArrives
  <2>8. Kept <= session
    BY <1>2, StoreNumbers DEF Kept, OfferSid, FilesInOrder
  <2>9. Kept \in Nat
    BY <1>2, StoreNumbers DEF Kept, OfferSid
  <2>10. ram'.sid > Kept
    BY <1>2, <2>0, <2>1, <2>8, <2>9
  <2> QED
    BY <1>2, <1>3, <2>7, <2>10 DEF Arrives, SavedMove
<1> QED
  BY <1>1, <1>4, <1>5

\* What was offered of the held session still is when more of it is synced.
LEMMA SyncOffersMore ==
    ASSUME TypeInv, KeepingInv, AtWork(pc), ram.state # "idle", Synced, ~Ended(stable) \/ Ended(disk.tmp)
    PROVE  /\ UNCHANGED <<disk, ck>> /\ stable' = disk.tmp
           /\ FilesInOrder(disk', stable', ck', session)
           /\ Kept' \in {Kept, ram.sid}
<1>1. UNCHANGED <<disk, ck>> /\ stable' = disk.tmp
  BY DEF Synced
<1>2. /\ FilesTyped(disk, stable, ck) /\ FilesInOrder(disk, stable, ck, session)
      /\ HeldFiles(disk, stable, ram, session, pc, then)
      /\ disk.log.sid < ram.sid /\ disk.bak.sid < ram.sid /\ ram.sid \in Nat
  BY WorkFacts
<1>3. FilesInOrder(disk', stable', ck', session)
  BY <1>1, <1>2, StoreNumbers DEF FilesInOrder, HeldFiles
<1>4. Offered(stable, ck) => Offered(disk.tmp, ck)
  <2>1. CASE Ended(stable)
    BY <2>1 DEF Offered
  <2>2. ASSUME HasManifest(ck, stable) PROVE HasManifest(ck, disk.tmp)
    <3>1. PICK slot \in 0..1 : Authentic(ck[slot], stable)
      BY <2>2 DEF HasManifest
    <3>2. stable.len > 0 /\ stable.len <= disk.tmp.len
      BY <1>2, <2>2, StoreNumbers, OfferedHasChunks DEF HeldFiles
    <3>3. stable.sid = ram.sid /\ disk.tmp.sid = ram.sid
      BY <1>2, <3>2, StoreNumbers DEF HeldFiles
    <3>4. Authentic(ck[slot], disk.tmp)
      BY <1>2, <3>1, <3>2, <3>3, StoreNumbers DEF Authentic, PrefixValid
    <3> QED
      BY <3>4 DEF HasManifest
  <2> QED
    BY <2>1, <2>2 DEF Offered
<1>5. Offered(disk.tmp, ck) => disk.tmp.sid = ram.sid
  BY <1>2, StoreNumbers, OfferedHasChunks DEF HeldFiles
<1>6. Kept' \in {Kept, ram.sid}
  BY <1>1, <1>4, <1>5 DEF Kept, OfferSid
<1> QED
  BY <1>1, <1>3, <1>6

LEMMA MemoryKept ==
    ASSUME TypeInv, KeepingInv, Append \/ Stop \/ Finalize
    PROVE  Arrives
<1>1. /\ pc = "run" /\ pc' = pc /\ then' = then /\ session' = session /\ AtWork(pc) /\ AtWork(pc')
      /\ ram.state \in {"recording", "stopping"}
  BY DEF Append, Stop, Finalize, Running, RamOnly, AtWork
<1>2. /\ FilesTyped(disk, stable, ck) /\ FilesInOrder(disk, stable, ck, session)
      /\ session \in Nat /\ ram.sid \in Nat /\ ram.sid # 0 /\ ram.size > 0
      /\ ram.size \in Nat /\ ram.off \in Nat
      /\ HeldFiles(disk, stable, ram, session, pc, then) /\ Progress(disk, stable, ram, pc)
      /\ SlotsTurn(stable, ck, ram) /\ ~ram.open
      /\ ~Committing(pc')
  BY <1>1, WorkFacts DEF Committing, Progress
<1>3. ~Ended(stable) /\ ~Ended(disk.tmp) /\ RamTyped(ram)
  BY <1>1, <1>2 DEF Progress, TypeInv
<1>4. Clearing' = Clearing
  BY <1>1 DEF Clearing
<1>5. CASE Append
  <2>1. UNCHANGED <<disk, stable, ck>> /\ ram' = [ram EXCEPT !.size = @ + 1]
    BY <1>5 DEF Append, Quiet, store
  <2>2. /\ ram'.sid = ram.sid /\ ram'.state = ram.state /\ ram'.size = ram.size + 1 /\ ram'.open = ram.open
        /\ ram'.off = ram.off /\ ram'.ckFailed = ram.ckFailed /\ ram'.slot = ram.slot
    BY <1>3, <2>1 DEF RamTyped
  <2>3. ram'.size > 0
    BY <1>2, <2>2
  <2>4. HeldFiles(disk', stable', ram', session', pc', then')
    BY <1>1, <1>2, <2>1, <2>2 DEF HeldFiles
  <2>5. Progress(disk', stable', ram', pc')
    BY <1>1, <1>2, <1>3, <2>1, <2>2 DEF Progress
  <2>6. SlotsTurn(stable', ck', ram')
    BY <1>2, <2>1, <2>2 DEF SlotsTurn, Mine
  <2>7. KeepingInv'
    BY <1>1, <1>2, <2>1, <2>2, <2>3, <2>4, <2>5, <2>6, WorkArrives
  <2> QED
    BY <1>4, <2>1, <2>2, <2>7 DEF Arrives, SavedMove, Still, Kept
<1>6. CASE Finalize
  <2>1. UNCHANGED <<disk, stable, ck>> /\ ram' = [ram EXCEPT !.state = "saving"]
    BY <1>6 DEF Finalize, Quiet, store
  <2>2. /\ ram'.sid = ram.sid /\ ram'.state = "saving" /\ ram'.size = ram.size /\ ram'.open = ram.open
        /\ ram'.off = ram.off
    BY <1>3, <2>1 DEF RamTyped
  <2>3. HeldFiles(disk', stable', ram', session', pc', then')
    BY <1>1, <1>2, <2>1, <2>2 DEF HeldFiles
  <2>4. Progress(disk', stable', ram', pc') /\ SlotsTurn(stable', ck', ram')
    BY <1>1, <1>2, <1>3, <2>1, <2>2 DEF Progress, SlotsTurn
  <2>5. KeepingInv'
    BY <1>1, <1>2, <2>1, <2>2, <2>3, <2>4, WorkArrives
  <2> QED
    BY <1>4, <2>1, <2>2, <2>5 DEF Arrives, SavedMove, Still, Kept
<1>7. CASE Stop
  <2>1. ram' = [ram EXCEPT !.state = "stopping"] /\ (UNCHANGED store \/ Synced)
    BY <1>7 DEF Stop
  <2>2. /\ ram'.sid = ram.sid /\ ram'.state = "stopping" /\ ram'.size = ram.size /\ ram'.open = ram.open
    BY <1>3, <2>1 DEF RamTyped
  <2>3. /\ UNCHANGED <<disk, ck>> /\ stable' \in {stable, disk.tmp}
        /\ FilesInOrder(disk', stable', ck', session) /\ Kept' \in {Kept, ram.sid}
    <3>1. CASE UNCHANGED store
      BY <1>2, <3>1 DEF store, Kept
    <3>2. CASE Synced
      BY <1>1, <1>3, <3>2, SyncOffersMore
    <3> QED
      BY <2>1, <3>1, <3>2
  <2>4. ~Ended(stable') /\ stable'.len <= disk.tmp.len /\ (stable'.len > 0 => stable'.sid = ram.sid)
    BY <1>2, <1>3, <2>3, StoreNumbers DEF HeldFiles
  <2>5. HeldFiles(disk', stable', ram', session', pc', then')
    <3>1. ~IsTheLog(pc', then') /\ ~IsTheLog(pc, then)
          /\ pc' \notin {"savePreserve", "saveRename", "saveUndo"}
      BY <1>1, WorkPlaces
    <3> QED
      BY <1>1, <1>2, <2>2, <2>3, <2>4, <3>1 DEF HeldFiles
  <2>6. Progress(disk', stable', ram', pc') /\ SlotsTurn(stable', ck', ram')
    BY <1>1, <1>3, <2>2, <2>3, <2>4 DEF Progress, SlotsTurn
  <2>7. KeepingInv'
    BY <1>1, <1>2, <2>2, <2>3, <2>5, <2>6, WorkArrives
  <2> QED
    BY <1>2, <1>4, <2>2, <2>3, <2>7 DEF Arrives, SavedMove
<1> QED
  BY <1>5, <1>6, <1>7

-----------------------------------------------------------------------------
(* Checkpoints. *)

LEMMA TornFacts ==
    ASSUME FilesTyped(disk, stable, ck), ram.sid \in Nat, TornWrite
    PROVE  /\ disk'.log = disk.log /\ disk'.bak = disk.bak
           /\ disk'.tmp.len = disk.tmp.len /\ disk'.tmp.sid \in {disk.tmp.sid, ram.sid}
           /\ Ended(disk'.tmp) => disk'.tmp = disk.tmp
<1>1. CASE disk' = disk
  BY <1>1
<1>2. CASE disk' = [disk EXCEPT !.tmp.sid = ram.sid, !.tmp.tail = "torn"]
  <2>1. disk \in [Paths -> AnyFile] /\ disk.tmp \in AnyFile
    BY StoreNumbers DEF StoreTyped
  <2>2. PICK f : f = [disk.tmp EXCEPT !.sid = ram.sid, !.tail = "torn"]
    OBVIOUS
  <2>3. f.len = disk.tmp.len /\ f.sid = ram.sid /\ f.tail = "torn"
    BY <2>1, <2>2 DEF AnyFile
  <2>4. disk' = [disk EXCEPT !.tmp = f]
    BY <1>2, <2>1, <2>2 DEF Paths
  <2>5. disk'.tmp = f /\ disk'.log = disk.log /\ disk'.bak = disk.bak
    BY <2>1, <2>4 DEF Paths
  <2>6. ~Ended(f)
    BY <2>3 DEF Ended, FileState
  <2> QED
    BY <2>3, <2>5, <2>6
<1> QED
  BY <1>1, <1>2 DEF TornWrite

\* Log, backup, manifests and what is synced stay: so does what is offered.
LEMMA WriteOffersNothing ==
    ASSUME UNCHANGED <<stable, ck>>, disk'.log = disk.log, disk'.bak = disk.bak
    PROVE  Kept' = Kept
BY DEF Kept, OfferSid

\* The held session with another temporary file of its own.
LEMMA HeldWrite ==
    ASSUME TypeInv, KeepingInv, AtWork(pc), AtWork(pc'), ram.state # "idle",
           UNCHANGED <<stable, ck, session>>, ram'.sid = ram.sid,
           disk'.log = disk.log, disk'.bak = disk.bak,
           disk'.tmp.len \in Nat, disk.tmp.len <= disk'.tmp.len,
           disk'.tmp.sid \in {disk.tmp.sid, ram.sid},
           disk'.tmp.len > 0 => disk'.tmp.sid = ram.sid,
           ~Ended(stable)
    PROVE  /\ FilesInOrder(disk', stable', ck', session') /\ HeldFiles(disk', stable', ram', session', pc', then')
           /\ Kept' = Kept
<1>1. /\ FilesTyped(disk, stable, ck) /\ FilesInOrder(disk, stable, ck, session)
      /\ HeldFiles(disk, stable, ram, session, pc, then) /\ ram.sid \in Nat
      /\ disk.log.sid < ram.sid /\ disk.bak.sid < ram.sid
  BY WorkFacts
<1>2. ~IsTheLog(pc', then') /\ pc' \notin {"savePreserve", "saveRename", "saveUndo"}
  BY WorkPlaces
<1>3. FilesInOrder(disk', stable', ck', session')
  BY <1>1 DEF FilesInOrder, HeldFiles
<1>4. stable'.len <= disk'.tmp.len
  BY <1>1, StoreNumbers DEF HeldFiles
<1>5. HeldFiles(disk', stable', ram', session', pc', then')
  BY <1>1, <1>2, <1>4 DEF HeldFiles
<1> QED
  BY <1>3, <1>5, WriteOffersNothing

LEMMA CheckpointChunkKept ==
    ASSUME TypeInv, KeepingInv, CheckpointChunk
    PROVE  Arrives
<1>1. /\ pc = "run" /\ AtWork(pc) /\ ram.state = "recording" /\ ~ram.ckFailed /\ ram.size > ram.off
      /\ UNCHANGED <<stable, ck, session>>
  BY DEF CheckpointChunk, CheckpointDue, Running, AtWork
<1>2. /\ FilesTyped(disk, stable, ck) /\ FilesInOrder(disk, stable, ck, session)
      /\ session \in Nat /\ ram.sid \in Nat /\ ram.sid # 0 /\ ram.size > 0
      /\ ram.off \in Nat /\ ~ram.open /\ RamTyped(ram)
      /\ HeldFiles(disk, stable, ram, session, pc, then) /\ Progress(disk, stable, ram, pc)
      /\ SlotsTurn(stable, ck, ram)
  BY <1>1, WorkFacts DEF TypeInv
<1>3. ~Ended(stable) /\ ~Ended(disk.tmp) /\ disk.tmp.len = ram.off
  BY <1>1, <1>2 DEF Progress
<1>4. PICK target : \/ /\ disk' = [disk EXCEPT !.tmp = [sid |-> ram.sid, len |-> ram.off + 1, tail |-> "none"]]
                       /\ ram' = [ram EXCEPT !.target = target, !.off = @ + 1]
                       /\ pc' \in {"close", "run"} /\ then' = then
                    \/ /\ TornWrite
                       /\ ram' = [ram EXCEPT !.ckFailed = TRUE]
                       /\ UNCHANGED <<pc, then>>
  BY DEF CheckpointChunk, Goto, TornWrite
<1>5. AtWork(pc') /\ pc' \notin {"commit", "commitEnd"} /\ Clearing' = Clearing
  <2>1. pc' \in {"close", "run"}
    BY <1>1, <1>4
  <2>2. ~Clearing /\ ~Clearing'
    BY <1>1, <2>1 DEF Clearing, ClearSteps
  <2>3. AtWork(pc') /\ pc' \notin {"commit", "commitEnd"}
    BY <2>1 DEF AtWork
  <2> QED
    BY <2>2, <2>3 DEF Clearing
<1>6. CASE /\ TornWrite
           /\ ram' = [ram EXCEPT !.ckFailed = TRUE]
           /\ UNCHANGED <<pc, then>>
  <2>1. /\ ram'.sid = ram.sid /\ ram'.state = "recording" /\ ram'.size = ram.size /\ ~ram'.open
        /\ ram'.ckFailed = TRUE /\ ~Committing(pc')
    BY <1>1, <1>2, <1>6 DEF RamTyped, Committing
  <2>2. /\ disk'.log = disk.log /\ disk'.bak = disk.bak
        /\ disk'.tmp.len = disk.tmp.len /\ disk'.tmp.sid \in {disk.tmp.sid, ram.sid}
        /\ Ended(disk'.tmp) => disk'.tmp = disk.tmp
    BY <1>2, <1>6, TornFacts
  <2>3. /\ FilesInOrder(disk', stable', ck', session') /\ HeldFiles(disk', stable', ram', session', pc', then')
        /\ Kept' = Kept
    <3>1. disk'.tmp.len \in Nat /\ disk.tmp.len <= disk'.tmp.len
      BY <1>2, <2>2, StoreNumbers
    <3>2. disk'.tmp.len > 0 => disk'.tmp.sid = ram.sid
      BY <1>2, <2>2 DEF HeldFiles
    <3> QED
      BY <1>1, <1>3, <1>5, <2>1, <2>2, <3>1, <3>2, HeldWrite
  <2>4. Progress(disk', stable', ram', pc') /\ SlotsTurn(stable', ck', ram')
    BY <1>1, <1>3, <1>5, <2>1, <2>2 DEF Progress, SlotsTurn
  <2>5. KeepingInv'
    BY <1>2, <1>5, <2>1, <2>3, <2>4, WorkArrives
  <2> QED
    BY <1>5, <2>1, <2>3, <2>5 DEF Arrives, SavedMove, Still
<1>7. CASE /\ disk' = [disk EXCEPT !.tmp = [sid |-> ram.sid, len |-> ram.off + 1, tail |-> "none"]]
           /\ ram' = [ram EXCEPT !.target = target, !.off = @ + 1]
  <2>0. PICK l \in Nat : l = ram.off + 1 /\ l > 0 /\ ram.off <= l
    BY <1>2
  <2>1. /\ ram'.sid = ram.sid /\ ram'.state = "recording" /\ ram'.size = ram.size /\ ~ram'.open
        /\ ~ram'.ckFailed /\ ram'.off = l /\ ram'.slot = ram.slot
    BY <1>1, <1>2, <1>7, <2>0 DEF RamTyped
  <2>2. /\ disk'.tmp = [sid |-> ram.sid, len |-> l, tail |-> "none"]
        /\ disk'.log = disk.log /\ disk'.bak = disk.bak
    BY <1>2, <1>7, <2>0 DEF FilesTyped, Paths
  <2>3. ~Ended(disk'.tmp) /\ disk'.tmp.len = l /\ disk'.tmp.sid = ram.sid
    BY <2>2 DEF Ended, FileState, FileStates
  <2>4. /\ FilesInOrder(disk', stable', ck', session') /\ HeldFiles(disk', stable', ram', session', pc', then')
        /\ Kept' = Kept
    BY <1>1, <1>2, <1>3, <1>5, <2>0, <2>1, <2>2, <2>3, HeldWrite
  <2>5. Progress(disk', stable', ram', pc')
    BY <1>1, <1>3, <1>5, <2>1, <2>3 DEF Progress
  <2>6. SlotsTurn(stable', ck', ram')
    BY <1>1, <1>2, <2>1 DEF SlotsTurn, Mine
  <2>7. KeepingInv'
    BY <1>2, <1>5, <2>0, <2>1, <2>4, <2>5, <2>6, WorkArrives
  <2> QED
    BY <1>5, <2>1, <2>4, <2>7 DEF Arrives, SavedMove, Still
<1> QED
  BY <1>4, <1>6, <1>7

LEMMA CheckpointCloseKept ==
    ASSUME TypeInv, KeepingInv, CheckpointClose
    PROVE  Arrives
<1>1. /\ pc = "close" /\ AtWork(pc) /\ Synced /\ pc' = "commit" /\ UNCHANGED <<ram, session, then>>
      /\ Committing(pc) /\ Committing(pc') /\ AtWork(pc')
  BY DEF CheckpointClose, Keeps, Goto, AtWork, Committing
<1>2. ram.state = "recording" /\ ~ram.ckFailed /\ ram.off > 0 /\ ram.state # "idle"
  BY <1>1 DEF KeepingInv, Keeping, Control
<1>3. /\ FilesTyped(disk, stable, ck) /\ FilesInOrder(disk, stable, ck, session)
      /\ ram.sid \in Nat /\ ram.sid # 0 /\ ram.size > 0 /\ ~ram.open
      /\ HeldFiles(disk, stable, ram, session, pc, then) /\ Progress(disk, stable, ram, pc)
      /\ SlotsTurn(stable, ck, ram)
  BY <1>1, <1>2, WorkFacts
<1>4. ~Ended(stable) /\ ~Ended(disk.tmp) /\ disk.tmp.len = ram.off
  BY <1>2, <1>3 DEF Progress
<1>5. /\ UNCHANGED <<disk, ck>> /\ stable' = disk.tmp
      /\ FilesInOrder(disk', stable', ck', session) /\ Kept' \in {Kept, ram.sid}
  BY <1>1, <1>2, <1>4, SyncOffersMore
<1>6. HeldFiles(disk', stable', ram', session', pc', then')
  <2>1. ~IsTheLog(pc', then') /\ ~IsTheLog(pc, then) /\ pc' \notin {"savePreserve", "saveRename", "saveUndo"}
    BY <1>1, WorkPlaces
  <2>2. disk.tmp.len <= disk.tmp.len
    BY <1>3, StoreNumbers
  <2> QED
    BY <1>1, <1>3, <1>4, <1>5, <2>1, <2>2 DEF HeldFiles
<1>7. Progress(disk', stable', ram', pc')
  BY <1>1, <1>2, <1>4, <1>5 DEF Progress
<1>8. SlotsTurn(stable', ck', ram')
  <2>1. \A l : l \in 1..stable.len => l \in 1..disk.tmp.len
    BY <1>3, StoreNumbers DEF HeldFiles
  <2> QED
    BY <1>1, <1>3, <1>5, <2>1 DEF SlotsTurn, Mine
<1>9. KeepingInv'
  BY <1>1, <1>2, <1>3, <1>5, <1>6, <1>7, <1>8, WorkArrives
<1>10. ~Clearing /\ ~Clearing'
  BY <1>1 DEF Clearing, ClearSteps
<1>11. ram.sid' = ram.sid /\ Clearing' = Clearing
  BY <1>1, <1>10 DEF Clearing
<1> QED
  BY <1>3, <1>5, <1>9, <1>11 DEF Arrives, SavedMove
-----------------------------------------------------------------------------
\* A step on the held session keeps what is offered, or offers that session.
LEMMA HeldMoves ==
    ASSUME KeepingInv', ram.sid # 0, ram'.sid = ram.sid, Kept' \in {Kept, ram.sid},
           pc \notin ClearSteps, pc' \notin ClearSteps
    PROVE  Arrives
<1>1. ~Clearing /\ ~Clearing'
  BY DEF Clearing
<1>2. Clearing' = Clearing
  BY <1>1 DEF Clearing
<1> QED
  BY <1>2 DEF Arrives, SavedMove

\* The manifest that is rewritten is not the one by which the session is offered.
LEMMA OtherSlotOffers ==
    ASSUME FilesTyped(disk, stable, ck), ram.slot \in 0..1, ram.sid \in Nat,
           ram.state = "recording", ~ram.ckFailed,
           HeldFiles(disk, stable, ram, session, pc, then), SlotsTurn(stable, ck, ram),
           NEW m \in AnyManifest, ManifestIs(ram.slot, m)
    PROVE  /\ UNCHANGED <<disk, stable>>
           /\ ck'[ram.slot] = m /\ ck'[1 - ram.slot] = ck[1 - ram.slot]
           /\ Offered(stable, ck) => Offered(stable, ck') /\ stable.sid = ram.sid
           /\ Kept' \in {Kept, ram.sid}
<1>1. /\ UNCHANGED <<disk, stable>>
      /\ ck'[ram.slot] = m /\ ck'[1 - ram.slot] = ck[1 - ram.slot]
  BY StoreNumbers, ManifestFacts
<1>2. ASSUME Offered(stable, ck) PROVE Offered(stable, ck') /\ stable.sid = ram.sid
  <2>1. stable.len > 0 /\ stable.sid = ram.sid
    BY <1>2, StoreNumbers, OfferedHasChunks DEF HeldFiles
  <2>2. CASE Ended(stable)
    BY <2>1, <2>2 DEF Offered
  <2>3. CASE HasManifest(ck, stable)
    <3>1. PICK slot \in 0..1 : Authentic(ck[slot], stable)
      BY <2>3 DEF HasManifest
    <3>2. Mine(ck[slot], ram)
      BY <2>1, <3>1 DEF Authentic, Mine
    <3>3. Mine(ck[1 - ram.slot], ram) /\ ck[1 - ram.slot].len \in 1..stable.len
      BY <3>2 DEF SlotsTurn
    <3>4. Authentic(ck[1 - ram.slot], stable)
      BY <2>1, <3>3 DEF Authentic, Mine, PrefixValid
    <3>5. 1 - ram.slot \in 0..1
      OBVIOUS
    <3>6. HasManifest(ck', stable)
      BY <1>1, <3>4, <3>5 DEF HasManifest
    <3> QED
      BY <2>1, <3>6 DEF Offered
  <2> QED
    BY <1>2, <2>2, <2>3 DEF Offered
<1>3. ASSUME Offered(stable, ck') PROVE stable.sid = ram.sid
  BY <1>3, StoreNumbers, OfferedHasChunks DEF HeldFiles
<1>4. Kept' \in {Kept, ram.sid}
  BY <1>1, <1>2, <1>3 DEF Kept, OfferSid
<1> QED
  BY <1>1, <1>2, <1>4

LEMMA CommittingFacts ==
    ASSUME TypeInv, KeepingInv, pc \in {"commit", "commitEnd"}
    PROVE  /\ AtWork(pc) /\ Committing(pc) /\ pc \notin ClearSteps
           /\ ram.state = "recording" /\ ~ram.ckFailed /\ ram.off > 0 /\ ram.state # "idle"
           /\ FilesTyped(disk, stable, ck) /\ FilesInOrder(disk, stable, ck, session)
           /\ ram.sid \in Nat /\ ram.sid # 0 /\ ram.size > 0 /\ ~ram.open /\ ram.sid <= session
           /\ ram.off \in Nat /\ ram.gen \in Nat /\ ram.slot \in 0..1 /\ session \in Nat /\ RamTyped(ram)
           /\ HeldFiles(disk, stable, ram, session, pc, then) /\ Progress(disk, stable, ram, pc)
           /\ SlotsTurn(stable, ck, ram)
           /\ ~Ended(stable) /\ ~Ended(disk.tmp) /\ disk.tmp.len = ram.off /\ stable = disk.tmp
<1>1. AtWork(pc) /\ Committing(pc) /\ pc \notin ClearSteps
  BY DEF AtWork, Committing, ClearSteps
<1>2. ram.state = "recording" /\ ~ram.ckFailed /\ ram.off > 0 /\ ram.state # "idle"
  BY <1>1 DEF KeepingInv, Keeping, Control
<1>3. /\ FilesTyped(disk, stable, ck) /\ FilesInOrder(disk, stable, ck, session)
      /\ ram.sid \in Nat /\ ram.sid # 0 /\ ram.size > 0 /\ ~ram.open
      /\ ram.off \in Nat /\ session \in Nat
      /\ HeldFiles(disk, stable, ram, session, pc, then) /\ Progress(disk, stable, ram, pc)
      /\ SlotsTurn(stable, ck, ram)
  BY <1>1, <1>2, WorkFacts
<1>4. /\ ~Ended(stable) /\ ~Ended(disk.tmp) /\ disk.tmp.len = ram.off /\ stable = disk.tmp
      /\ ram.sid <= session
  BY <1>2, <1>3 DEF Progress, HeldFiles
<1>5. ram.gen \in Nat /\ ram.slot \in 0..1 /\ RamTyped(ram)
  BY DEF TypeInv, RamTyped
<1> QED
  BY <1>1, <1>2, <1>3, <1>4, <1>5

LEMMA CheckpointFailedKept ==
    ASSUME TypeInv, KeepingInv, pc \in {"commit", "commitEnd"}, CheckpointFailed
    PROVE  Arrives
<1>1. /\ UNCHANGED <<disk, stable, ck, session, then>> /\ pc' = "run" /\ AtWork(pc')
      /\ pc' \notin ClearSteps /\ ~Committing(pc')
      /\ ram' = [ram EXCEPT !.ckFailed = TRUE, !.gen = @ + 1]
  BY DEF CheckpointFailed, Goto, store, AtWork, ClearSteps, Committing
<1>2. /\ pc \notin ClearSteps /\ AtWork(pc)
      /\ ram.state = "recording" /\ FilesInOrder(disk, stable, ck, session)
      /\ ram.sid # 0 /\ ram.size > 0 /\ ~ram.open /\ RamTyped(ram)
      /\ HeldFiles(disk, stable, ram, session, pc, then)
      /\ ~Ended(stable) /\ ~Ended(disk.tmp)
  BY CommittingFacts
<1>3. /\ ram'.sid = ram.sid /\ ram'.state = "recording" /\ ram'.size = ram.size
      /\ ram'.open = ram.open /\ ram'.ckFailed = TRUE
  BY <1>1, <1>2 DEF RamTyped
<1>4. HeldFiles(disk', stable', ram', session', pc', then')
  BY <1>1, <1>2, <1>3, WorkPlaces DEF HeldFiles
<1>5. Progress(disk', stable', ram', pc') /\ SlotsTurn(stable', ck', ram')
  BY <1>1, <1>2, <1>3 DEF Progress, SlotsTurn
<1>6. KeepingInv'
  <2>1. ram'.sid # 0 /\ ram'.state # "idle" /\ ram'.size > 0 /\ ~ram'.open
    BY <1>2, <1>3
  <2> QED
    BY <1>1, <1>2, <1>4, <1>5, <2>1, WorkArrives
<1>7. Kept' = Kept
  BY <1>1 DEF Kept
<1> QED
  BY <1>1, <1>2, <1>3, <1>6, <1>7, HeldMoves

LEMMA OrderAfterManifest ==
    ASSUME FilesTyped(disk, stable, ck), FilesInOrder(disk, stable, ck, session),
           NEW slot \in 0..1, NEW m \in AnyManifest, ManifestIs(slot, m), m.sid <= session
    PROVE  FilesInOrder(disk', stable', ck', session)
<1>1. /\ UNCHANGED <<disk, stable>> /\ ck'[slot] = m /\ ck'[1 - slot] = ck[1 - slot]
  BY StoreNumbers, ManifestFacts
<1>2. slot = 0 \/ slot = 1
  OBVIOUS
<1>3. ck'[0] \in {m, ck[0]} /\ ck'[1] \in {m, ck[1]}
  BY <1>1, <1>2
<1> QED
  BY <1>1, <1>3 DEF FilesInOrder

LEMMA CheckpointCommitKept ==
    ASSUME TypeInv, KeepingInv, CheckpointCommit
    PROVE  Arrives
<1>1. pc = "commit"
  BY DEF CheckpointCommit
<1>2. CASE CheckpointFailed
  BY <1>1, <1>2, CheckpointFailedKept
<1>3. CASE ManifestIs(ram.slot, TornManifest) /\ Keeps("commitEnd")
  <2>1. /\ UNCHANGED <<ram, session, then>> /\ pc' = "commitEnd" /\ AtWork(pc') /\ Committing(pc')
        /\ pc' \notin ClearSteps
    BY <1>3 DEF Keeps, Goto, AtWork, Committing, ClearSteps
  <2>2. /\ pc \notin ClearSteps /\ AtWork(pc)
        /\ ram.state = "recording" /\ ~ram.ckFailed /\ ram.off > 0 /\ ram.state # "idle"
        /\ FilesTyped(disk, stable, ck) /\ FilesInOrder(disk, stable, ck, session)
        /\ ram.sid \in Nat /\ ram.sid # 0 /\ ram.size > 0 /\ ~ram.open
        /\ ram.slot \in 0..1 /\ session \in Nat
        /\ HeldFiles(disk, stable, ram, session, pc, then) /\ Progress(disk, stable, ram, pc)
        /\ SlotsTurn(stable, ck, ram)
        /\ ~Ended(stable) /\ ~Ended(disk.tmp) /\ stable = disk.tmp /\ disk.tmp.len = ram.off
    BY <1>1, CommittingFacts
  <2>3. TornManifest \in AnyManifest /\ TornManifest.kind = "torn" /\ TornManifest.sid <= session
    <3>1. TornManifest \in AnyManifest /\ TornManifest.kind = "torn" /\ TornManifest.sid = 0
      BY DEF TornManifest, NoManifest, AnyManifest
    <3>2. 0 <= session
      BY <2>2
    <3> QED
      BY <3>1, <3>2
  <2>4. /\ UNCHANGED <<disk, stable>>
        /\ ck'[ram.slot] = TornManifest /\ ck'[1 - ram.slot] = ck[1 - ram.slot]
        /\ Kept' \in {Kept, ram.sid}
    BY <1>3, <2>2, <2>3, OtherSlotOffers
  <2>5. FilesInOrder(disk', stable', ck', session')
    BY <1>3, <2>1, <2>2, <2>3, OrderAfterManifest
  <2>6. HeldFiles(disk', stable', ram', session', pc', then')
    BY <2>1, <2>2, <2>4, WorkPlaces DEF HeldFiles
  <2>7. Progress(disk', stable', ram', pc')
    BY <2>1, <2>2, <2>4 DEF Progress
  <2>8. SlotsTurn(stable', ck', ram')
    <3>1. ram.slot = 0 \/ ram.slot = 1
      BY <2>2
    <3>2. ~Mine(TornManifest, ram)
      BY <2>3 DEF Mine
    <3>3. CASE ram.slot = 0
      BY <2>1, <2>2, <2>4, <3>2, <3>3 DEF SlotsTurn, Mine
    <3>4. CASE ram.slot = 1
      BY <2>1, <2>2, <2>4, <3>2, <3>4 DEF SlotsTurn, Mine
    <3> QED
      BY <3>1, <3>3, <3>4
  <2>9. KeepingInv'
    BY <2>1, <2>2, <2>5, <2>6, <2>7, <2>8, WorkArrives
  <2> QED
    BY <2>1, <2>2, <2>4, <2>9, HeldMoves
<1> QED
  BY <1>2, <1>3 DEF CheckpointCommit

LEMMA CheckpointCommittedKept ==
    ASSUME TypeInv, KeepingInv, CheckpointCommitted
    PROVE  Arrives
<1>1. pc = "commitEnd"
  BY DEF CheckpointCommitted
<1>2. CASE CheckpointFailed
  BY <1>1, <1>2, CheckpointFailedKept
<1>3. CASE /\ ManifestIs(ram.slot, [kind |-> "valid", sid |-> ram.sid, len |-> ram.off,
                                    gen |-> ram.gen + 1, reset |-> FALSE])
           /\ ram' = [ram EXCEPT !.gen = @ + 1, !.slot = 1 - @, !.target = 0]
           /\ UNCHANGED session /\ Goto("run")
  <2>1. /\ UNCHANGED <<session, then>> /\ pc' = "run" /\ AtWork(pc') /\ ~Committing(pc')
        /\ pc' \notin ClearSteps /\ pc' \notin {"commit", "commitEnd"}
    BY <1>3 DEF Goto, AtWork, Committing, ClearSteps
  <2>2. /\ pc \notin ClearSteps /\ AtWork(pc)
        /\ ram.state = "recording" /\ ~ram.ckFailed /\ ram.off > 0 /\ ram.state # "idle"
        /\ FilesTyped(disk, stable, ck) /\ FilesInOrder(disk, stable, ck, session)
        /\ ram.sid \in Nat /\ ram.sid # 0 /\ ram.size > 0 /\ ~ram.open /\ ram.sid <= session
        /\ ram.off \in Nat /\ ram.gen \in Nat
        /\ ram.slot \in 0..1 /\ session \in Nat /\ RamTyped(ram)
        /\ HeldFiles(disk, stable, ram, session, pc, then)
        /\ SlotsTurn(stable, ck, ram)
        /\ ~Ended(stable) /\ ~Ended(disk.tmp) /\ stable = disk.tmp /\ disk.tmp.len = ram.off
    BY <1>1, CommittingFacts
  <2>3. PICK g \in Nat : g = ram.gen + 1
    BY <2>2
  <2>4. PICK m \in AnyManifest : m = [kind |-> "valid", sid |-> ram.sid, len |-> ram.off,
                                      gen |-> g, reset |-> FALSE]
    BY <2>2, <2>3 DEF AnyManifest
  <2>5. m.kind = "valid" /\ m.sid = ram.sid /\ m.len = ram.off /\ ManifestIs(ram.slot, m)
    BY <1>3, <2>3, <2>4
  <2>6. /\ ram'.sid = ram.sid /\ ram'.state = "recording" /\ ram'.size = ram.size
        /\ ram'.open = ram.open /\ ram'.off = ram.off /\ ram'.slot = 1 - ram.slot
        /\ ram'.ckFailed = ram.ckFailed
    BY <1>3, <2>2 DEF RamTyped
  <2>7. /\ UNCHANGED <<disk, stable>> /\ ck'[ram.slot] = m /\ Kept' \in {Kept, ram.sid}
    BY <2>2, <2>5, OtherSlotOffers
  <2>8. FilesInOrder(disk', stable', ck', session')
    <3>1. m.sid <= session
      BY <2>2, <2>5
    <3> QED
      BY <2>1, <2>2, <2>5, <3>1, OrderAfterManifest
  <2>9. HeldFiles(disk', stable', ram', session', pc', then')
    BY <2>1, <2>2, <2>6, <2>7, WorkPlaces DEF HeldFiles
  <2>10. Progress(disk', stable', ram', pc')
    BY <2>1, <2>2, <2>6, <2>7 DEF Progress
  <2>11. SlotsTurn(stable', ck', ram')
    <3>1. 1 - ram'.slot = ram.slot
      BY <2>2, <2>6
    <3>2. ram.off \in 1..stable.len
      BY <2>2
    <3> QED
      BY <2>5, <2>6, <2>7, <3>1, <3>2 DEF SlotsTurn, Mine
  <2>12. KeepingInv'
    <3>1. ram'.sid # 0 /\ ram'.state # "idle" /\ ram'.size > 0 /\ ~ram'.open
      BY <2>2, <2>6
    <3> QED
      BY <2>1, <2>2, <2>8, <2>9, <2>10, <2>11, <3>1, WorkArrives
  <2> QED
    BY <2>1, <2>2, <2>6, <2>7, <2>12, HeldMoves
<1> QED
  BY <1>2, <1>3 DEF CheckpointCommitted

LEMMA CheckpointKept ==
    ASSUME TypeInv, KeepingInv, Checkpoint
    PROVE  Arrives
BY CheckpointChunkKept, CheckpointCloseKept, CheckpointCommitKept, CheckpointCommittedKept
DEF Checkpoint
-----------------------------------------------------------------------------
(* The save. *)

SavePlaces == {"savePreserve", "saveRename", "saveUndo"}
LEMMA SaveStepPlaces ==
    ASSUME NEW p, NEW t, p \in SaveSteps
    PROVE  /\ p \notin BootSteps /\ p \notin ClearSteps /\ p \notin Cleaning /\ ~Committing(p)
           /\ p \notin {"start", "retry", "run", "commit", "commitEnd"} /\ ~Emptied(p, t)
           /\ \A next : ~CleansFor(p, t, next)
           /\ IsTheLog(p, t) <=> p \in {"savedBackup", "saved"}
BY DEF SaveSteps, BootSteps, ClearSteps, Cleaning, Committing, Emptied, CleansFor, IsTheLog

LEMMA SavingStepFacts ==
    ASSUME TypeInv, KeepingInv, pc \in SaveSteps
    PROVE  /\ FilesTyped(disk, stable, ck) /\ FilesInOrder(disk, stable, ck, session)
           /\ session \in Nat /\ ram.sid \in Nat /\ ram.sid # 0 /\ 0 < ram.sid /\ ram.size > 0
           /\ ram.state = "saving" /\ RamTyped(ram) /\ pc \notin ClearSteps
           /\ HeldFiles(disk, stable, ram, session, pc, then)
<1>1. ram.state = "saving"
  BY DEF KeepingInv, Keeping, Control
<1>2. ram.sid # 0 /\ ram.size > 0
  BY <1>1 DEF KeepingInv, Keeping, Control
<1>3. ram.sid \in Nat /\ session \in Nat /\ RamTyped(ram) /\ FilesTyped(disk, stable, ck)
  BY DEF TypeInv, RamTyped, CountsTyped
<1>4. 0 < ram.sid
  BY <1>2, <1>3
<1> QED
  BY <1>1, <1>2, <1>3, <1>4, SaveStepPlaces DEF KeepingInv, Keeping, IsHeld

LEMMA SaveStepArrives ==
    ASSUME TypeInv, KeepingInv, ram'.state = "saving", ram'.sid # 0, ram'.size > 0, pc' \in SaveSteps,
           FilesInOrder(disk', stable', ck', session'),
           HeldFiles(disk', stable', ram', session', pc', then')
    PROVE  KeepingInv'
<1>1. Control(ram', pc', then') /\ ~Emptied(pc', then')
  BY SaveStepPlaces DEF Control
<1>2. Progress(disk', stable', ram', pc') /\ SlotsTurn(stable', ck', ram')
  BY SaveStepPlaces DEF Progress, SlotsTurn
<1> QED
  BY <1>1, <1>2 DEF KeepingInv, Keeping, IsHeld

LEMMA FailSaveFacts ==
    ASSUME TypeInv, FailSave
    PROVE  /\ ram'.sid = ram.sid /\ ram'.state = "failed" /\ ~ram'.open /\ ram'.size = ram.size
           /\ pc' = "run" /\ then' = then /\ session' = session /\ AtWork(pc') /\ pc' \notin ClearSteps
<1>1. RamTyped(ram) /\ ram' = [ram EXCEPT !.state = "failed", !.open = FALSE]
  BY DEF TypeInv, FailSave
<1>2. ram'.sid = ram.sid /\ ram'.state = "failed" /\ ~ram'.open /\ ram'.size = ram.size
  BY <1>1 DEF RamTyped
<1>3. pc' = "run" /\ then' = then /\ session' = session
  BY DEF FailSave, Goto
<1> QED
  BY <1>2, <1>3 DEF AtWork, ClearSteps

LEMMA FailedArrives ==
    ASSUME TypeInv, KeepingInv, ram.sid # 0, ram.size > 0, FailSave,
           FilesInOrder(disk', stable', ck', session'),
           HeldFiles(disk', stable', ram', session', pc', then')
    PROVE  KeepingInv'
<1>1. /\ ram'.sid = ram.sid /\ ram'.state = "failed" /\ ~ram'.open /\ ram'.size = ram.size
      /\ pc' = "run" /\ AtWork(pc')
  BY FailSaveFacts
<1>2. ~Committing(pc') /\ ram'.sid # 0 /\ ram'.size > 0
  BY <1>1 DEF Committing
<1>3. Progress(disk', stable', ram', pc') /\ SlotsTurn(stable', ck', ram')
  BY <1>1 DEF Progress, SlotsTurn
<1> QED
  BY <1>1, <1>2, <1>3, WorkArrives

LEMMA RunSavingFacts ==
    ASSUME TypeInv, KeepingInv, pc = "run", ram.state = "saving"
    PROVE  /\ FilesTyped(disk, stable, ck) /\ FilesInOrder(disk, stable, ck, session)
           /\ session \in Nat /\ ram.sid \in Nat /\ ram.sid # 0 /\ ram.size > 0
           /\ ram.size \in Nat /\ ram.off \in Nat /\ ram.saveOff \in Nat /\ ram.off <= ram.size
           /\ RamTyped(ram) /\ pc \notin ClearSteps /\ AtWork(pc) /\ ram.state # "idle"
           /\ ~IsTheLog(pc, then)
           /\ HeldFiles(disk, stable, ram, session, pc, then)
           /\ ram.open \/ ram.off > 0 => ~Ended(stable)
           /\ ram.open => IF ram.saveOff <= ram.size THEN disk.tmp.len = ram.saveOff
                          ELSE disk.tmp.len = ram.size /\ disk.tmp.tail = "full"
<1>1. AtWork(pc) /\ pc \notin ClearSteps /\ RamTyped(ram) /\ ~IsTheLog(pc, then)
  BY WorkPlaces DEF AtWork, TypeInv
<1>2. ram.state # "idle"
  OBVIOUS
<1>3. /\ FilesTyped(disk, stable, ck) /\ FilesInOrder(disk, stable, ck, session)
      /\ session \in Nat /\ ram.sid \in Nat /\ ram.sid # 0 /\ ram.size > 0
      /\ ram.size \in Nat /\ ram.off \in Nat /\ ram.saveOff \in Nat /\ ram.off <= ram.size
      /\ HeldFiles(disk, stable, ram, session, pc, then) /\ Progress(disk, stable, ram, pc)
  BY <1>1, <1>2, WorkFacts
<1> QED
  BY <1>1, <1>3 DEF Progress

\* Where no call has failed nothing is removed but a file that was never begun.
LEMMA NothingToTakeBack ==
    ASSUME TypeInv, RecoveryInv, KeepingInv, pc = "run", ram.state = "saving", ~ram.open,
           ~Resumable, faults = 0
    PROVE  stable.len = 0
<1>1. Good /\ Busy
  BY DEF RecoveryInv, Busy
<1>2. /\ ~ram.ckFailed /\ Written /\ (~ram.durable => ram.off = 0)
      /\ stable = NoFile \/ \E n \in 1 .. ram.off : stable = Fragment(n, "none")
  BY <1>1 DEF Good, RecordInv, Places
<1>3. ram.off \in Nat
  BY RunSavingFacts
<1>4. disk.tmp = IF ram.off = 0 THEN NoFile ELSE Fragment(ram.off, "none")
  BY <1>2 DEF Written
<1>5. ram.off = 0
  <2>1. ASSUME ram.off # 0
        PROVE  Resumable
    <3>1. disk.tmp.len = ram.off
      BY <1>4, <2>1 DEF Fragment
    <3>2. ram.durable
      BY <1>2, <2>1
    <3>3. ram.off > 0
      BY <1>3, <2>1
    <3> QED
      BY <1>2, <3>1, <3>2, <3>3 DEF Resumable
  <2> QED
    BY <2>1
<1>6. stable = NoFile
  BY <1>2, <1>5
<1> QED
  BY <1>6, EmptyFile

\* A save starts on nothing: what it takes back is its own session.
LEMMA RemovalTakesBack ==
    ASSUME TypeInv, RecoveryInv, KeepingInv, pc = "run", ram.state = "saving", ~ram.open,
           Removed("tmp"), Fails \/ (Works /\ ~Resumable)
    PROVE  Kept' = Kept \/ (faults' > 0 /\ Kept = ram.sid /\ Kept' < Kept)
<1>1. /\ FilesTyped(disk, stable, ck) /\ FilesInOrder(disk, stable, ck, session)
      /\ session \in Nat /\ ram.sid # 0 /\ ~IsTheLog(pc, then)
  BY RunSavingFacts
<1>2. Shrinks
  BY <1>1, RemovalShrinks
<1>3. Kept' = Kept \/ (Kept = ram.sid /\ Kept' < Kept)
  BY <1>1, <1>2, HeldGoesBack
<1>4. faults \in Nat
  BY DEF RecoveryInv
<1>5. CASE faults' > 0
  BY <1>3, <1>5
<1>6. CASE ~(faults' > 0)
  <2>1. Works /\ ~Resumable /\ faults = 0
    BY <1>4, <1>6 DEF Fails, Works
  <2>2. stable.len = 0
    BY <2>1, NothingToTakeBack
  <2>3. ~Offered(stable, ck)
    BY <1>1, <2>2, StoreNumbers, OfferedHasChunks
  <2>4. Kept' = Kept
    BY <1>2, <2>3 DEF Shrinks, Kept, OfferSid
  <2> QED
    BY <2>4
<1> QED
  BY <1>5, <1>6

LEMMA HeldTakesBack ==
    ASSUME KeepingInv', ram.sid # 0, ram'.sid = ram.sid, pc \notin ClearSteps, pc' \notin ClearSteps,
           Kept' = Kept \/ (faults' > 0 /\ Kept = ram.sid /\ Kept' < Kept)
    PROVE  Arrives
<1>1. CASE Kept' = Kept
  BY <1>1, HeldMoves
<1>2. CASE faults' > 0 /\ Kept = ram.sid /\ Kept' < Kept
  <2>1. ~Clearing /\ ~Clearing'
    BY DEF Clearing
  <2>2. Clearing' = Clearing
    BY <2>1 DEF Clearing
  <2> QED
    BY <1>2, <2>2 DEF Arrives, SavedMove
<1> QED
  BY <1>1, <1>2

LEMMA SaveOpenKept ==
    ASSUME TypeInv, RecoveryInv, KeepingInv, SaveOpen
    PROVE  Arrives
<1>1. /\ pc = "run" /\ ram.state = "saving" /\ ~ram.open
  BY DEF SaveOpen, Running
<1>2. /\ FilesTyped(disk, stable, ck) /\ FilesInOrder(disk, stable, ck, session)
      /\ session \in Nat /\ ram.sid \in Nat /\ ram.sid # 0 /\ ram.size > 0
      /\ ram.size \in Nat /\ ram.off \in Nat /\ ram.off <= ram.size
      /\ RamTyped(ram) /\ pc \notin ClearSteps /\ ~IsTheLog(pc, then)
      /\ HeldFiles(disk, stable, ram, session, pc, then)
      /\ ram.off > 0 => ~Ended(stable)
  BY <1>1, RunSavingFacts
<1>3. ASSUME Removed("tmp")
      PROVE  /\ FilesInOrder(disk', stable', ck', session) /\ disk'.log = disk.log /\ disk'.bak = disk.bak
             /\ disk'.tmp = NoFile /\ stable' = NoFile
  BY <1>2, <1>3, OrderAfterRemoval, StoreNumbers, RemovedFacts DEF Paths
<1>4. ASSUME NEW offset, SaveFrom(offset)
      PROVE  /\ pc' = pc /\ then' = then /\ session' = session /\ AtWork(pc') /\ ~Committing(pc')
             /\ pc' = "run" /\ pc' \notin ClearSteps
             /\ ram'.sid = ram.sid /\ ram'.state = "saving" /\ ram'.size = ram.size /\ ram'.open
             /\ ram'.saveOff = offset
  <2>1. pc' = pc /\ then' = then /\ session' = session /\ ram' = [ram EXCEPT !.open = TRUE, !.saveOff = offset]
    BY <1>4 DEF SaveFrom, RamOnly
  <2>2. /\ ram'.sid = ram.sid /\ ram'.state = ram.state /\ ram'.size = ram.size /\ ram'.open
        /\ ram'.saveOff = offset
    BY <1>2, <2>1 DEF RamTyped
  <2> QED
    BY <1>1, <1>2, <2>1, <2>2 DEF AtWork, Committing
<1>5. CASE Resumable /\ UNCHANGED store /\ SaveFrom(ram.off)
  <2>1. UNCHANGED <<disk, stable, ck>> /\ ram.off > 0 /\ disk.tmp.len = ram.off
    BY <1>5 DEF store, Resumable
  <2>2. /\ pc' = pc /\ then' = then /\ session' = session /\ AtWork(pc') /\ ~Committing(pc')
        /\ ram'.sid = ram.sid /\ ram'.state = "saving" /\ ram'.size = ram.size /\ ram'.open
        /\ ram'.saveOff = ram.off /\ pc' = "run" /\ pc' \notin ClearSteps
    BY <1>4, <1>5
  <2>3. HeldFiles(disk', stable', ram', session', pc', then')
    BY <1>2, <2>1, <2>2 DEF HeldFiles
  <2>4. Progress(disk', stable', ram', pc') /\ SlotsTurn(stable', ck', ram')
    BY <1>2, <2>1, <2>2 DEF Progress, SlotsTurn
  <2>5. KeepingInv'
    <3>1. FilesInOrder(disk', stable', ck', session')
      BY <1>2, <2>1, <2>2
    <3>2. ram'.sid # 0 /\ ram'.state # "idle" /\ ram'.size > 0
      BY <1>2, <2>2
    <3> QED
      BY <2>2, <2>3, <2>4, <3>1, <3>2, WorkArrives
  <2>6. Kept' = Kept
    BY <2>1 DEF Kept
  <2> QED
    BY <1>2, <2>2, <2>5, <2>6, HeldMoves
<1>6. CASE (Fails \/ (Works /\ ~Resumable)) /\ Removed("tmp") /\ SaveFrom(0)
  <2>1. /\ FilesInOrder(disk', stable', ck', session) /\ disk'.log = disk.log /\ disk'.bak = disk.bak
        /\ disk'.tmp = NoFile /\ stable' = NoFile
    BY <1>3, <1>6
  <2>2. /\ pc' = pc /\ then' = then /\ session' = session /\ AtWork(pc') /\ ~Committing(pc')
        /\ ram'.sid = ram.sid /\ ram'.state = "saving" /\ ram'.size = ram.size /\ ram'.open
        /\ ram'.saveOff = 0 /\ pc' = "run" /\ pc' \notin ClearSteps
    BY <1>4, <1>6
  <2>3. HeldFiles(disk', stable', ram', session', pc', then')
    BY <1>2, <2>1, <2>2, EmptyFile, WorkPlaces DEF HeldFiles
  <2>4. Progress(disk', stable', ram', pc') /\ SlotsTurn(stable', ck', ram')
    <3>1. 0 <= ram.size
      BY <1>2
    <3> QED
      BY <2>1, <2>2, <3>1, EmptyFile DEF Progress, SlotsTurn
  <2>5. KeepingInv'
    <3>2. ram'.sid # 0 /\ ram'.state # "idle" /\ ram'.size > 0
      BY <1>2, <2>2
    <3> QED
      BY <2>1, <2>2, <2>3, <2>4, <3>2, WorkArrives
  <2>6. Kept' = Kept \/ (faults' > 0 /\ Kept = ram.sid /\ Kept' < Kept)
    BY <1>1, <1>6, RemovalTakesBack
  <2> QED
    BY <1>2, <2>2, <2>5, <2>6, HeldTakesBack
<1>7. CASE ~Resumable /\ Fails /\ Removed("tmp") /\ FailSave
  <2>1. /\ FilesInOrder(disk', stable', ck', session) /\ disk'.log = disk.log /\ disk'.bak = disk.bak
        /\ disk'.tmp = NoFile /\ stable' = NoFile
    BY <1>3, <1>7
  <2>2. /\ ram'.sid = ram.sid /\ session' = session /\ AtWork(pc') /\ pc' \notin ClearSteps
    BY <1>7, FailSaveFacts
  <2>3. HeldFiles(disk', stable', ram', session', pc', then')
    BY <1>2, <2>1, <2>2, EmptyFile, WorkPlaces DEF HeldFiles
  <2>4. KeepingInv'
    BY <1>2, <1>7, <2>1, <2>2, <2>3, FailedArrives
  <2>6. Kept' = Kept \/ (faults' > 0 /\ Kept = ram.sid /\ Kept' < Kept)
    BY <1>1, <1>7, RemovalTakesBack
  <2> QED
    BY <1>2, <2>2, <2>4, <2>6, HeldTakesBack
<1> QED
  BY <1>5, <1>6, <1>7 DEF SaveOpen
-----------------------------------------------------------------------------
\* A save that fails with a file of the held session, torn or not begun.
LEMMA FailedWriteKept ==
    ASSUME TypeInv, KeepingInv, pc = "run", ram.state = "saving", ram.open, FailSave,
           UNCHANGED <<stable, ck>>, disk'.log = disk.log, disk'.bak = disk.bak,
           disk'.tmp.len = disk.tmp.len, disk'.tmp.sid \in {disk.tmp.sid, ram.sid}
    PROVE  Arrives
<1>1. /\ FilesTyped(disk, stable, ck) /\ ram.sid # 0 /\ ram.size > 0
      /\ pc \notin ClearSteps /\ AtWork(pc) /\ ram.state # "idle"
      /\ HeldFiles(disk, stable, ram, session, pc, then) /\ ~Ended(stable)
  BY RunSavingFacts
<1>2. ram'.sid = ram.sid /\ session' = session /\ AtWork(pc') /\ pc' \notin ClearSteps
  BY FailSaveFacts
<1>3. disk'.tmp.len \in Nat /\ disk.tmp.len <= disk'.tmp.len
  BY <1>1, StoreNumbers
<1>4. disk'.tmp.len > 0 => disk'.tmp.sid = ram.sid
  BY <1>1 DEF HeldFiles
<1>5. /\ FilesInOrder(disk', stable', ck', session') /\ HeldFiles(disk', stable', ram', session', pc', then')
      /\ Kept' = Kept
  BY <1>1, <1>2, <1>3, <1>4, HeldWrite
<1>6. KeepingInv'
  BY <1>1, <1>5, FailedArrives
<1> QED
  BY <1>1, <1>2, <1>5, <1>6, HeldMoves

LEMMA SaveChunkKept ==
    ASSUME TypeInv, KeepingInv, SaveChunk
    PROVE  Arrives
<1>1. /\ pc = "run" /\ ram.state = "saving" /\ ram.open /\ ram.saveOff <= ram.size
      /\ UNCHANGED <<stable, ck>>
  BY DEF SaveChunk, Running
<1>2. /\ FilesTyped(disk, stable, ck) /\ FilesInOrder(disk, stable, ck, session)
      /\ session \in Nat /\ ram.sid \in Nat /\ ram.sid # 0 /\ ram.size > 0
      /\ ram.size \in Nat /\ ram.saveOff \in Nat
      /\ RamTyped(ram) /\ pc \notin ClearSteps /\ AtWork(pc) /\ ram.state # "idle"
      /\ HeldFiles(disk, stable, ram, session, pc, then)
      /\ ~Ended(stable) /\ disk.tmp.len = ram.saveOff
  BY <1>1, RunSavingFacts
<1>3. CASE FailSave /\ TornWrite
  <2>1. /\ disk'.log = disk.log /\ disk'.bak = disk.bak
        /\ disk'.tmp.len = disk.tmp.len /\ disk'.tmp.sid \in {disk.tmp.sid, ram.sid}
    BY <1>2, <1>3, TornFacts
  <2> QED
    BY <1>1, <1>3, <2>1, FailedWriteKept
<1>4. CASE /\ RamOnly
           /\ disk' = [disk EXCEPT !.tmp =
                IF ram.saveOff = ram.size
                THEN [sid |-> ram.sid, len |-> ram.size, tail |-> "full"]
                ELSE [sid |-> ram.sid, len |-> ram.saveOff + 1, tail |-> "none"]]
           /\ ram' = [ram EXCEPT !.saveOff = @ + 1]
  <2>1. PICK n \in Nat : /\ n = ram.saveOff + 1 /\ ram.saveOff <= n
                         /\ (ram.saveOff = ram.size => ~(n <= ram.size))
                         /\ (ram.saveOff # ram.size => n <= ram.size)
    <3>1. PICK k \in Nat, l \in Nat : k = ram.saveOff /\ l = ram.size /\ k <= l
      BY <1>1, <1>2
    <3>2. /\ k + 1 \in Nat /\ k <= k + 1 /\ (k = l => ~(k + 1 <= l)) /\ (k # l => k + 1 <= l)
      BY <3>1
    <3> QED
      BY <3>1, <3>2
  <2>2. PICK f : f = IF ram.saveOff = ram.size
                     THEN [sid |-> ram.sid, len |-> ram.size, tail |-> "full"]
                     ELSE [sid |-> ram.sid, len |-> n, tail |-> "none"]
    OBVIOUS
  <2>3. /\ f.sid = ram.sid
        /\ ram.saveOff = ram.size => f.len = ram.size /\ f.tail = "full"
        /\ ram.saveOff # ram.size => f.len = n
    BY <2>2
  <2>4. disk' = [disk EXCEPT !.tmp = f]
    BY <1>4, <2>1, <2>2
  <2>5. disk'.tmp = f /\ disk'.log = disk.log /\ disk'.bak = disk.bak
    BY <1>2, <2>4 DEF FilesTyped, Paths
  <2>6. /\ ram'.sid = ram.sid /\ ram'.state = "saving" /\ ram'.size = ram.size /\ ram'.open = ram.open
        /\ ram'.saveOff = n
    BY <1>1, <1>2, <1>4, <2>1 DEF RamTyped
  <2>7. /\ pc' = "run" /\ then' = then /\ session' = session /\ AtWork(pc') /\ ~Committing(pc')
        /\ pc' \notin ClearSteps
    BY <1>1, <1>4 DEF RamOnly, AtWork, Committing, ClearSteps
  <2>8. /\ FilesInOrder(disk', stable', ck', session') /\ HeldFiles(disk', stable', ram', session', pc', then')
        /\ Kept' = Kept
    <3>1. disk'.tmp.len \in Nat /\ disk.tmp.len <= disk'.tmp.len
      <4>1. CASE ram.saveOff = ram.size
        BY <1>2, <2>3, <2>5, <4>1
      <4>2. CASE ram.saveOff # ram.size
        BY <1>2, <2>1, <2>3, <2>5, <4>2
      <4> QED
        BY <4>1, <4>2
    <3>2. disk'.tmp.sid = ram.sid
      BY <2>3, <2>5
    <3> QED
      BY <1>1, <1>2, <2>5, <2>6, <2>7, <3>1, <3>2, HeldWrite
  <2>9. Progress(disk', stable', ram', pc') /\ SlotsTurn(stable', ck', ram')
    <3>1. CASE ram.saveOff = ram.size
      BY <1>1, <1>2, <2>1, <2>3, <2>5, <2>6, <2>7, <3>1 DEF Progress, SlotsTurn
    <3>2. CASE ram.saveOff # ram.size
      BY <1>1, <1>2, <2>1, <2>3, <2>5, <2>6, <2>7, <3>2 DEF Progress, SlotsTurn
    <3> QED
      BY <3>1, <3>2
  <2>10. KeepingInv'
    <3>2. ram'.sid # 0 /\ ram'.state # "idle" /\ ram'.size > 0
      BY <1>2, <2>6
    <3> QED
      BY <2>6, <2>7, <2>8, <2>9, <3>2, WorkArrives
  <2> QED
    BY <1>2, <2>6, <2>7, <2>8, <2>10, HeldMoves
<1> QED
  BY <1>3, <1>4 DEF SaveChunk, TornWrite

LEMMA SaveCloseKept ==
    ASSUME TypeInv, KeepingInv, SaveClose
    PROVE  Arrives
<1>1. /\ pc = "run" /\ ram.state = "saving" /\ ram.open /\ ram.saveOff > ram.size
  BY DEF SaveClose, Running
<1>2. /\ FilesTyped(disk, stable, ck) /\ FilesInOrder(disk, stable, ck, session)
      /\ session \in Nat /\ ram.sid \in Nat /\ ram.sid # 0 /\ ram.size > 0
      /\ ram.size \in Nat /\ ram.saveOff \in Nat
      /\ RamTyped(ram) /\ pc \notin ClearSteps /\ AtWork(pc) /\ ram.state # "idle"
      /\ HeldFiles(disk, stable, ram, session, pc, then) /\ ~Ended(stable) /\ ~IsTheLog(pc, then)
      /\ IF ram.saveOff <= ram.size THEN disk.tmp.len = ram.saveOff
         ELSE disk.tmp.len = ram.size /\ disk.tmp.tail = "full"
  BY <1>1, RunSavingFacts
<1>3. disk.tmp.len = ram.size /\ disk.tmp.tail = "full"
  <2>1. ~(ram.saveOff <= ram.size)
    BY <1>1, <1>2
  <2> QED
    BY <1>2, <2>1
<1>4. Ended(disk.tmp)
  <2>1. disk.tmp.len # 0
    BY <1>2, <1>3
  <2> QED
    BY <1>3, <2>1 DEF Ended, FileState, FileStates
<1>5. CASE FailSave /\ disk' = [disk EXCEPT !.tmp.tail = "torn"] /\ UNCHANGED <<stable, ck>>
  <2>1. /\ disk'.log = disk.log /\ disk'.bak = disk.bak
        /\ disk'.tmp.len = disk.tmp.len /\ disk'.tmp.sid = disk.tmp.sid
    BY <1>2, <1>5, EndChanged
  <2> QED
    BY <1>1, <1>5, <2>1, FailedWriteKept
<1>6. CASE Synced /\ ram' = [ram EXCEPT !.open = FALSE] /\ UNCHANGED session /\ Goto("savePreserve")
  <2>1. /\ ram'.sid = ram.sid /\ ram'.state = "saving" /\ ram'.size = ram.size
        /\ pc' = "savePreserve" /\ then' = then /\ session' = session
    BY <1>1, <1>2, <1>6 DEF RamTyped, Goto
  <2>2. /\ UNCHANGED <<disk, ck>> /\ stable' = disk.tmp
        /\ FilesInOrder(disk', stable', ck', session) /\ Kept' \in {Kept, ram.sid}
    BY <1>2, <1>4, <1>6, SyncOffersMore
  <2>3. pc' \in SaveSteps /\ pc' \notin ClearSteps /\ ~IsTheLog(pc', then')
    BY <2>1 DEF SaveSteps, ClearSteps, IsTheLog, CleansFor, Cleaning
  <2>4. HeldFiles(disk', stable', ram', session', pc', then')
    <3>1. disk.tmp.len <= disk.tmp.len
      BY <1>2, StoreNumbers
    <3> QED
      BY <1>2, <1>4, <2>1, <2>2, <2>3, <3>1 DEF HeldFiles
  <2>5. KeepingInv'
    <3>1. ram'.sid # 0 /\ ram'.size > 0
      BY <1>2, <2>1
    <3> QED
      BY <2>1, <2>2, <2>3, <2>4, <3>1, SaveStepArrives
  <2> QED
    BY <1>2, <2>1, <2>2, <2>3, <2>5, HeldMoves
<1> QED
  BY <1>5, <1>6 DEF SaveClose

\* The files of a save whose file is complete and synced.
LEMMA CompleteFacts ==
    ASSUME TypeInv, KeepingInv, pc \in SavePlaces
    PROVE  /\ pc \in SaveSteps /\ Ended(stable) /\ stable = disk.tmp /\ stable.len > 0
           /\ stable.sid = ram.sid /\ Offered(stable, ck) /\ Kept = ram.sid /\ Valid(disk.tmp)
           /\ disk.log.sid < ram.sid /\ disk.bak.sid < ram.sid /\ ram.sid <= session
<1>1. pc \in SaveSteps /\ pc \notin {"savedBackup", "saved"}
  BY DEF SaveSteps, SavePlaces
<1>2. HeldFiles(disk, stable, ram, session, pc, then) /\ FilesTyped(disk, stable, ck)
  BY <1>1, SavingStepFacts
<1>3. Ended(stable) /\ stable = disk.tmp /\ disk.log.sid < ram.sid /\ disk.bak.sid < ram.sid
      /\ ram.sid <= session
  BY <1>1, <1>2, SaveStepPlaces DEF HeldFiles, SavePlaces
<1>4. stable.len > 0
  BY <1>2, <1>3, StoreNumbers, OfferedHasChunks
<1>5. stable.sid = ram.sid
  BY <1>2, <1>4 DEF HeldFiles
<1>6. Offered(stable, ck) /\ Kept = ram.sid
  BY <1>3, <1>5 DEF Offered, Kept, OfferSid
<1>7. Valid(disk.tmp)
  BY <1>2, <1>3, StoreNumbers, FileStateCases
<1> QED
  BY <1>1, <1>3, <1>4, <1>5, <1>6, <1>7

\* Log and backup change places; the complete file is what is offered.
LEMMA CompleteStays ==
    ASSUME TypeInv, KeepingInv, pc \in SavePlaces, UNCHANGED <<stable, ck, session>>,
           disk'.tmp = disk.tmp, disk'.log.sid < ram.sid, disk'.bak.sid < ram.sid,
           ram'.sid = ram.sid, ~IsTheLog(pc', then')
    PROVE  HeldFiles(disk', stable', ram', session', pc', then') /\ Kept' = Kept
<1>1. /\ Ended(stable) /\ stable = disk.tmp /\ stable.len > 0 /\ stable.sid = ram.sid
      /\ Offered(stable, ck) /\ Kept = ram.sid /\ ram.sid <= session /\ pc \in SaveSteps
  BY CompleteFacts
<1>2. stable.len <= stable.len
  BY <1>1, SavingStepFacts, StoreNumbers
<1>3. HeldFiles(disk', stable', ram', session', pc', then')
  BY <1>1, <1>2 DEF HeldFiles
<1>4. Kept' = Kept
  BY <1>1 DEF Kept, OfferSid
<1> QED
  BY <1>3, <1>4

LEMMA SavePreserveKept ==
    ASSUME TypeInv, KeepingInv, SavePreserve
    PROVE  Arrives
<1>1. pc \in SavePlaces /\ pc \in SaveSteps
  BY DEF SavePreserve, SavePlaces, SaveSteps
<1>2. /\ FilesTyped(disk, stable, ck) /\ FilesInOrder(disk, stable, ck, session)
      /\ session \in Nat /\ ram.sid \in Nat /\ ram.sid # 0 /\ 0 < ram.sid /\ ram.size > 0
      /\ ram.state = "saving" /\ pc \notin ClearSteps
      /\ disk.log.sid < ram.sid /\ disk.bak.sid < ram.sid
  BY <1>1, SavingStepFacts, CompleteFacts
<1>3. CASE MakeRoom /\ Keeps("saveRename")
  <2>1. /\ UNCHANGED <<ram, session, then>> /\ pc' = "saveRename" /\ pc' \in SaveSteps
        /\ pc' \notin ClearSteps /\ ~IsTheLog(pc', then')
    BY <1>3 DEF Keeps, Goto, SaveSteps, ClearSteps, IsTheLog, CleansFor, Cleaning
  <2>2. /\ FilesInOrder(disk', stable', ck', session) /\ ck' = ck /\ stable' = stable
        /\ disk'.log = NoFile /\ disk'.tmp = disk.tmp /\ disk'.bak \in {disk.log, disk.bak}
    BY <1>2, <1>3, OrderAfterRoom
  <2>3. disk'.log.sid < ram.sid /\ disk'.bak.sid < ram.sid
    BY <1>2, <2>2, EmptyFile
  <2>4. HeldFiles(disk', stable', ram', session', pc', then') /\ Kept' = Kept
    BY <1>1, <2>1, <2>2, <2>3, CompleteStays
  <2>5. KeepingInv'
    BY <1>2, <2>1, <2>2, <2>4, SaveStepArrives
  <2> QED
    BY <1>2, <2>1, <2>4, <2>5, HeldMoves
<1>4. CASE UNCHANGED store /\ FailSave
  <2>1. ram'.sid = ram.sid /\ session' = session /\ AtWork(pc') /\ pc' \notin ClearSteps /\ UNCHANGED <<disk, stable, ck>>
    BY <1>4, FailSaveFacts DEF store
  <2>2. HeldFiles(disk', stable', ram', session', pc', then') /\ Kept' = Kept
    BY <1>1, <1>2, <2>1, WorkPlaces, CompleteStays
  <2>3. KeepingInv'
    BY <1>2, <1>4, <2>1, <2>2, FailedArrives
  <2> QED
    BY <1>2, <2>1, <2>2, <2>3, HeldMoves
<1> QED
  BY <1>3, <1>4 DEF SavePreserve

LEMMA SaveRenameKept ==
    ASSUME TypeInv, KeepingInv, SaveRename
    PROVE  Arrives
<1>1. pc \in SavePlaces /\ pc \in SaveSteps
  BY DEF SaveRename, SavePlaces, SaveSteps
<1>2. /\ FilesTyped(disk, stable, ck) /\ FilesInOrder(disk, stable, ck, session)
      /\ session \in Nat /\ ram.sid \in Nat /\ ram.sid # 0 /\ 0 < ram.sid /\ ram.size > 0
      /\ ram.state = "saving" /\ pc \notin ClearSteps
      /\ disk.log.sid < ram.sid /\ disk.bak.sid < ram.sid
  BY <1>1, SavingStepFacts, CompleteFacts
<1>3. CASE Renamed("tmp", "log") /\ Keeps("savedBackup")
  <2>1. /\ UNCHANGED <<ram, session, then>> /\ pc' = "savedBackup" /\ pc' \in SaveSteps
        /\ pc' \notin ClearSteps /\ IsTheLog(pc', then') /\ pc' \notin {"savePreserve", "saveRename", "saveUndo"}
    BY <1>3 DEF Keeps, Goto, SaveSteps, ClearSteps, IsTheLog
  <2>2. /\ stable = disk.tmp /\ stable.len > 0 /\ stable.sid = ram.sid /\ Kept = ram.sid
        /\ Valid(disk.tmp) /\ ram.sid <= session
    BY <1>1, CompleteFacts
  <2>3. /\ FilesInOrder(disk', stable', ck', session) /\ ck' = ck /\ stable' = NoFile
        /\ disk'.log = disk.tmp /\ disk'.bak = disk.bak /\ disk'.tmp = NoFile
    BY <1>2, <1>3, <2>2, OrderAfterPromotion
  <2>4. HeldFiles(disk', stable', ram', session', pc', then')
    BY <1>2, <2>1, <2>2, <2>3, EmptyFile DEF HeldFiles, NoTemporary
  <2>5. KeepingInv'
    BY <1>2, <2>1, <2>3, <2>4, SaveStepArrives
  <2>6. Kept' = ram.sid
    BY <2>2, <2>3, EmptyFile DEF Kept, OfferSid
  <2> QED
    BY <1>2, <2>1, <2>2, <2>5, <2>6, HeldMoves
<1>4. CASE UNCHANGED store /\ Keeps("saveUndo")
  <2>1. /\ UNCHANGED <<ram, session, then>> /\ pc' = "saveUndo" /\ pc' \in SaveSteps
        /\ pc' \notin ClearSteps /\ ~IsTheLog(pc', then') /\ UNCHANGED <<disk, stable, ck>>
    BY <1>4 DEF Keeps, Goto, SaveSteps, ClearSteps, IsTheLog, CleansFor, Cleaning, store
  <2>2. HeldFiles(disk', stable', ram', session', pc', then') /\ Kept' = Kept
    BY <1>1, <1>2, <2>1, CompleteStays
  <2>3. KeepingInv'
    BY <1>2, <2>1, <2>2, SaveStepArrives
  <2> QED
    BY <1>2, <2>1, <2>2, <2>3, HeldMoves
<1> QED
  BY <1>3, <1>4 DEF SaveRename

LEMMA SaveUndoKept ==
    ASSUME TypeInv, KeepingInv, SaveUndo
    PROVE  Arrives
<1>1. pc \in SavePlaces /\ pc \in SaveSteps /\ FailSave
  BY DEF SaveUndo, SavePlaces, SaveSteps
<1>2. /\ FilesTyped(disk, stable, ck) /\ FilesInOrder(disk, stable, ck, session)
      /\ session \in Nat /\ ram.sid \in Nat /\ ram.sid # 0 /\ 0 < ram.sid /\ ram.size > 0
      /\ pc \notin ClearSteps
      /\ disk.log.sid < ram.sid /\ disk.bak.sid < ram.sid
  BY <1>1, SavingStepFacts, CompleteFacts
<1>3. /\ FilesInOrder(disk', stable', ck', session) /\ ck' = ck /\ stable' = stable
      /\ disk'.tmp = disk.tmp /\ disk'.log.sid < ram.sid /\ disk'.bak.sid < ram.sid
  <2>1. CASE Renamed("bak", "log")
    <3>1. /\ FilesInOrder(disk', stable', ck', session) /\ ck' = ck /\ stable' = stable
          /\ disk'.log = disk.bak /\ disk'.bak = NoFile /\ disk'.tmp = disk.tmp
      BY <1>2, <2>1, OrderAfterRestore
    <3> QED
      BY <1>2, <3>1, EmptyFile
  <2>2. CASE UNCHANGED store
    BY <1>2, <2>2 DEF store
  <2> QED
    BY <2>1, <2>2 DEF SaveUndo
<1>4. ram'.sid = ram.sid /\ session' = session /\ AtWork(pc') /\ pc' \notin ClearSteps
  BY <1>1, FailSaveFacts
<1>5. HeldFiles(disk', stable', ram', session', pc', then') /\ Kept' = Kept
  BY <1>1, <1>3, <1>4, WorkPlaces, CompleteStays
<1>6. KeepingInv'
  BY <1>1, <1>2, <1>3, <1>4, <1>5, FailedArrives
<1> QED
  BY <1>2, <1>4, <1>5, <1>6, HeldMoves
-----------------------------------------------------------------------------
\* Once the session is the log, the backup and the manifests are let go of.
LEMMA SavedBackupKept ==
    ASSUME TypeInv, KeepingInv, SavedBackup
    PROVE  Arrives
<1>1. /\ pc = "savedBackup" /\ pc \in SaveSteps /\ UNCHANGED <<ram, session>>
      /\ pc' = "rm0" /\ then' = "saved" /\ (Removed("bak") \/ UNCHANGED store)
  BY DEF SavedBackup, SaveSteps, CleanUp
<1>2. /\ FilesTyped(disk, stable, ck) /\ FilesInOrder(disk, stable, ck, session)
      /\ session \in Nat /\ ram.sid \in Nat /\ ram.sid # 0 /\ 0 < ram.sid /\ ram.size > 0
      /\ ram.state = "saving" /\ pc \notin ClearSteps
      /\ HeldFiles(disk, stable, ram, session, pc, then)
  BY <1>1, SavingStepFacts
<1>3. /\ Valid(disk.log) /\ disk.log.sid = ram.sid /\ NoTemporary(disk, stable)
      /\ disk.bak.sid < ram.sid
  BY <1>1, <1>2 DEF HeldFiles, IsTheLog
<1>4. /\ FilesInOrder(disk', stable', ck', session) /\ ck' = ck /\ stable' = stable
      /\ disk'.log = disk.log /\ disk'.tmp = disk.tmp /\ disk'.bak \in {disk.bak, NoFile}
  BY <1>1, <1>2, OrderAfterRemoval, StoreNumbers, RemovedFacts DEF Paths, store
<1>5. pc' \in Cleaning /\ IsTheLog(pc', then') /\ pc' \notin {"savePreserve", "saveRename", "saveUndo"}
  BY <1>1 DEF Cleaning, IsTheLog, CleansFor
<1>6. HeldFiles(disk', stable', ram', session', pc', then')
  BY <1>1, <1>2, <1>3, <1>4, <1>5, EmptyFile DEF HeldFiles, NoTemporary
<1>7. pc' \notin ClearSteps /\ pc' \notin {"run", "commit", "commitEnd"}
  BY <1>1 DEF ClearSteps
<1>8. Progress(disk', stable', ram', pc') /\ SlotsTurn(stable', ck', ram')
  BY <1>1, <1>2, <1>7 DEF Progress, SlotsTurn
<1>9. Control(ram', pc', then')
  <2>1. ram.open => ram.state = "saving"
    BY DEF KeepingInv, Keeping, Control
  <2> QED
    BY <1>1, <1>2, <1>5, <2>1, CleaningPlaces DEF Control, CleansFor
<1>10. ~Emptied(pc', then')
  BY <1>1 DEF Emptied, CleansFor
<1>11. KeepingInv'
  BY <1>1, <1>2, <1>4, <1>6, <1>8, <1>9, <1>10 DEF KeepingInv, Keeping, IsHeld
<1>12. ~Offered(stable, ck)
  BY <1>2, <1>3, StoreNumbers, OfferedHasChunks DEF NoTemporary
<1>13. Kept' = Kept
  BY <1>3, <1>4, <1>12 DEF Kept, OfferSid
<1> QED
  BY <1>1, <1>2, <1>7, <1>11, <1>13, HeldMoves

\* Nothing is held any more, and there is no temporary file.
LEMMA LetGoKept ==
    ASSUME TypeInv, ram' = IdleRam, pc' = "run", FilesInOrder(disk', stable', ck', session'),
           FilesTyped(disk, stable, ck), NoTemporary(disk, stable), UNCHANGED <<disk, stable>>
    PROVE  KeepingInv'
<1>1. ram'.sid = 0 /\ ram'.state = "idle" /\ ~ram'.open
  BY DEF IdleRam
<1>2. AtWork(pc') /\ ~Committing(pc')
  BY DEF AtWork, Committing
<1>3. Control(ram', pc', then') /\ ~Emptied(pc', then')
  BY <1>1, <1>2, WorkPlaces DEF Control
<1>4. ~Ended(stable') /\ ~Ended(disk'.tmp)
  BY StoreNumbers, OfferedHasChunks DEF NoTemporary
<1>5. Synchronized(disk', stable', pc')
  <2>1. disk'.tmp.len = stable'.len /\ ~(stable'.len > 0)
    BY DEF NoTemporary
  <2>2. pc' \notin BootSteps
    BY <1>2, WorkPlaces
  <2> QED
    BY <1>4, <2>1, <2>2 DEF Synchronized
<1>6. BootKnows(disk', stable', ck', pc', then')
  BY DEF BootKnows, CleansFor, Cleaning
<1> QED
  BY <1>1, <1>3, <1>5, <1>6 DEF KeepingInv, Keeping, Unheld

LEMMA SavedKept ==
    ASSUME TypeInv, KeepingInv, Saved
    PROVE  Arrives
<1>1. /\ pc = "saved" /\ pc \in SaveSteps /\ UNCHANGED <<disk, stable, ck, session>>
      /\ pc' = "run" /\ ram' = IdleRam
  BY DEF Saved, SaveSteps, Quiet, store, Goto
<1>2. /\ FilesTyped(disk, stable, ck) /\ FilesInOrder(disk, stable, ck, session)
      /\ HeldFiles(disk, stable, ram, session, pc, then)
  BY <1>1, SavingStepFacts
<1>3. NoTemporary(disk, stable)
  BY <1>1, <1>2 DEF HeldFiles, IsTheLog
<1>4. KeepingInv'
  BY <1>1, <1>2, <1>3, LetGoKept
<1>5. ~Clearing' /\ ram.sid' \in {ram.sid, 0} /\ Kept' = Kept
  BY <1>1 DEF Clearing, ClearSteps, IdleRam, Kept
<1> QED
  BY <1>4, <1>5 DEF Arrives, SavedMove

LEMMA RetryKept ==
    ASSUME TypeInv, KeepingInv, Retry
    PROVE  Arrives
<1>1. /\ pc = "run" /\ ram.state = "failed" /\ UNCHANGED <<disk, stable, ck, ram, session>>
      /\ pc' = "rmTmp" /\ then' = "retry"
  BY DEF Retry, Running, Quiet, store, CleanUp
<1>2. /\ ram.sid # 0 /\ ram.size > 0 /\ ~ram.open /\ FilesInOrder(disk, stable, ck, session)
  BY <1>1 DEF KeepingInv, Keeping, Control
<1>3. /\ pc' \in Cleaning /\ ~IsTheLog(pc', then') /\ ~Emptied(pc', then') /\ pc' \notin SaveSteps
      /\ ~Committing(pc') /\ pc \notin ClearSteps /\ pc' \notin ClearSteps
  BY <1>1 DEF Cleaning, IsTheLog, CleansFor, Emptied, SaveSteps, Committing, ClearSteps
<1>4. IsHeld(disk', stable', ck', ram', session', pc', then')
  BY <1>1, <1>3, FailedHeld
<1>5. Control(ram', pc', then')
  BY <1>1, <1>2, <1>3, CleaningPlaces DEF Control, CleansFor
<1>6. KeepingInv'
  BY <1>1, <1>2, <1>3, <1>4, <1>5 DEF KeepingInv, Keeping
<1>7. Kept' = Kept
  BY <1>1 DEF Kept
<1> QED
  BY <1>1, <1>2, <1>3, <1>6, <1>7, HeldMoves

LEMMA RetriedKept ==
    ASSUME TypeInv, KeepingInv, Retried
    PROVE  Arrives
<1>1. /\ pc = "retry" /\ UNCHANGED <<disk, stable, ck, session, then>> /\ pc' = "run"
      /\ ram' = [ram EXCEPT !.state = "saving", !.saveOff = 0, !.off = 0, !.target = 0,
                            !.gen = 0, !.slot = 0]
  BY DEF Retried, Quiet, store, Goto
<1>2. ram.state = "failed"
  BY <1>1 DEF KeepingInv, Keeping, Control
<1>3. /\ ram.sid # 0 /\ ram.size > 0 /\ ~ram.open /\ FilesInOrder(disk, stable, ck, session)
  BY <1>2 DEF KeepingInv, Keeping, Control
<1>4. RamTyped(ram)
  BY DEF TypeInv
<1>5. /\ ram'.sid = ram.sid /\ ram'.state = "saving" /\ ram'.size = ram.size /\ ram'.open = ram.open
      /\ ram'.off = 0
  BY <1>1, <1>4 DEF RamTyped
<1>6. /\ AtWork(pc') /\ ~Committing(pc') /\ pc \notin ClearSteps /\ pc' \notin ClearSteps
      /\ ~IsTheLog(pc, then)
  BY <1>1 DEF AtWork, Committing, ClearSteps, IsTheLog, CleansFor, Cleaning
<1>7. HeldFiles(disk', stable', ram', session', pc', then')
  <2>1. HeldFiles(disk, stable, ram, session, pc, then)
    BY <1>3 DEF KeepingInv, Keeping, IsHeld
  <2> QED
    BY <1>1, <1>5, <1>6, <2>1, WorkPlaces DEF HeldFiles
<1>8. Progress(disk', stable', ram', pc') /\ SlotsTurn(stable', ck', ram')
  <2>1. ~(ram'.off > 0) /\ ~ram'.open /\ pc' \notin {"commit", "commitEnd"}
    BY <1>1, <1>3, <1>5
  <2> QED
    BY <1>1, <1>5, <2>1 DEF Progress, SlotsTurn
<1>9. KeepingInv'
  <2>1. ram'.sid # 0 /\ ram'.state # "idle" /\ ram'.size > 0 /\ ~ram'.open
    BY <1>3, <1>5
  <2> QED
    BY <1>1, <1>3, <1>6, <1>7, <1>8, <2>1, WorkArrives
<1>10. Kept' = Kept
  BY <1>1 DEF Kept
<1> QED
  BY <1>3, <1>5, <1>6, <1>9, <1>10, HeldMoves

LEMMA SaveKept ==
    ASSUME TypeInv, RecoveryInv, KeepingInv, Save
    PROVE  Arrives
BY SaveOpenKept, SaveChunkKept, SaveCloseKept, SavePreserveKept, SaveRenameKept, SaveUndoKept,
   SavedBackupKept, SavedKept, RetryKept, RetriedKept
DEF Save

LEMMA RecordingKept ==
    ASSUME TypeInv, KeepingInv, Recording
    PROVE  Arrives
BY StartKept, StartedKept, MemoryKept DEF Recording
-----------------------------------------------------------------------------
(* Resets. *)

LEMMA BetweenFiles ==
    ASSUME NEW a \in AnyFile, NEW b \in AnyFile, NEW f \in Between(a, b)
    PROVE  /\ f \in AnyFile /\ (a = b => f = a)
           /\ \/ f = a \/ f = b
              \/ /\ f.sid = b.sid /\ f.len <= b.len /\ ~Ended(f)
                 /\ a.sid = b.sid => a.len <= f.len
<1>1. PICK low \in Nat, high \in Nat :
        /\ low = (IF a.sid = b.sid THEN a.len ELSE 0) /\ high = b.len
  BY DEF AnyFile
<1>2. CASE f = a \/ f = b
  BY <1>2 DEF Between
<1>3. CASE a # b /\ f \in [sid: {b.sid}, len: low..high, tail: {"none", "torn"}]
  <2>1. PICK n \in low..high : f.len = n
    BY <1>3
  <2>2. n \in Nat /\ low <= n /\ n <= high
    BY <2>1
  <2>3. /\ f = [sid |-> f.sid, len |-> f.len, tail |-> f.tail] /\ f.sid = b.sid
        /\ f.tail \in {"none", "torn"}
    BY <1>3
  <2>4. f \in AnyFile
    BY <2>1, <2>2, <2>3 DEF AnyFile
  <2>5. ~Ended(f)
    BY <2>3 DEF Ended, FileState, FileStates
  <2> QED
    BY <1>1, <1>3, <2>1, <2>2, <2>3, <2>4, <2>5
<1> QED
  BY <1>1, <1>2, <1>3 DEF Between

\* With nothing held a reset changes nothing that counts.
LEMMA UnheldResetKept ==
    ASSUME TypeInv, KeepingInv, ram.sid = 0, NEW tmp \in Between(stable, disk.tmp)
    PROVE  /\ Offered(tmp, ck) <=> Offered(stable, ck)
           /\ tmp.len = stable.len /\ (tmp.len > 0 => tmp.sid = stable.sid)
<1>1. /\ FilesTyped(disk, stable, ck) /\ Synchronized(disk, stable, pc)
      /\ BootKnows(disk, stable, ck, pc, then)
  BY DEF TypeInv, KeepingInv, Keeping, Unheld
<1>2. stable \in AnyFile /\ disk.tmp \in AnyFile /\ stable.len \in Nat
  BY <1>1, StoreNumbers
<1>3. /\ tmp \in AnyFile /\ (stable = disk.tmp => tmp = stable)
      /\ \/ tmp = stable \/ tmp = disk.tmp
         \/ /\ tmp.sid = disk.tmp.sid /\ tmp.len <= disk.tmp.len /\ ~Ended(tmp)
            /\ stable.sid = disk.tmp.sid => stable.len <= tmp.len
  BY <1>2, BetweenFiles
<1>4. CASE tmp = stable
  BY <1>4
<1>5. CASE tmp # stable /\ stable.len = 0
  <2>1. disk.tmp.len = 0
    BY <1>1, <1>5 DEF Synchronized
  <2>2. tmp.len \in Nat
    BY <1>3 DEF AnyFile
  <2>3. tmp.len = 0
    BY <1>3, <1>5, <2>1, <2>2
  <2>4. ~Offered(tmp, ck) /\ ~Offered(stable, ck)
    BY <1>2, <1>3, <1>5, <2>3, OfferedHasChunks
  <2> QED
    BY <1>5, <2>3, <2>4
<1>6. CASE tmp # stable /\ stable.len # 0
  <2>1. /\ disk.tmp.len = stable.len /\ disk.tmp.sid = stable.sid /\ stable # disk.tmp
        /\ ~Ended(stable) /\ (~Ended(disk.tmp) \/ pc = "endSync")
    BY <1>1, <1>2, <1>3, <1>6 DEF Synchronized
  <2>2. tmp.len \in Nat
    BY <1>3 DEF AnyFile
  <2>3. tmp.len = stable.len /\ tmp.sid = stable.sid
    BY <1>2, <1>3, <2>1, <2>2
  <2>4. HasManifest(ck, tmp) = HasManifest(ck, stable)
    BY <2>3, SameManifests
  <2>5. CASE Ended(tmp)
    <3>1. pc = "endSync"
      BY <1>3, <1>6, <2>1, <2>5
    <3>2. HasManifest(ck, stable)
      BY <1>1, <3>1 DEF BootKnows
    <3> QED
      BY <2>3, <2>4, <3>2 DEF Offered
  <2>6. CASE ~Ended(tmp)
    BY <2>1, <2>3, <2>4, <2>6 DEF Offered
  <2> QED
    BY <2>5, <2>6
<1> QED
  BY <1>4, <1>5, <1>6

\* Of the held session a reset leaves what was synced, or more.
LEMMA HeldResetKept ==
    ASSUME TypeInv, KeepingInv, ram.sid # 0, NEW tmp \in Between(stable, disk.tmp)
    PROVE  /\ Offered(stable, ck) => Offered(tmp, ck) /\ stable.sid = ram.sid
           /\ tmp.len > 0 => tmp.sid = ram.sid
           /\ tmp \in AnyFile
<1>1. /\ FilesTyped(disk, stable, ck) /\ HeldFiles(disk, stable, ram, session, pc, then)
  BY DEF TypeInv, KeepingInv, Keeping, IsHeld
<1>2. stable \in AnyFile /\ disk.tmp \in AnyFile /\ stable.len \in Nat /\ disk.tmp.len \in Nat
  BY <1>1, StoreNumbers
<1>3. /\ tmp \in AnyFile /\ (stable = disk.tmp => tmp = stable)
      /\ \/ tmp = stable \/ tmp = disk.tmp
         \/ /\ tmp.sid = disk.tmp.sid /\ tmp.len <= disk.tmp.len /\ ~Ended(tmp)
            /\ stable.sid = disk.tmp.sid => stable.len <= tmp.len
  BY <1>2, BetweenFiles
<1>4. tmp.len \in Nat
  BY <1>3 DEF AnyFile
<1>5. tmp.len > 0 => tmp.sid = ram.sid
  BY <1>1, <1>2, <1>3, <1>4 DEF HeldFiles
<1>6. ASSUME Offered(stable, ck) PROVE Offered(tmp, ck) /\ stable.sid = ram.sid
  <2>1. stable.len > 0 /\ stable.sid = ram.sid
    BY <1>1, <1>2, <1>6, OfferedHasChunks DEF HeldFiles
  <2>2. CASE Ended(stable)
    BY <1>1, <1>3, <1>6, <2>1, <2>2 DEF HeldFiles
  <2>3. CASE HasManifest(ck, stable)
    <3>1. stable.len <= disk.tmp.len /\ disk.tmp.len > 0
      BY <1>1, <1>2, <2>1 DEF HeldFiles
    <3>2. disk.tmp.sid = ram.sid
      BY <1>1, <3>1 DEF HeldFiles
    <3>3. tmp.sid = stable.sid /\ stable.len <= tmp.len
      BY <1>2, <1>3, <1>4, <2>1, <3>1, <3>2
    <3>4. PICK slot \in 0..1 : Authentic(ck[slot], stable)
      BY <2>3 DEF HasManifest
    <3>5. \A l : l \in 1..stable.len => l \in 1..tmp.len
      BY <1>2, <1>4, <3>3
    <3>6. Authentic(ck[slot], tmp)
      BY <3>3, <3>4, <3>5 DEF Authentic, PrefixValid
    <3> QED
      BY <2>1, <3>6 DEF Offered, HasManifest
  <2> QED
    BY <1>6, <2>2, <2>3 DEF Offered
<1> QED
  BY <1>3, <1>5, <1>6

LEMMA OrderAfterReset ==
    ASSUME TypeInv, KeepingInv, NEW tmp \in Between(stable, disk.tmp),
           tmp.len > 0 => disk.log.sid <= tmp.sid /\ disk.bak.sid <= tmp.sid,
           disk' = [disk EXCEPT !.tmp = tmp], stable' = tmp, UNCHANGED <<ck, session>>
    PROVE  /\ FilesInOrder(disk', stable', ck', session')
           /\ disk'.tmp = tmp /\ disk'.log = disk.log /\ disk'.bak = disk.bak
<1>1. /\ FilesTyped(disk, stable, ck) /\ FilesInOrder(disk, stable, ck, session)
  BY DEF TypeInv, KeepingInv, Keeping
<1>2. disk'.tmp = tmp /\ disk'.log = disk.log /\ disk'.bak = disk.bak
  BY <1>1 DEF FilesTyped, Paths
<1>3. tmp.sid \in {stable.sid, disk.tmp.sid}
  BY <1>1, StoreNumbers, BetweenFiles
<1> QED
  BY <1>1, <1>2, <1>3 DEF FilesInOrder

LEMMA ResetKept ==
    ASSUME TypeInv, KeepingInv, Reset
    PROVE  Arrives
<1>1. PICK tmp \in Between(stable, disk.tmp) :
        /\ disk' = [disk EXCEPT !.tmp = tmp] /\ stable' = tmp
  BY DEF Reset
<1>2. /\ ram' = IdleRam /\ pc' = "primary" /\ then' = "inspect" /\ UNCHANGED <<ck, session>>
  BY DEF Reset
<1>3. /\ FilesTyped(disk, stable, ck) /\ FilesInOrder(disk, stable, ck, session) /\ ram.sid \in Nat
  BY DEF TypeInv, RamTyped, KeepingInv, Keeping
<1>4. tmp.len > 0 => disk.log.sid <= tmp.sid /\ disk.bak.sid <= tmp.sid
  <2> SUFFICES ASSUME tmp.len > 0 PROVE disk.log.sid <= tmp.sid /\ disk.bak.sid <= tmp.sid
    OBVIOUS
  <2>1. CASE ram.sid = 0
    BY <1>3, <2>1, UnheldResetKept DEF FilesInOrder
  <2>2. CASE ram.sid # 0
    <3>1. tmp.sid = ram.sid
      BY <2>2, HeldResetKept
    <3>2. HeldFiles(disk, stable, ram, session, pc, then)
      BY <2>2 DEF KeepingInv, Keeping, IsHeld
    <3>3. disk.bak.sid < ram.sid /\ (disk.log.sid < ram.sid \/ disk.log.sid = ram.sid)
      BY <3>2 DEF HeldFiles
    <3> QED
      BY <1>3, <3>1, <3>3, StoreNumbers
  <2> QED
    BY <2>1, <2>2
<1>5. /\ FilesInOrder(disk', stable', ck', session')
      /\ disk'.tmp = tmp /\ disk'.log = disk.log /\ disk'.bak = disk.bak
  BY <1>1, <1>2, <1>4, OrderAfterReset
<1>6. ram'.sid = 0 /\ ram'.state = "idle" /\ ~ram'.open
  BY <1>2 DEF IdleRam
<1>7. /\ pc' \in BootSteps /\ pc' \notin SaveSteps /\ pc' \notin ClearSteps /\ pc' \notin Cleaning
      /\ ~Committing(pc') /\ pc' # "retry"
  BY <1>2 DEF BootSteps, SaveSteps, ClearSteps, Cleaning, Committing
<1>8. Control(ram', pc', then')
  BY <1>6, <1>7 DEF Control, CleansFor
<1>9. ~Emptied(pc', then')
  BY <1>2 DEF Emptied, CleansFor, Cleaning
<1>10. Synchronized(disk', stable', pc')
  BY <1>1, <1>5 DEF Synchronized
<1>11. BootKnows(disk', stable', ck', pc', then')
  BY <1>2, <1>7 DEF BootKnows, CleansFor
<1>12. KeepingInv'
  BY <1>5, <1>6, <1>8, <1>9, <1>10, <1>11 DEF KeepingInv, Keeping, Unheld
<1>13. ~Clearing'
  BY <1>7 DEF Clearing
<1>14. CASE ram.sid = 0
  <2>1. /\ Offered(tmp, ck) <=> Offered(stable, ck)
        /\ tmp.len = stable.len /\ (tmp.len > 0 => tmp.sid = stable.sid)
    BY <1>14, UnheldResetKept
  <2>2. Offered(stable, ck) => tmp.sid = stable.sid
    BY <1>3, <2>1, StoreNumbers, OfferedHasChunks
  <2>3. Kept' = Kept
    BY <1>1, <1>2, <1>5, <2>1, <2>2 DEF Kept, OfferSid
  <2> QED
    BY <1>6, <1>12, <1>13, <2>3 DEF Arrives, SavedMove
<1>15. CASE ram.sid # 0
  <2>1. /\ Offered(stable, ck) => Offered(tmp, ck) /\ stable.sid = ram.sid
        /\ tmp.len > 0 => tmp.sid = ram.sid
        /\ tmp \in AnyFile
    BY <1>15, HeldResetKept
  <2>2. Offered(tmp, ck) => tmp.sid = ram.sid
    BY <2>1, OfferedHasChunks
  <2>3. Kept' \in {Kept, ram.sid}
    BY <1>1, <1>2, <1>5, <2>1, <2>2 DEF Kept, OfferSid
  <2> QED
    BY <1>6, <1>12, <1>13, <1>15, <2>3 DEF Arrives, SavedMove
<1> QED
  BY <1>14, <1>15
-----------------------------------------------------------------------------
(* Every step, and what it is to the saved session. *)

LEMMA InitKept == Init => KeepingInv
<1> SUFFICES ASSUME Init PROVE KeepingInv
  OBVIOUS
<1>1. PICK log \in OldFile(2), bak \in OldFile(1) : disk = [log |-> log, tmp |-> NoFile, bak |-> bak]
  BY DEF Init
<1>2. /\ stable = NoFile /\ ck = [slot \in 0..1 |-> NoManifest] /\ ram = IdleRam
      /\ pc = "primary" /\ then = "inspect" /\ session = 2
  BY DEF Init
<1>3. /\ \A f \in OldFile(2) : (f.sid = 0 /\ f.len = 0) \/ (f.sid = 2 /\ f.len = 1)
      /\ \A f \in OldFile(1) : (f.sid = 0 /\ f.len = 0) \/ (f.sid = 1 /\ f.len = 1)
  BY EmptyFile DEF OldFile
<1>4. /\ disk.log = log /\ disk.bak = bak /\ disk.tmp = NoFile
      /\ ck[0] = NoManifest /\ ck[1] = NoManifest
  BY <1>1, <1>2
<1>5. disk.log.len > 0 => disk.bak.sid <= disk.log.sid
  BY <1>3, <1>4
<1>6. disk.log.sid <= 2 /\ disk.bak.sid <= 2 /\ 0 <= 2
  BY <1>3, <1>4
<1>7. FilesInOrder(disk, stable, ck, session)
  BY <1>2, <1>4, <1>5, <1>6, EmptyFile DEF FilesInOrder
<1>8. ram.sid = 0 /\ ram.state = "idle" /\ ~ram.open
  BY <1>2 DEF IdleRam
<1>9. /\ pc \in BootSteps /\ pc \notin SaveSteps /\ pc \notin ClearSteps /\ pc \notin Cleaning
      /\ ~Committing(pc) /\ pc # "retry"
  BY <1>2 DEF BootSteps, SaveSteps, ClearSteps, Cleaning, Committing
<1>10. Control(ram, pc, then) /\ ~Emptied(pc, then)
  BY <1>2, <1>8, <1>9 DEF Control, CleansFor, Emptied
<1>11. Synchronized(disk, stable, pc)
  BY <1>2, <1>4 DEF Synchronized
<1>12. BootKnows(disk, stable, ck, pc, then)
  BY <1>2, <1>9 DEF BootKnows, CleansFor
<1> QED
  BY <1>7, <1>8, <1>10, <1>11, <1>12 DEF KeepingInv, Keeping, Unheld

LEMMA NextKept ==
    ASSUME TypeInv, RecoveryInv, KeepingInv, Next
    PROVE  Arrives
BY BootKept, CleanUpKept, RecordingKept, CheckpointKept, SaveKept, DeletionKept, ResetKept DEF Next

LEMMA KeepingInvariant == Spec => []KeepingInv
<1>1. TypeInv /\ RecoveryInv /\ KeepingInv /\ [Next]_vars => KeepingInv'
  <2> SUFFICES ASSUME TypeInv, RecoveryInv, KeepingInv, [Next]_vars
               PROVE  KeepingInv'
    OBVIOUS
  <2>1. CASE Next
    BY <2>1, NextKept DEF Arrives
  <2>2. CASE UNCHANGED vars
    <3>1. UNCHANGED <<disk, stable, ck, ram, pc, then, session>>
      BY <2>2 DEF vars
    <3> QED
      BY <3>1 DEF KeepingInv
  <2> QED
    BY <2>1, <2>2
<1> QED
  BY <1>1, InitKept, TypeInvariant, RecoveryInvariant, PTL DEF Spec

LEMMA KeptIsOffered == Offer.sid = Kept
<1>1. CASE Ended(stable)
  BY <1>1 DEF Offer, Kept, OfferSid, Offered
<1>2. CASE ~Ended(stable) /\ HasManifest(ck, stable)
  BY <1>2 DEF Offer, Kept, OfferSid, Offered
<1>3. CASE ~Ended(stable) /\ ~HasManifest(ck, stable)
  BY <1>3 DEF Offer, Kept, OfferSid, Offered, NothingCommitted
<1> QED
  BY <1>1, <1>2, <1>3

LEMMA KeptIsNumber == TypeInv => Kept \in Nat
BY StoreNumbers DEF TypeInv, Kept, OfferSid

LEMMA StillIsStill ==
    ASSUME Still, (faults > 0) => (faults' > 0)
    PROVE  [Store!SavedNext]_(Store!savedVars)
<1>1. Offer.sid = Kept /\ Offer'.sid = Kept'
  <2>1. (Offer.sid = Kept)'
    BY KeptIsOffered, PTL
  <2> QED
    BY <2>1, KeptIsOffered
<1>2. Offer'.sid = Offer.sid /\ ram'.sid = ram.sid /\ (pc' \in ClearSteps) = (pc \in ClearSteps)
  BY <1>1 DEF Still, Clearing
<1>3. CASE (faults' > 0) = (faults > 0)
  BY <1>2, <1>3 DEF Store!savedVars
<1>4. CASE (faults' > 0) # (faults > 0)
  <2>1. (faults' > 0) = TRUE
    BY <1>4
  <2> QED
    BY <1>2, <2>1 DEF Store!SavedNext, Store!FailQuietly
<1> QED
  BY <1>3, <1>4

LEMMA MoveIsSaved ==
    ASSUME TypeInv, TypeInv', SavedMove, (faults > 0) => (faults' > 0)
    PROVE  [Store!SavedNext]_(Store!savedVars)
<1>1. Offer.sid = Kept /\ Offer'.sid = Kept' /\ Kept \in Nat /\ Kept' \in Nat
  <2>1. (Offer.sid = Kept)' /\ (TypeInv => Kept \in Nat)'
    BY KeptIsOffered, KeptIsNumber, PTL
  <2> QED
    BY <2>1, KeptIsOffered, KeptIsNumber
<1>2. CASE Still
  BY <1>2, StillIsStill
<1>3. CASE ram.sid = 0 /\ ram.sid' > Kept /\ Kept' = Kept /\ Clearing' = Clearing
  BY <1>1, <1>3 DEF Store!SavedNext, Store!Record, Clearing
<1>4. CASE /\ ram.sid # 0 /\ Kept' \in {Kept, ram.sid}
           /\ \/ ram.sid' = ram.sid /\ Clearing' = Clearing
              \/ ram.sid' = 0 /\ ~Clearing'
  <2>1. CASE Kept' = ram.sid
    BY <1>1, <1>4, <2>1 DEF Store!SavedNext, Store!Keep, Clearing
  <2>2. CASE Kept' = Kept /\ ram.sid' = ram.sid /\ Clearing' = Clearing
    BY <2>2, StillIsStill DEF Still
  <2>3. CASE Kept' = Kept /\ ram.sid' = 0 /\ ~Clearing'
    BY <1>1, <1>4, <2>3 DEF Store!SavedNext, Store!LetGo, Clearing
  <2> QED
    BY <1>4, <2>1, <2>2, <2>3
<1>5. CASE faults' > 0 /\ ram.sid # 0 /\ Kept = ram.sid /\ Kept' < Kept /\ ram.sid' = ram.sid /\ Clearing' = Clearing
  BY <1>1, <1>5 DEF Store!SavedNext, Store!TakeBack, Clearing
<1>6. CASE Clearing' /\ Kept' = Kept /\ ram.sid' = ram.sid
  BY <1>1, <1>6 DEF Store!SavedNext, Store!AskClear, Clearing
<1>7. CASE Clearing /\ Clearing' /\ Kept' <= Kept /\ ram.sid' = ram.sid
  <2>1. (pc' \in ClearSteps) = (pc \in ClearSteps)
    BY <1>7 DEF Clearing
  <2>2. CASE Kept' < Kept
    BY <1>1, <1>7, <2>1, <2>2 DEF Store!SavedNext, Store!Forget, Clearing
  <2>3. CASE ~(Kept' < Kept)
    <3>1. Kept' = Kept
      BY <1>1, <1>7, <2>3
    <3> QED
      BY <1>7, <2>1, <3>1, StillIsStill DEF Still, Clearing
  <2> QED
    BY <2>2, <2>3
<1>8. CASE ~Clearing' /\ ram.sid' \in {ram.sid, 0} /\ Kept' = Kept
  BY <1>1, <1>8 DEF Store!SavedNext, Store!EndClear, Clearing
<1> QED
  BY <1>2, <1>3, <1>4, <1>5, <1>6, <1>7, <1>8 DEF SavedMove

LEMMA SavedInitially == Init => Store!SavedInit
<1> SUFFICES ASSUME Init PROVE Store!SavedInit
  OBVIOUS
<1>1. TypeInv
  BY InitTyped
<1>2. Offer.sid \in Nat
  BY <1>1, KeptIsOffered, KeptIsNumber
<1>3. ram.sid = 0 /\ (pc \in ClearSteps) = FALSE /\ (faults > 0) = FALSE
  BY DEF Init, IdleRam, ClearSteps
<1> QED
  BY <1>2, <1>3 DEF Store!SavedInit

(* Whatever call fails and wherever the power goes, the files promise one    *)
(* session: a recording is kept from one step on, and no step of a save, of  *)
(* the recovery by begin() or of a reset takes it back, but a deletion, or   *)
(* the save itself when a call has failed and it writes the file again.      *)
THEOREM StoreIsImplemented == Spec => ImplementsStore
<1>1. TypeInv /\ TypeInv' /\ RecoveryInv /\ KeepingInv /\ [Next]_vars
        => [Store!SavedNext]_(Store!savedVars)
  <2> SUFFICES ASSUME TypeInv, TypeInv', RecoveryInv, KeepingInv, [Next]_vars
               PROVE  [Store!SavedNext]_(Store!savedVars)
    OBVIOUS
  <2>1. CASE Next
    <3>1. SavedMove
      BY <2>1, NextKept DEF Arrives
    <3>2. faults' = faults \/ faults' = faults + 1
      BY <2>1, FaultsOnlyCount DEF Fails
    <3>3. (faults > 0) => (faults' > 0)
      BY <3>2 DEF RecoveryInv
    <3> QED
      BY <3>1, <3>3, MoveIsSaved
  <2>2. CASE UNCHANGED vars
    <3>1. UNCHANGED <<disk, stable, ck, ram, pc, then, faults>>
      BY <2>2 DEF vars
    <3>2. Still
      BY <3>1 DEF Still, Kept, Clearing
    <3> QED
      BY <3>1, <3>2, StillIsStill
  <2> QED
    BY <2>1, <2>2
<1> QED
  BY <1>1, SavedInitially, TypeInvariant, RecoveryInvariant, KeepingInvariant, PTL
  DEF Spec, ImplementsStore, Store!SavedSpec
=============================================================================
