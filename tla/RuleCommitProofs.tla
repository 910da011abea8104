--------------------------- MODULE RuleCommitProofs ---------------------------
(* Proofs about RuleCommit: the reader barrier makes a commit one atomic step *)
(* for any number of readers, committers, slots and priorities.               *)
EXTENDS RuleCommit, FiniteSetTheorems, TLAPS

Inside == {r \in Reader : Counted(r)}

Labels == {"idle"} \union ReadLabels \union CommitLabels

DataOK ==
  /\ readsEnabled \in BOOLEAN /\ active \in TableIndex
  /\ tables \in [TableIndex -> Version \union {NoVersion}]
  /\ runtime \in Version /\ target \in Version
  /\ epoch \in Nat /\ begun \in 0 .. MaxCommits /\ swaps \in Nat
  /\ cursor \in 0 .. SlotCount
  /\ mine \in [Reader -> TableIndex]

ControlOK ==
  /\ pc \in [Task -> Labels]
  /\ lock \in Committer \union {NoTask}
  /\ \A c \in Committer : pc[c] \in CommitLabels <=> lock = c

CountOK == readers = Cardinality(Inside)

(* The door is closed exactly while the holder of the lock waits or publishes. *)
Closes(c) == pc[c] = "drain" \/ Publishing(c)
DoorOK == \A c \in Committer : Closes(c) => ~readsEnabled

(* The live table and the runtime state agree but while slots are published;  *)
(* then the inactive table is what they become.                               *)
PairOK ==
  /\ (\A c \in Committer : pc[c] # "publish") => tables[active] = runtime
  /\ \A c \in Committer : pc[c] \in {"pause", "drain", "publish"} => tables[1 - active] = target
  /\ \A c \in Committer : pc[c] = "publish" =>
       \A s \in Slots : s < cursor => runtime[s] = target[s]
  /\ tables[active] \in Version

EpochOK ==
  /\ (\A c \in Committer : pc[c] # "epoch") => epoch = swaps
  /\ \A c \in Committer : pc[c] = "epoch" => swaps = epoch + 1

MineOK == \A r \in Reader : pc[r] = "read" => mine[r] = active

CommitInv ==
  /\ DataOK /\ ControlOK /\ CountOK
  /\ DoorOK /\ QuiescentPublication /\ PairOK /\ EpochOK /\ MineOK

-----------------------------------------------------------------------------
LEMMA TypeFromInv == CommitInv => TypeOK
<1> SUFFICES ASSUME CommitInv PROVE TypeOK
  OBVIOUS
<1>1. DataOK /\ ControlOK /\ CountOK
  BY DEF CommitInv
<1> QED
  BY <1>1 DEF DataOK, ControlOK, CountOK, TypeOK, Inside, Labels

LEMMA InsideFinite == IsFiniteSet(Inside)
  BY TaskAssumption, FS_Subset DEF Inside

(* A task that is nowhere in a read is not counted, wherever it goes. *)
LEMMA InsideKept ==
  ASSUME ControlOK, NEW t \in Task, NEW from, NEW to, Goes(t, from, to),
         from \in {"recheck", "backout", "load", "read"} <=>
           to \in {"recheck", "backout", "load", "read"}
  PROVE  Inside' = Inside
  BY DEF ControlOK, Goes, Inside, Counted, Task

LEMMA InsideMore ==
  ASSUME ControlOK, CountOK, NEW r \in Reader, Goes(r, "enter", "recheck"),
         readers' = readers + 1
  PROVE  CountOK'
<1>1. Inside' = Inside \union {r} /\ r \notin Inside
  BY DEF ControlOK, Goes, Inside, Counted, Task
<1>2. Cardinality(Inside \union {r}) = Cardinality(Inside) + 1
  BY <1>1, InsideFinite, FS_AddElement
<1> QED
  BY <1>1, <1>2 DEF CountOK

LEMMA InsideLess ==
  ASSUME ControlOK, CountOK, NEW r \in Reader, NEW from \in {"backout", "read"},
         Goes(r, from, "idle"), readers' = readers - 1
  PROVE  CountOK'
<1>1. Inside' = Inside \ {r} /\ r \in Inside
  BY DEF ControlOK, Goes, Inside, Counted, Task
<1>2. Cardinality(Inside \ {r}) = Cardinality(Inside) - 1
  BY <1>1, InsideFinite, FS_RemoveElement
<1> QED
  BY <1>1, <1>2 DEF CountOK

(* With nobody counted no reader is inside. *)
LEMMA NobodyInside ==
  ASSUME CountOK, readers = 0
  PROVE  \A r \in Reader : ~InScope(r)
<1>1. Inside = {}
  BY InsideFinite, FS_EmptySet DEF CountOK
<1> QED
  BY <1>1 DEF Inside, InScope, Counted

LEMMA InitCommit == Init => CommitInv
<1> SUFFICES ASSUME Init PROVE CommitInv
  OBVIOUS
<1> USE SizeAssumption, TaskAssumption
<1>1. DataOK
  <2>1. [s \in Slots |-> 0] \in Version
    BY DEF Version
  <2> QED
    BY <2>1 DEF Init, DataOK, TableIndex
<1>2. ControlOK
  BY DEF Init, ControlOK, Task, Labels, CommitLabels
<1>3. CountOK
  <2>1. Inside = {}
    BY DEF Init, Inside, Counted, Task
  <2> QED
    BY <2>1, FS_EmptySet DEF Init, CountOK
<1>4. DoorOK /\ QuiescentPublication /\ EpochOK /\ MineOK
  BY DEF Init, DoorOK, Closes, QuiescentPublication, Publishing, EpochOK, MineOK, Task
<1>5. PairOK
  BY <1>1 DEF Init, PairOK, Task, TableIndex, DataOK
<1> QED
  BY <1>1, <1>2, <1>3, <1>4, <1>5 DEF CommitInv

-----------------------------------------------------------------------------
(* Steps of a commit. *)

LEMMA GoesPc ==
  ASSUME ControlOK, NEW t \in Task, NEW from, NEW to \in Labels, Goes(t, from, to)
  PROVE  /\ pc[t] = from /\ pc'[t] = to /\ pc' \in [Task -> Labels]
         /\ \A u \in Task : u # t => pc'[u] = pc[u]
  BY DEF ControlOK, Goes

LEMMA OneCommitter ==
  ASSUME ControlOK, NEW c \in Committer, pc[c] \in CommitLabels
  PROVE  lock = c /\ \A d \in Committer : d # c => pc[d] \notin CommitLabels
  BY DEF ControlOK

(* What a step of c says of the other tasks: while c commits nobody else does, *)
(* and readers stay where they are.                                           *)
OthersStay(c) ==
  /\ \A d \in Committer : d # c => pc[d] \notin CommitLabels /\ pc'[d] \notin CommitLabels
  /\ \A u \in Task : u # c => pc'[u] = pc[u]
  /\ \A r \in Reader : (InScope(r)' <=> InScope(r)) /\ (pc'[r] = "read" <=> pc[r] = "read")

LEMMA CommitterMoves ==
  ASSUME ControlOK, NEW c \in Committer, NEW from \in {"idle"} \union CommitLabels,
         NEW to \in {"idle"} \union CommitLabels, Goes(c, from, to),
         from = "idle" => lock = NoTask
  PROVE  /\ pc[c] = from /\ pc'[c] = to /\ pc' \in [Task -> Labels]
         /\ OthersStay(c) /\ Inside' = Inside
<1>1. c \in Task /\ to \in Labels
  BY DEF Task, Labels
<1>2. /\ pc[c] = from /\ pc'[c] = to /\ pc' \in [Task -> Labels]
      /\ \A u \in Task : u # c => pc'[u] = pc[u]
  BY <1>1, GoesPc
<1>3. Inside' = Inside
  BY <1>1, InsideKept DEF CommitLabels
<1>4. \A d \in Committer : d # c => pc[d] \notin CommitLabels /\ pc'[d] \notin CommitLabels
  <2>1. \A d \in Committer : d # c => pc[d] \notin CommitLabels
    BY <1>2, TaskAssumption DEF ControlOK, CommitLabels, Task
  <2> QED
    BY <1>2, <2>1 DEF Task
<1>5. \A r \in Reader : (InScope(r)' <=> InScope(r)) /\ (pc'[r] = "read" <=> pc[r] = "read")
  BY <1>2 DEF InScope, CommitLabels, Task
<1> QED
  BY <1>2, <1>3, <1>4, <1>5 DEF OthersStay

(* The lock follows the step: taken on leaving "idle", kept, released on return. *)
LEMMA ControlKept ==
  ASSUME ControlOK, NEW c \in Committer, OthersStay(c), pc' \in [Task -> Labels],
         \/ pc'[c] \in CommitLabels /\ lock' = c
         \/ pc'[c] = "idle" /\ lock' = NoTask
  PROVE  ControlOK'
  BY TaskAssumption DEF ControlOK, OthersStay, CommitLabels, Task

LEMMA BeginStep ==
  ASSUME CommitInv, NEW c \in Committer, BeginCommit(c)
  PROVE  CommitInv'
<1>0. /\ DataOK /\ ControlOK /\ CountOK
      /\ DoorOK /\ QuiescentPublication /\ PairOK /\ EpochOK /\ MineOK
  BY DEF CommitInv
<1>1. /\ pc[c] = "idle" /\ pc'[c] = "compile" /\ pc' \in [Task -> Labels]
      /\ OthersStay(c) /\ Inside' = Inside
  BY <1>0, CommitterMoves DEF BeginCommit, CommitLabels
<1>2. ControlOK'
  BY <1>0, <1>1, ControlKept DEF BeginCommit, CommitLabels
<1>3. /\ UNCHANGED <<readsEnabled, readers, active, runtime, epoch, cursor, mine, swaps>>
      /\ tables' = [tables EXCEPT ![1 - active] = NoVersion]
      /\ begun < MaxCommits /\ begun' = begun + 1
  BY DEF BeginCommit, Inactive
<1>4. target' \in Version
  <2>1. PICK changed \in SUBSET Slots :
          target' = [s \in Slots |-> IF s \in changed THEN begun + 1 ELSE runtime[s]]
    BY DEF BeginCommit
  <2>2. begun + 1 \in 0 .. MaxCommits /\ runtime \in [Slots -> 0 .. MaxCommits]
    BY <1>0, <1>3, SizeAssumption DEF DataOK, Version
  <2> QED
    BY <2>1, <2>2 DEF Version
<1>5. DataOK'
  <2>1. begun' \in 0 .. MaxCommits
    BY <1>0, <1>3, SizeAssumption DEF DataOK
  <2>2. tables' \in [TableIndex -> Version \union {NoVersion}]
    BY <1>0, <1>3 DEF DataOK
  <2> QED
    BY <1>0, <1>3, <1>4, <2>1, <2>2 DEF DataOK
<1>6. CountOK' /\ DoorOK' /\ EpochOK' /\ MineOK'
  BY <1>0, <1>1, <1>3 DEF CountOK, DoorOK, Closes, Publishing, EpochOK, MineOK, OthersStay,
                          CommitLabels
<1>7. QuiescentPublication'
  BY <1>0, <1>1 DEF QuiescentPublication, Publishing, OthersStay, CommitLabels
<1>8. PairOK'
  <2>1. \A d \in Committer : pc[d] # "publish" /\ pc'[d] \notin {"pause", "drain", "publish"}
    BY <1>1 DEF OthersStay, CommitLabels
  <2>2. tables'[active] = tables[active]
    BY <1>0, <1>3 DEF DataOK, TableIndex
  <2> QED
    BY <1>0, <1>3, <2>1, <2>2 DEF PairOK
<1> QED
  BY <1>2, <1>5, <1>6, <1>7, <1>8 DEF CommitInv

LEMMA CompileFailsStep ==
  ASSUME CommitInv, NEW c \in Committer, CompileFails(c)
  PROVE  CommitInv'
<1>0. /\ DataOK /\ ControlOK /\ CountOK
      /\ DoorOK /\ QuiescentPublication /\ PairOK /\ EpochOK /\ MineOK
  BY DEF CommitInv
<1>1. /\ pc[c] = "compile" /\ pc'[c] = "idle" /\ pc' \in [Task -> Labels]
      /\ OthersStay(c) /\ Inside' = Inside
  BY <1>0, CommitterMoves DEF CompileFails, CommitLabels
<1>2. ControlOK'
  BY <1>0, <1>1, ControlKept DEF CompileFails
<1>3. UNCHANGED <<readsEnabled, readers, active, tables, runtime, epoch, target, cursor, mine,
                  begun, swaps>>
  BY DEF CompileFails
<1>4. DataOK' /\ CountOK' /\ DoorOK' /\ EpochOK' /\ MineOK'
  BY <1>0, <1>1, <1>3 DEF DataOK, CountOK, DoorOK, Closes, Publishing, EpochOK, MineOK,
                          OthersStay, CommitLabels
<1>5. QuiescentPublication'
  BY <1>0, <1>1 DEF QuiescentPublication, Publishing, OthersStay, CommitLabels
<1>6. PairOK'
  <2>1. \A d \in Committer : pc[d] # "publish" /\ pc'[d] \notin {"pause", "drain", "publish"}
    BY <1>1 DEF OthersStay, CommitLabels
  <2> QED
    BY <1>0, <1>3, <2>1 DEF PairOK
<1> QED
  BY <1>2, <1>4, <1>5, <1>6 DEF CommitInv

LEMMA CompileStep ==
  ASSUME CommitInv, NEW c \in Committer, Compile(c)
  PROVE  CommitInv'
<1>0. /\ DataOK /\ ControlOK /\ CountOK
      /\ DoorOK /\ QuiescentPublication /\ PairOK /\ EpochOK /\ MineOK
  BY DEF CommitInv
<1>1. /\ pc[c] = "compile" /\ pc'[c] = "pause" /\ pc' \in [Task -> Labels]
      /\ OthersStay(c) /\ Inside' = Inside
  BY <1>0, CommitterMoves DEF Compile, CommitLabels
<1>2. /\ UNCHANGED <<readsEnabled, readers, active, runtime, epoch, lock, target, cursor, mine,
                     begun, swaps>>
      /\ tables' = [tables EXCEPT ![1 - active] = target]
  BY DEF Compile, Inactive
<1>3. ControlOK'
  BY <1>0, <1>1, <1>2, OneCommitter, ControlKept DEF CommitLabels
<1>4. DataOK' /\ CountOK' /\ DoorOK' /\ EpochOK' /\ MineOK'
  BY <1>0, <1>1, <1>2 DEF DataOK, CountOK, DoorOK, Closes, Publishing, EpochOK, MineOK,
                          OthersStay, CommitLabels
<1>5. QuiescentPublication'
  BY <1>0, <1>1 DEF QuiescentPublication, Publishing, OthersStay, CommitLabels
<1>6. PairOK'
  <2>1. \A d \in Committer : pc[d] # "publish" /\ pc'[d] # "publish"
    BY <1>1 DEF OthersStay, CommitLabels
  <2>2. tables'[active] = tables[active] /\ tables'[1 - active] = target
    BY <1>0, <1>2 DEF DataOK, TableIndex
  <2> QED
    BY <1>0, <1>2, <2>1, <2>2 DEF PairOK
<1> QED
  BY <1>3, <1>4, <1>5, <1>6 DEF CommitInv

LEMMA PauseStep ==
  ASSUME CommitInv, NEW c \in Committer, Pause(c)
  PROVE  CommitInv'
<1>0. /\ DataOK /\ ControlOK /\ CountOK
      /\ DoorOK /\ QuiescentPublication /\ PairOK /\ EpochOK /\ MineOK
  BY DEF CommitInv
<1>1. /\ pc[c] = "pause" /\ pc'[c] = "drain" /\ pc' \in [Task -> Labels]
      /\ OthersStay(c) /\ Inside' = Inside
  BY <1>0, CommitterMoves DEF Pause, CommitLabels
<1>2. /\ UNCHANGED <<readers, active, tables, runtime, epoch, lock, target, cursor, mine,
                     begun, swaps>>
      /\ readsEnabled' = FALSE
  BY DEF Pause
<1>3. ControlOK'
  BY <1>0, <1>1, <1>2, OneCommitter, ControlKept DEF CommitLabels
<1>4. DataOK' /\ CountOK' /\ DoorOK' /\ EpochOK' /\ MineOK'
  BY <1>0, <1>1, <1>2 DEF DataOK, CountOK, DoorOK, Closes, Publishing, EpochOK, MineOK,
                          OthersStay, CommitLabels
<1>5. QuiescentPublication'
  BY <1>0, <1>1 DEF QuiescentPublication, Publishing, OthersStay, CommitLabels
<1>6. PairOK'
  <2>1. \A d \in Committer : pc[d] # "publish" /\ pc'[d] # "publish"
    BY <1>1 DEF OthersStay, CommitLabels
  <2>2. \A d \in Committer : pc'[d] \in {"pause", "drain", "publish"} => pc[d] = "pause"
    BY <1>1 DEF OthersStay, CommitLabels
  <2> QED
    BY <1>0, <1>2, <2>1, <2>2 DEF PairOK
<1> QED
  BY <1>3, <1>4, <1>5, <1>6 DEF CommitInv

(* The step that needs the barrier: nobody is counted, so nobody is inside.    *)
LEMMA DrainedStep ==
  ASSUME CommitInv, NEW c \in Committer, Drained(c)
  PROVE  CommitInv'
<1>0. /\ DataOK /\ ControlOK /\ CountOK
      /\ DoorOK /\ QuiescentPublication /\ PairOK /\ EpochOK /\ MineOK
  BY DEF CommitInv
<1>1. /\ pc[c] = "drain" /\ pc'[c] = "publish" /\ pc' \in [Task -> Labels]
      /\ OthersStay(c) /\ Inside' = Inside
  BY <1>0, CommitterMoves DEF Drained, CommitLabels
<1>2. /\ UNCHANGED <<readsEnabled, readers, active, tables, runtime, epoch, lock, target, mine,
                     begun, swaps>>
      /\ readers = 0 /\ cursor' = 0
  BY DEF Drained
<1>3. ControlOK'
  BY <1>0, <1>1, <1>2, OneCommitter, ControlKept DEF CommitLabels
<1>4. DataOK'
  BY <1>0, <1>2, SizeAssumption DEF DataOK
<1>5. CountOK' /\ DoorOK' /\ EpochOK' /\ MineOK'
  BY <1>0, <1>1, <1>2 DEF CountOK, DoorOK, Closes, Publishing, EpochOK, MineOK,
                          OthersStay, CommitLabels
<1>6. QuiescentPublication'
  BY <1>0, <1>1, <1>2, NobodyInside DEF QuiescentPublication, OthersStay
<1>7. PairOK'
  <2>1. \A d \in Committer : pc'[d] \in {"pause", "drain", "publish"} => d = c
    BY <1>1 DEF OthersStay, CommitLabels
  <2>2. tables[1 - active] = target /\ tables[active] \in Version
    BY <1>0, <1>1 DEF PairOK
  <2>3. \A s \in Slots : ~(s < 0)
    BY DEF Slots
  <2> QED
    BY <1>1, <1>2, <2>1, <2>2, <2>3 DEF PairOK
<1> QED
  BY <1>3, <1>4, <1>5, <1>6, <1>7 DEF CommitInv

LEMMA PublishSlotStep ==
  ASSUME CommitInv, NEW c \in Committer, PublishSlot(c)
  PROVE  CommitInv'
<1>0. /\ DataOK /\ ControlOK /\ CountOK
      /\ DoorOK /\ QuiescentPublication /\ PairOK /\ EpochOK /\ MineOK
  BY DEF CommitInv
<1>1. /\ pc[c] = "publish" /\ pc'[c] = "publish" /\ pc' \in [Task -> Labels]
      /\ OthersStay(c) /\ Inside' = Inside
  BY <1>0, CommitterMoves DEF PublishSlot, CommitLabels
<1>2. /\ UNCHANGED <<readsEnabled, readers, active, tables, epoch, lock, target, mine,
                     begun, swaps>>
      /\ cursor < SlotCount /\ cursor' = cursor + 1
      /\ runtime' = [runtime EXCEPT ![cursor] = target[cursor]]
  BY DEF PublishSlot
<1>3. ControlOK'
  BY <1>0, <1>1, <1>2, OneCommitter, ControlKept DEF CommitLabels
<1>4. /\ cursor \in Slots /\ cursor + 1 \in 0 .. SlotCount
      /\ \A s \in Slots : s < cursor + 1 => s < cursor \/ s = cursor
  BY <1>0, <1>2, SizeAssumption DEF DataOK, Slots
<1>5. runtime' \in Version
  BY <1>0, <1>2, <1>4 DEF DataOK, Version
<1>6. DataOK'
  BY <1>0, <1>2, <1>4, <1>5 DEF DataOK
<1>7. CountOK' /\ DoorOK' /\ EpochOK' /\ MineOK'
  BY <1>0, <1>1, <1>2 DEF CountOK, DoorOK, Closes, Publishing, EpochOK, MineOK,
                          OthersStay, CommitLabels
<1>8. QuiescentPublication'
  BY <1>0, <1>1 DEF QuiescentPublication, Publishing, OthersStay, CommitLabels
<1>9. PairOK'
  <2>1. \A d \in Committer : pc'[d] \in {"pause", "drain", "publish"} => d = c
    BY <1>1 DEF OthersStay, CommitLabels
  <2>2. /\ tables[1 - active] = target /\ tables[active] \in Version
        /\ \A s \in Slots : s < cursor => runtime[s] = target[s]
    BY <1>0, <1>1 DEF PairOK
  <2>3. \A s \in Slots : runtime'[s] = IF s = cursor THEN target[s] ELSE runtime[s]
    BY <1>0, <1>2 DEF DataOK, Version
  <2>4. \A s \in Slots : s < cursor' => runtime'[s] = target[s]
    BY <1>2, <1>4, <2>2, <2>3
  <2> QED
    BY <1>1, <1>2, <2>1, <2>2, <2>4 DEF PairOK
<1> QED
  BY <1>3, <1>6, <1>7, <1>8, <1>9 DEF CommitInv

(* All slots are written: the runtime state is what the new table expects.     *)
LEMMA SwapPair ==
  ASSUME CommitInv, NEW c \in Committer, Swap(c)
  PROVE  runtime = target /\ tables[1 - active] = target
<1>0. DataOK /\ PairOK /\ pc[c] = "publish" /\ cursor = SlotCount
  BY DEF CommitInv, Swap, Goes
<1>1. /\ tables[1 - active] = target
      /\ \A s \in Slots : s < cursor => runtime[s] = target[s]
  BY <1>0 DEF PairOK
<1>2. \A s \in Slots : s < cursor
  BY <1>0, SizeAssumption DEF Slots
<1>3. runtime \in [Slots -> 0 .. MaxCommits] /\ target \in [Slots -> 0 .. MaxCommits]
  BY <1>0 DEF DataOK, Version
<1> QED
  BY <1>1, <1>2, <1>3

LEMMA SwapStep ==
  ASSUME CommitInv, NEW c \in Committer, Swap(c)
  PROVE  CommitInv'
<1>0. /\ DataOK /\ ControlOK /\ CountOK
      /\ DoorOK /\ QuiescentPublication /\ PairOK /\ EpochOK /\ MineOK
  BY DEF CommitInv
<1>1. /\ pc[c] = "publish" /\ pc'[c] = "epoch" /\ pc' \in [Task -> Labels]
      /\ OthersStay(c) /\ Inside' = Inside
  BY <1>0, CommitterMoves DEF Swap, CommitLabels
<1>2. /\ UNCHANGED <<readsEnabled, readers, tables, runtime, epoch, lock, target, cursor, mine,
                     begun>>
      /\ active' = 1 - active /\ swaps' = swaps + 1
  BY DEF Swap, Inactive
<1>3. ControlOK'
  BY <1>0, <1>1, <1>2, OneCommitter, ControlKept DEF CommitLabels
<1>4. DataOK'
  <2>1. active' \in TableIndex /\ swaps' \in Nat
    BY <1>0, <1>2 DEF DataOK, TableIndex
  <2> QED
    BY <1>0, <1>2, <2>1 DEF DataOK
<1>5. CountOK' /\ DoorOK'
  BY <1>0, <1>1, <1>2 DEF CountOK, DoorOK, Closes, Publishing, OthersStay, CommitLabels
<1>6. EpochOK'
  BY <1>0, <1>1, <1>2 DEF EpochOK, OthersStay, CommitLabels
<1>7. QuiescentPublication' /\ \A r \in Reader : ~InScope(r)
  BY <1>0, <1>1 DEF QuiescentPublication, Publishing, OthersStay, CommitLabels
<1>8. MineOK'
  BY <1>1, <1>7 DEF MineOK, InScope, OthersStay
<1>9. PairOK'
  <2>1. \A d \in Committer : pc'[d] \notin {"pause", "drain", "publish"}
    BY <1>1 DEF OthersStay, CommitLabels
  <2>2. tables'[active'] = runtime' /\ tables'[active'] \in Version
    BY <1>0, <1>2, SwapPair DEF DataOK
  <2> QED
    BY <2>1, <2>2 DEF PairOK
<1> QED
  BY <1>3, <1>4, <1>5, <1>6, <1>7, <1>8, <1>9 DEF CommitInv

LEMMA AdvanceEpochStep ==
  ASSUME CommitInv, NEW c \in Committer, AdvanceEpoch(c)
  PROVE  CommitInv'
<1>0. /\ DataOK /\ ControlOK /\ CountOK
      /\ DoorOK /\ QuiescentPublication /\ PairOK /\ EpochOK /\ MineOK
  BY DEF CommitInv
<1>1. /\ pc[c] = "epoch" /\ pc'[c] = "resume" /\ pc' \in [Task -> Labels]
      /\ OthersStay(c) /\ Inside' = Inside
  BY <1>0, CommitterMoves DEF AdvanceEpoch, CommitLabels
<1>2. /\ UNCHANGED <<readsEnabled, readers, active, tables, runtime, lock, target, cursor, mine,
                     begun, swaps>>
      /\ epoch' = epoch + 1
  BY DEF AdvanceEpoch
<1>3. ControlOK'
  BY <1>0, <1>1, <1>2, OneCommitter, ControlKept DEF CommitLabels
<1>4. DataOK' /\ CountOK' /\ DoorOK' /\ MineOK'
  BY <1>0, <1>1, <1>2 DEF DataOK, CountOK, DoorOK, Closes, Publishing, MineOK,
                          OthersStay, CommitLabels
<1>5. EpochOK'
  BY <1>0, <1>1, <1>2 DEF EpochOK, OthersStay, CommitLabels
<1>6. QuiescentPublication'
  BY <1>0, <1>1 DEF QuiescentPublication, Publishing, OthersStay, CommitLabels
<1>7. PairOK'
  <2>1. \A d \in Committer : pc[d] # "publish" /\ pc'[d] \notin {"pause", "drain", "publish"}
    BY <1>1 DEF OthersStay, CommitLabels
  <2> QED
    BY <1>0, <1>2, <2>1 DEF PairOK
<1> QED
  BY <1>3, <1>4, <1>5, <1>6, <1>7 DEF CommitInv

LEMMA ResumeStep ==
  ASSUME CommitInv, NEW c \in Committer, Resume(c)
  PROVE  CommitInv'
<1>0. /\ DataOK /\ ControlOK /\ CountOK
      /\ DoorOK /\ QuiescentPublication /\ PairOK /\ EpochOK /\ MineOK
  BY DEF CommitInv
<1>1. /\ pc[c] = "resume" /\ pc'[c] = "idle" /\ pc' \in [Task -> Labels]
      /\ OthersStay(c) /\ Inside' = Inside
  BY <1>0, CommitterMoves DEF Resume, CommitLabels
<1>2. /\ UNCHANGED <<readers, active, tables, runtime, epoch, target, cursor, mine, begun, swaps>>
      /\ readsEnabled' = TRUE
  BY DEF Resume
<1>3. ControlOK'
  BY <1>0, <1>1, ControlKept DEF Resume
<1>4. DataOK' /\ CountOK' /\ DoorOK' /\ EpochOK' /\ MineOK'
  BY <1>0, <1>1, <1>2 DEF DataOK, CountOK, DoorOK, Closes, Publishing, EpochOK, MineOK,
                          OthersStay, CommitLabels
<1>5. QuiescentPublication'
  BY <1>0, <1>1 DEF QuiescentPublication, Publishing, OthersStay, CommitLabels
<1>6. PairOK'
  <2>1. \A d \in Committer : pc[d] # "publish" /\ pc'[d] \notin {"pause", "drain", "publish"}
    BY <1>1 DEF OthersStay, CommitLabels
  <2> QED
    BY <1>0, <1>2, <2>1 DEF PairOK
<1> QED
  BY <1>3, <1>4, <1>5, <1>6 DEF CommitInv

LEMMA SpinStep ==
  ASSUME CommitInv, NEW c \in Committer, Spin(c)
  PROVE  CommitInv' /\ UNCHANGED vars
<1>1. pc' = pc
  BY DEF CommitInv, ControlOK, Spin, Goes
<1>2. UNCHANGED vars
  BY <1>1 DEF Spin, commitVars, vars
<1> QED
  BY <1>2 DEF CommitInv, DataOK, ControlOK, CountOK, DoorOK, QuiescentPublication, PairOK,
              EpochOK, MineOK, Inside, Counted, Closes, Publishing, InScope, vars

-----------------------------------------------------------------------------
(* Steps of a reader. *)

(* A reader's step leaves the commit where it is; it keeps the parts of the    *)
(* invariant that are not about who is counted or inside.                     *)
LEMMA ReaderMoves ==
  ASSUME CommitInv, NEW r \in Reader, NEW from \in {"idle"} \union ReadLabels,
         NEW to \in {"idle"} \union ReadLabels, Goes(r, from, to), UNCHANGED commitVars
  PROVE  /\ pc[r] = from /\ pc'[r] = to
         /\ \A u \in Task : u # r => pc'[u] = pc[u]
         /\ \A c \in Committer : pc'[c] \in CommitLabels \/ pc[c] \in CommitLabels =>
                                  pc'[c] = pc[c]
         /\ ControlOK' /\ DoorOK' /\ PairOK' /\ EpochOK'
<1>0. ControlOK /\ DoorOK /\ PairOK /\ EpochOK
  BY DEF CommitInv
<1>1. r \in Task /\ to \in Labels
  BY DEF Task, Labels
<1>2. /\ pc[r] = from /\ pc'[r] = to /\ pc' \in [Task -> Labels]
      /\ \A u \in Task : u # r => pc'[u] = pc[u]
  BY <1>0, <1>1, GoesPc
<1>3. pc[r] \notin CommitLabels /\ pc'[r] \notin CommitLabels
  BY <1>2 DEF ReadLabels, CommitLabels
<1>4. \A c \in Committer : pc'[c] \in CommitLabels \/ pc[c] \in CommitLabels =>
                           pc'[c] = pc[c]
  BY <1>2, <1>3 DEF Task
<1>5. ControlOK'
  BY <1>0, <1>2, <1>4 DEF ControlOK, commitVars
<1>6. DoorOK' /\ EpochOK'
  BY <1>0, <1>4 DEF DoorOK, EpochOK, Closes, Publishing, CommitLabels, commitVars
<1>7. PairOK'
  BY <1>0, <1>4 DEF PairOK, CommitLabels, commitVars
<1> QED
  BY <1>2, <1>4, <1>5, <1>6, <1>7

LEMMA ReadStepInv ==
  ASSUME CommitInv, NEW r \in Reader, SeeDoorOpen(r) \/ ReadStep(r)
  PROVE  CommitInv'
<1>0. /\ DataOK /\ ControlOK /\ CountOK
      /\ DoorOK /\ QuiescentPublication /\ PairOK /\ EpochOK /\ MineOK
  BY DEF CommitInv
<1>1. CASE SeeDoorOpen(r)
  <2>1. Goes(r, "idle", "enter") /\ UNCHANGED <<commitVars, readers, mine>>
    BY <1>1 DEF SeeDoorOpen
  <2>2. /\ pc[r] = "idle" /\ pc'[r] = "enter" /\ \A u \in Task : u # r => pc'[u] = pc[u]
        /\ \A c \in Committer : pc'[c] \in CommitLabels \/ pc[c] \in CommitLabels =>
                                 pc'[c] = pc[c]
        /\ ControlOK' /\ DoorOK' /\ PairOK' /\ EpochOK'
    BY <2>1, ReaderMoves DEF ReadLabels
  <2>3. Inside' = Inside
    BY <1>0, <2>1, InsideKept DEF Task
  <2>4. CountOK' /\ DataOK' /\ MineOK'
    BY <1>0, <2>1, <2>2, <2>3 DEF CountOK, DataOK, MineOK, commitVars, Task
  <2>5. QuiescentPublication'
    BY <1>0, <2>2 DEF QuiescentPublication, Publishing, InScope, CommitLabels, Task
  <2> QED
    BY <2>2, <2>4, <2>5 DEF CommitInv
<1>2. CASE Enter(r)
  <2>1. Goes(r, "enter", "recheck") /\ UNCHANGED <<commitVars, mine>> /\ readers' = readers + 1
    BY <1>2 DEF Enter
  <2>2. /\ pc[r] = "enter" /\ pc'[r] = "recheck" /\ \A u \in Task : u # r => pc'[u] = pc[u]
        /\ \A c \in Committer : pc'[c] \in CommitLabels \/ pc[c] \in CommitLabels =>
                                 pc'[c] = pc[c]
        /\ ControlOK' /\ DoorOK' /\ PairOK' /\ EpochOK'
    BY <2>1, ReaderMoves DEF ReadLabels
  <2>3. CountOK'
    BY <1>0, <2>1, InsideMore
  <2>4. DataOK' /\ MineOK'
    BY <1>0, <2>1, <2>2 DEF DataOK, MineOK, commitVars, Task
  <2>5. QuiescentPublication'
    BY <1>0, <2>2 DEF QuiescentPublication, Publishing, InScope, CommitLabels, Task
  <2> QED
    BY <2>2, <2>3, <2>4, <2>5 DEF CommitInv
<1>3. CASE Recheck(r) /\ readsEnabled
  <2>1. Goes(r, "recheck", "load") /\ UNCHANGED <<commitVars, readers, mine>>
    BY <1>3 DEF Recheck
  <2>2. /\ pc[r] = "recheck" /\ pc'[r] = "load" /\ \A u \in Task : u # r => pc'[u] = pc[u]
        /\ \A c \in Committer : pc'[c] \in CommitLabels \/ pc[c] \in CommitLabels =>
                                 pc'[c] = pc[c]
        /\ ControlOK' /\ DoorOK' /\ PairOK' /\ EpochOK'
    BY <2>1, ReaderMoves DEF ReadLabels
  <2>3. Inside' = Inside
    BY <1>0, <2>1, InsideKept DEF Task
  <2>4. CountOK' /\ DataOK' /\ MineOK'
    BY <1>0, <2>1, <2>2, <2>3 DEF CountOK, DataOK, MineOK, commitVars, Task
  <2>5. QuiescentPublication'
    BY <1>0, <1>3, <2>2 DEF QuiescentPublication, DoorOK, Closes, Publishing, CommitLabels
  <2> QED
    BY <2>2, <2>4, <2>5 DEF CommitInv
<1>4. CASE Recheck(r) /\ ~readsEnabled
  <2>1. Goes(r, "recheck", "backout") /\ UNCHANGED <<commitVars, readers, mine>>
    BY <1>4 DEF Recheck
  <2>2. /\ pc[r] = "recheck" /\ pc'[r] = "backout" /\ \A u \in Task : u # r => pc'[u] = pc[u]
        /\ \A c \in Committer : pc'[c] \in CommitLabels \/ pc[c] \in CommitLabels =>
                                 pc'[c] = pc[c]
        /\ ControlOK' /\ DoorOK' /\ PairOK' /\ EpochOK'
    BY <2>1, ReaderMoves DEF ReadLabels
  <2>3. Inside' = Inside
    BY <1>0, <2>1, InsideKept DEF Task
  <2>4. CountOK' /\ DataOK' /\ MineOK'
    BY <1>0, <2>1, <2>2, <2>3 DEF CountOK, DataOK, MineOK, commitVars, Task
  <2>5. QuiescentPublication'
    BY <1>0, <2>2 DEF QuiescentPublication, Publishing, InScope, CommitLabels, Task
  <2> QED
    BY <2>2, <2>4, <2>5 DEF CommitInv
<1>5. CASE BackOut(r) \/ Leave(r)
  <2>1. /\ UNCHANGED <<commitVars, mine>> /\ readers' = readers - 1
        /\ \E from \in {"backout", "read"} : Goes(r, from, "idle")
    BY <1>5 DEF BackOut, Leave
  <2>2. PICK from \in {"backout", "read"} : Goes(r, from, "idle")
    BY <2>1
  <2>3. /\ pc[r] = from /\ pc'[r] = "idle" /\ \A u \in Task : u # r => pc'[u] = pc[u]
        /\ \A c \in Committer : pc'[c] \in CommitLabels \/ pc[c] \in CommitLabels =>
                                 pc'[c] = pc[c]
        /\ ControlOK' /\ DoorOK' /\ PairOK' /\ EpochOK'
    BY <2>1, <2>2, ReaderMoves DEF ReadLabels
  <2>4. CountOK'
    BY <1>0, <2>1, <2>2, InsideLess
  <2>5. DataOK' /\ MineOK'
    BY <1>0, <2>1, <2>3 DEF DataOK, MineOK, commitVars, Task
  <2>6. QuiescentPublication'
    BY <1>0, <2>3 DEF QuiescentPublication, Publishing, InScope, CommitLabels, Task
  <2> QED
    BY <2>3, <2>4, <2>5, <2>6 DEF CommitInv
<1>6. CASE LoadTable(r)
  <2>1. /\ Goes(r, "load", "read") /\ UNCHANGED <<commitVars, readers>>
        /\ mine' = [mine EXCEPT ![r] = active]
    BY <1>6 DEF LoadTable
  <2>2. /\ pc[r] = "load" /\ pc'[r] = "read" /\ \A u \in Task : u # r => pc'[u] = pc[u]
        /\ \A c \in Committer : pc'[c] \in CommitLabels \/ pc[c] \in CommitLabels =>
                                 pc'[c] = pc[c]
        /\ ControlOK' /\ DoorOK' /\ PairOK' /\ EpochOK'
    BY <2>1, ReaderMoves DEF ReadLabels
  <2>3. Inside' = Inside
    BY <1>0, <2>1, InsideKept DEF Task
  <2>4. CountOK' /\ DataOK'
    BY <1>0, <2>1, <2>3 DEF CountOK, DataOK, commitVars
  <2>5. MineOK'
    BY <1>0, <2>1, <2>2 DEF DataOK, MineOK, commitVars, Task
  <2>6. QuiescentPublication'
    BY <1>0, <2>2 DEF QuiescentPublication, Publishing, InScope, CommitLabels, Task
  <2> QED
    BY <2>2, <2>4, <2>5, <2>6 DEF CommitInv
<1> QED
  BY <1>0, <1>1, <1>2, <1>3, <1>4, <1>5, <1>6 DEF ReadStep, DataOK

-----------------------------------------------------------------------------
LEMMA NextInv == CommitInv /\ [Next]_vars => CommitInv'
<1> SUFFICES ASSUME CommitInv, [Next]_vars PROVE CommitInv'
  OBVIOUS
<1>1. CASE \E c \in Committer : BeginCommit(c) \/ CommitStep(c) \/ Spin(c)
  <2>1. PICK c \in Committer : BeginCommit(c) \/ CommitStep(c) \/ Spin(c)
    BY <1>1
  <2> QED
    BY <2>1, BeginStep, CompileFailsStep, CompileStep, PauseStep, DrainedStep, PublishSlotStep,
       SwapStep, AdvanceEpochStep, ResumeStep, SpinStep DEF CommitStep
<1>2. CASE \E r \in Reader : SeeDoorOpen(r) \/ ReadStep(r)
  BY <1>2, ReadStepInv
<1>3. CASE UNCHANGED vars
  BY <1>3 DEF CommitInv, DataOK, ControlOK, CountOK, DoorOK, QuiescentPublication, PairOK,
              EpochOK, MineOK, Inside, Counted, Closes, Publishing, InScope, vars
<1> QED
  BY <1>1, <1>2, <1>3 DEF Next

(* The invariant every other fact is read off.                                *)
THEOREM CommitInvariant == Spec => []CommitInv
<1> QED
  BY InitCommit, NextInv, PTL DEF Spec

(* mutation_readers_ is always the number of tasks that will decrement it and  *)
(* the lock is held by the one task inside applyCommit.                       *)
THEOREM CommitTypeOK == Spec => []TypeOK
<1> QED
  BY CommitInvariant, TypeFromInv, PTL

(* No reader is between beginMutationRead and the end of its scope while       *)
(* applyCommit replaces the runtime state and the table.                      *)
THEOREM PublicationIsQuiescent == Spec => []QuiescentPublication
<1>1. CommitInv => QuiescentPublication
  BY DEF CommitInv
<1> QED
  BY <1>1, CommitInvariant, PTL

(* A frame is changed by the table and the runtime values of one commit, and   *)
(* the epoch a reader sees is the one of that table.                          *)
THEOREM ReadersSeeOneCommit == Spec => [](ReaderSeesOneCommit /\ EpochNamesTable)
<1>1. CommitInv => ReaderSeesOneCommit /\ EpochNamesTable
  <2> SUFFICES ASSUME CommitInv PROVE ReaderSeesOneCommit /\ EpochNamesTable
    OBVIOUS
  <2>1. QuiescentPublication /\ PairOK /\ EpochOK /\ MineOK
    BY DEF CommitInv
  <2>2. ReaderSeesOneCommit
    BY <2>1 DEF ReaderSeesOneCommit, QuiescentPublication, Publishing, InScope, PairOK, MineOK
  <2>3. EpochNamesTable
    BY <2>1 DEF EpochNamesTable, QuiescentPublication, Publishing, EpochOK
  <2> QED
    BY <2>2, <2>3
<1> QED
  BY <1>1, CommitInvariant, PTL

(* The epoch a reader finds is the epoch of the table it reads.                *)
THEOREM EpochIsOfTheTable == Spec => []EpochNamesTable
  BY ReadersSeeOneCommit, PTL

-----------------------------------------------------------------------------
(* Refinement: only Swap changes what is live, only Recheck begins a read and  *)
(* only Leave ends one.                                                       *)
Live == tables[active]
View == [r \in Reader |-> IF InScope(r) THEN runtime ELSE NoVersion]

(* A step that changes neither who is inside nor what they read.              *)
LEMMA ViewKept ==
  ASSUME \A r \in Reader : InScope(r)' <=> InScope(r),
         runtime' = runtime \/ \A r \in Reader : ~InScope(r)
  PROVE  View' = View
  BY DEF View

LEMMA CommitRefines ==
  ASSUME CommitInv, NEW c \in Committer, BeginCommit(c) \/ CommitStep(c)
  PROVE  View' = View /\ (Live' = Live \/ Publication!Publish)
<1>0. DataOK /\ ControlOK /\ QuiescentPublication
  BY DEF CommitInv
<1>1. OthersStay(c)
  BY <1>0, CommitterMoves DEF BeginCommit, CommitStep, CompileFails, Compile, Pause, Drained,
     PublishSlot, Swap, AdvanceEpoch, Resume, CommitLabels
<1>2. \A r \in Reader : InScope(r)' <=> InScope(r)
  BY <1>1 DEF OthersStay
<1>3. CASE PublishSlot(c)
  <2>1. \A r \in Reader : ~InScope(r)
    BY <1>0, <1>3 DEF QuiescentPublication, Publishing, PublishSlot, Goes
  <2> QED
    BY <1>2, <1>3, <2>1, ViewKept DEF PublishSlot, Live
<1>4. CASE Swap(c)
  <2>1. \A r \in Reader : ~InScope(r)
    BY <1>0, <1>4 DEF QuiescentPublication, Publishing, Swap, Goes
  <2>2. View' = View
    BY <1>2, <2>1, ViewKept
  <2>3. Live' = target /\ target \in Version
    BY <1>0, <1>4, SwapPair DEF Live, Swap, Inactive, DataOK
  <2> QED
    BY <2>1, <2>2, <2>3 DEF Publication!Publish, Live, View
<1>5. CASE BeginCommit(c) \/ Compile(c)
  <2>1. runtime' = runtime /\ active' = active
    BY <1>5 DEF BeginCommit, Compile
  <2>2. \E v : tables' = [tables EXCEPT ![1 - active] = v]
    BY <1>5 DEF BeginCommit, Compile, Inactive
  <2>3. Live' = Live
    BY <1>0, <2>1, <2>2 DEF Live, DataOK, TableIndex
  <2> QED
    BY <1>2, <2>1, <2>3, ViewKept
<1>6. CASE CompileFails(c) \/ Pause(c) \/ Drained(c) \/ AdvanceEpoch(c) \/ Resume(c)
  <2>1. UNCHANGED <<runtime, active, tables>>
    BY <1>6 DEF CompileFails, Pause, Drained, AdvanceEpoch, Resume
  <2> QED
    BY <1>2, <2>1, ViewKept DEF Live
<1> QED
  BY <1>3, <1>4, <1>5, <1>6 DEF CommitStep

LEMMA ReadRefines ==
  ASSUME CommitInv, NEW r \in Reader, SeeDoorOpen(r) \/ ReadStep(r)
  PROVE  \/ Publication!Begin(r) \/ Publication!End(r)
         \/ Live' = Live /\ View' = View
<1>0. ControlOK /\ DoorOK /\ PairOK /\ DataOK
  BY DEF CommitInv
<1>1. UNCHANGED commitVars
  BY DEF SeeDoorOpen, ReadStep, Enter, Recheck, BackOut, LoadTable, Leave
<1>2. Live' = Live /\ runtime' = runtime
  BY <1>1 DEF Live, commitVars
<1>3. ASSUME NEW from \in {"idle"} \union ReadLabels, NEW to \in {"idle"} \union ReadLabels,
             Goes(r, from, to)
      PROVE  /\ pc[r] = from /\ pc'[r] = to
             /\ \A u \in Reader : u # r => (InScope(u)' <=> InScope(u))
  BY <1>1, <1>3, ReaderMoves DEF InScope, Task
<1>4. CASE Recheck(r) /\ readsEnabled
  <2>1. /\ pc[r] = "recheck" /\ pc'[r] = "load"
        /\ \A u \in Reader : u # r => (InScope(u)' <=> InScope(u))
    BY <1>3, <1>4 DEF Recheck, ReadLabels
  <2>2. Live = runtime
    BY <1>0, <1>4 DEF Live, PairOK, DoorOK, Closes, Publishing
  <2>3. View[r] = NoVersion /\ View' = [View EXCEPT ![r] = Live]
    BY <1>2, <2>1, <2>2 DEF View, InScope
  <2> QED
    BY <1>2, <2>3 DEF Publication!Begin, Live, View
<1>5. CASE Leave(r)
  <2>1. /\ pc[r] = "read" /\ pc'[r] = "idle"
        /\ \A u \in Reader : u # r => (InScope(u)' <=> InScope(u))
    BY <1>3, <1>5 DEF Leave, ReadLabels
  <2>2. View[r] = runtime /\ runtime # NoVersion
    BY <1>0, <2>1, SizeAssumption DEF View, InScope, DataOK
  <2>3. View' = [View EXCEPT ![r] = NoVersion]
    BY <1>2, <2>1 DEF View, InScope
  <2> QED
    BY <1>2, <2>2, <2>3 DEF Publication!End, Live, View
<1>6. CASE \/ SeeDoorOpen(r) \/ Enter(r) \/ BackOut(r) \/ LoadTable(r)
           \/ (Recheck(r) /\ ~readsEnabled)
  <2>1. \A u \in Reader : InScope(u)' <=> InScope(u)
    BY <1>3, <1>6 DEF SeeDoorOpen, Enter, Recheck, BackOut, LoadTable, ReadLabels, InScope
  <2> QED
    BY <1>2, <2>1, ViewKept
<1> QED
  BY <1>0, <1>4, <1>5, <1>6 DEF ReadStep, DataOK

(* applyCommit is, for its readers, one atomic replacement of table and        *)
(* runtime state: RuleCommit implements RulePublication.                      *)
THEOREM CommitImplementsPublication == Spec => CommitsAreAtomic
<1>1. Init => Publication!Init
  BY DEF Init, Publication!Init, InScope, Task, TableIndex
<1>2. CommitInv /\ [Next]_vars => [Publication!Next]_<<Live, View>>
  <2> SUFFICES ASSUME CommitInv, [Next]_vars PROVE [Publication!Next]_<<Live, View>>
    OBVIOUS
  <2>1. CASE \E c \in Committer : BeginCommit(c) \/ CommitStep(c)
    BY <2>1, CommitRefines DEF Publication!Next
  <2>2. CASE UNCHANGED vars \/ \E c \in Committer : Spin(c)
    <3>1. UNCHANGED vars
      BY <2>2, SpinStep
    <3> QED
      BY <3>1 DEF vars, Live, View, InScope
  <2>3. CASE \E r \in Reader : SeeDoorOpen(r) \/ ReadStep(r)
    BY <2>3, ReadRefines DEF Publication!Next
  <2> QED
    BY <2>1, <2>2, <2>3 DEF Next
<1> QED
  BY <1>1, <1>2, CommitInvariant, PTL DEF Spec, CommitsAreAtomic, Publication!Spec, Live, View
=============================================================================
