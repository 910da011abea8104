------------------------------ MODULE RuleCommit ------------------------------
(***************************************************************************)
(* How MutationEngine::applyCommit publishes a compiled table and its       *)
(* runtime state to the tasks that read them without a lock: the inactive   *)
(* table is rebuilt, new readers are turned away, those inside are waited   *)
(* for, the runtime state is written slot by slot, and the tables are       *)
(* swapped.  Tasks are the CAN task, which reads, and the application and   *)
(* UI tasks of core 0, which commit under the application lock; the UI also *)
(* lists the live rules without it.  A task steps between any two atomic    *)
(* operations of another one, unless that one preempts it.                  *)
(*                                                                         *)
(* The content of a rule slot is the number of the commit it came with.     *)
(***************************************************************************)
EXTENDS Naturals, FiniteSets

CONSTANTS
  Reader,      \* tasks that read the rules without the application lock
  Committer,   \* tasks that commit
  Outranks,    \* {<<t, u>>}: t preempts u, on the same core
  SlotCount,   \* kMaxRules
  MaxCommits,  \* bound of the model: commits begun
  NoTask,
  NoVersion    \* what a table holds while it is rebuilt

Task == Reader \union Committer
Slots == 0 .. SlotCount - 1
Version == [Slots -> 0 .. MaxCommits]
TableIndex == {0, 1}

ASSUME TaskAssumption ==
  /\ IsFiniteSet(Reader) /\ NoTask \notin Task
  /\ Outranks \subseteq Task \X Task
ASSUME SizeAssumption ==
  /\ SlotCount \in Nat \ {0} /\ MaxCommits \in Nat /\ NoVersion \notin Version

VARIABLES
  readsEnabled,  \* mutation_reads_enabled_
  readers,       \* mutation_readers_
  active,        \* active_table_index_, with active_table_
  tables,        \* [TableIndex -> version compiled for, or NoVersion]: tables_
  runtime,       \* [Slots -> commit number]: runtime_state_
  epoch,         \* rule_epoch_, as far as commits advance it
  pc,            \* where each task is
  lock,          \* holder of the application lock
  target,        \* the version the commit in progress will publish
  cursor,        \* the slot it writes next
  mine,          \* [Reader -> TableIndex]: the table a reader loaded
  begun,         \* history: commits begun
  swaps          \* history: tables swapped

vars == <<readsEnabled, readers, active, tables, runtime, epoch, pc, lock, target,
          cursor, mine, begun, swaps>>
commitVars == <<readsEnabled, active, tables, runtime, epoch, lock, target, cursor, begun, swaps>>

(* A task of the same core and higher priority is ready to run: spinning with *)
(* taskYIELD it stays ready, and it yields to none of lower priority.         *)
Preempted(t) == \E u \in Task : <<u, t>> \in Outranks /\ pc[u] # "idle"

Goes(t, from, to) ==
  /\ pc[t] = from /\ ~Preempted(t)
  /\ pc' = [pc EXCEPT ![t] = to]

-----------------------------------------------------------------------------
(* applyCommit, under the application lock. *)

(* Defect: the table being read is rebuilt. *)
Inactive_IsActive == active
Inactive == 1 - active

(* The inactive table is cleared; the rules of changed have new runtime state *)
(* to publish, the others keep theirs.                                        *)
BeginCommit(c) ==
  /\ lock = NoTask /\ begun < MaxCommits
  /\ Goes(c, "idle", "compile")
  /\ lock' = c
  /\ begun' = begun + 1
  /\ \E changed \in SUBSET Slots :
       target' = [s \in Slots |-> IF s \in changed THEN begun + 1 ELSE runtime[s]]
  /\ tables' = [tables EXCEPT ![Inactive] = NoVersion]
  /\ UNCHANGED <<readsEnabled, readers, active, runtime, epoch, cursor, mine, swaps>>

(* Defect: the runtime values were taken over before the rules were compiled. *)
CompileFails_TakesValues(c) ==
  /\ Goes(c, "compile", "idle")
  /\ lock' = NoTask
  /\ runtime' = target
  /\ UNCHANGED <<readsEnabled, readers, active, tables, epoch, target, cursor, mine, begun, swaps>>

(* A rule does not compile: the inactive table is left half built. *)
CompileFails(c) ==
  /\ Goes(c, "compile", "idle")
  /\ lock' = NoTask
  /\ UNCHANGED <<readsEnabled, readers, active, tables, runtime, epoch, target, cursor, mine,
                 begun, swaps>>

Compile(c) ==
  /\ Goes(c, "compile", "pause")
  /\ tables' = [tables EXCEPT ![Inactive] = target]
  /\ UNCHANGED <<readsEnabled, readers, active, runtime, epoch, lock, target, cursor, mine,
                 begun, swaps>>

(* pauseMutationReads: close the door, then wait for the readers inside. *)
Pause(c) ==
  /\ Goes(c, "pause", "drain")
  /\ readsEnabled' = FALSE
  /\ UNCHANGED <<readers, active, tables, runtime, epoch, lock, target, cursor, mine, begun, swaps>>

(* Defect: the readers inside are not waited for. *)
Drained_NoWait(c) ==
  /\ Goes(c, "drain", "publish")
  /\ cursor' = 0
  /\ UNCHANGED <<readsEnabled, readers, active, tables, runtime, epoch, lock, target, mine,
                 begun, swaps>>

Drained(c) ==
  /\ readers = 0
  /\ Goes(c, "drain", "publish")
  /\ cursor' = 0
  /\ UNCHANGED <<readsEnabled, readers, active, tables, runtime, epoch, lock, target, mine,
                 begun, swaps>>

(* taskYIELD, and look again. *)
Spin(c) ==
  /\ readers # 0
  /\ Goes(c, "drain", "drain")
  /\ UNCHANGED <<commitVars, readers, mine>>

PublishSlot(c) ==
  /\ cursor < SlotCount
  /\ Goes(c, "publish", "publish")
  /\ runtime' = [runtime EXCEPT ![cursor] = target[cursor]]
  /\ cursor' = cursor + 1
  /\ UNCHANGED <<readsEnabled, readers, active, tables, epoch, lock, target, mine, begun, swaps>>

(* swapActiveTable, after the committed shadow. *)
Swap(c) ==
  /\ cursor = SlotCount
  /\ Goes(c, "publish", "epoch")
  /\ active' = Inactive
  /\ swaps' = swaps + 1
  /\ UNCHANGED <<readsEnabled, readers, tables, runtime, epoch, lock, target, cursor, mine, begun>>

(* Defect: the readers are let in before the epoch has advanced. *)
AdvanceEpoch_OpensDoor(c) ==
  /\ Goes(c, "epoch", "resume")
  /\ readsEnabled' = TRUE
  /\ epoch' \in {epoch, epoch + 1}
  /\ UNCHANGED <<readers, active, tables, runtime, lock, target, cursor, mine, begun, swaps>>

AdvanceEpoch(c) ==
  /\ Goes(c, "epoch", "resume")
  /\ epoch' = epoch + 1
  /\ UNCHANGED <<readsEnabled, readers, active, tables, runtime, lock, target, cursor, mine,
                 begun, swaps>>

(* resumeMutationReads, and the lock is released. *)
Resume(c) ==
  /\ Goes(c, "resume", "idle")
  /\ readsEnabled' = TRUE
  /\ lock' = NoTask
  /\ UNCHANGED <<readers, active, tables, runtime, epoch, target, cursor, mine, begun, swaps>>

CommitStep(c) ==
  \/ CompileFails(c) \/ Compile(c) \/ Pause(c) \/ Drained(c)
  \/ PublishSlot(c) \/ Swap(c) \/ AdvanceEpoch(c) \/ Resume(c)

-----------------------------------------------------------------------------
(* beginMutationRead and MutationReadScope, around applyFrameMutations,       *)
(* hasRulesForFrame or listRules.                                             *)

(* With reads disabled a frame passes through unchanged: nothing happens. *)
SeeDoorOpen(r) ==
  /\ readsEnabled
  /\ Goes(r, "idle", "enter")
  /\ UNCHANGED <<commitVars, readers, mine>>

Enter(r) ==
  /\ Goes(r, "enter", "recheck")
  /\ readers' = readers + 1
  /\ UNCHANGED <<commitVars, mine>>

(* Defect: the flag is not read again after the reader is counted. *)
Recheck_Skipped(r) ==
  /\ Goes(r, "recheck", "load")
  /\ UNCHANGED <<commitVars, readers, mine>>

Recheck(r) ==
  /\ \/ readsEnabled /\ Goes(r, "recheck", "load")
     \/ ~readsEnabled /\ Goes(r, "recheck", "backout")
  /\ UNCHANGED <<commitVars, readers, mine>>

(* Defect: the reader that was turned away stays counted. *)
BackOut_StaysCounted(r) ==
  /\ Goes(r, "backout", "idle")
  /\ UNCHANGED <<commitVars, readers, mine>>

BackOut(r) ==
  /\ Goes(r, "backout", "idle")
  /\ readers' = readers - 1
  /\ UNCHANGED <<commitVars, mine>>

LoadTable(r) ==
  /\ Goes(r, "load", "read")
  /\ mine' = [mine EXCEPT ![r] = active]
  /\ UNCHANGED <<commitVars, readers>>

Leave(r) ==
  /\ Goes(r, "read", "idle")
  /\ readers' = readers - 1
  /\ UNCHANGED <<commitVars, mine>>

ReadStep(r) == Enter(r) \/ Recheck(r) \/ BackOut(r) \/ LoadTable(r) \/ Leave(r)

-----------------------------------------------------------------------------
Init ==
  /\ readsEnabled = TRUE /\ readers = 0
  /\ active = 0
  /\ runtime = [s \in Slots |-> 0]
  /\ tables = [i \in TableIndex |-> [s \in Slots |-> 0]]
  /\ epoch = 0
  /\ pc = [t \in Task |-> "idle"]
  /\ lock = NoTask /\ cursor = 0
  /\ target = [s \in Slots |-> 0]
  /\ mine = [r \in Reader |-> 0]
  /\ begun = 0 /\ swaps = 0

Next ==
  \/ \E c \in Committer : BeginCommit(c) \/ CommitStep(c) \/ Spin(c)
  \/ \E r \in Reader : SeeDoorOpen(r) \/ ReadStep(r)

Spec == Init /\ [][Next]_vars

(* A task inside a commit or a read runs on whenever nobody preempts it;      *)
(* neither is ever begun by fairness.                                         *)
Fairness ==
  /\ \A c \in Committer : WF_vars(CommitStep(c))
  /\ \A r \in Reader : WF_vars(ReadStep(r))

FairSpec == Spec /\ Fairness

-----------------------------------------------------------------------------
InScope(r) == pc[r] \in {"load", "read"}
Counted(r) == pc[r] \in {"recheck", "backout", "load", "read"}
Publishing(c) == pc[c] \in {"publish", "epoch", "resume"}

ReadLabels == {"enter", "recheck", "backout", "load", "read"}
CommitLabels == {"compile", "pause", "drain", "publish", "epoch", "resume"}

(* mutation_readers_ counts the tasks that will decrement it, and the lock is *)
(* held by the one task inside a commit.                                      *)
TypeOK ==
  /\ readsEnabled \in BOOLEAN
  /\ readers = Cardinality({r \in Reader : Counted(r)})
  /\ active \in TableIndex
  /\ tables \in [TableIndex -> Version \union {NoVersion}]
  /\ runtime \in Version /\ target \in Version
  /\ epoch \in Nat /\ begun \in 0 .. MaxCommits /\ swaps \in Nat
  /\ cursor \in 0 .. SlotCount
  /\ pc \in [Task -> {"idle"} \union ReadLabels \union CommitLabels]
  /\ lock \in Committer \union {NoTask}
  /\ \A c \in Committer : pc[c] \in CommitLabels <=> lock = c
  /\ mine \in [Reader -> TableIndex]

(* No reader is inside while the pair of runtime state and table is replaced, *)
(* slot by slot: one that saw the door open and was late to enter backs out.  *)
QuiescentPublication ==
  \A c \in Committer : Publishing(c) => \A r \in Reader : ~InScope(r)

(* A frame is changed by the rules and the runtime values of one commit: the  *)
(* table a reader loaded is whole, it is the live one until the reader is     *)
(* done with it, and every slot holds the value committed with it.            *)
ReaderSeesOneCommit ==
  \A r \in Reader : pc[r] = "read" =>
    /\ mine[r] = active
    /\ tables[mine[r]] = runtime

(* A rule id read from a table comes with the epoch of that table, never with *)
(* the one before: it would be accepted later for another rule in its slot.   *)
EpochNamesTable == \A r \in Reader : InScope(r) => epoch = swaps

(* The commits as their readers see them: one atomic replacement each. *)
Publication == INSTANCE RulePublication WITH
  First <- [s \in Slots |-> 0],
  NoView <- NoVersion,
  live <- tables[active],
  view <- [r \in Reader |-> IF InScope(r) THEN runtime ELSE NoVersion]

CommitsAreAtomic == Publication!Spec

(* "the committer drains existing readers" (core/mutation_engine.cpp): a      *)
(* commit that waits for readers goes on.                                     *)
CommitCompletes == \A c \in Committer : pc[c] = "drain" ~> pc[c] # "drain"

(* It does, unless it was begun by the task that preempted one of the readers *)
(* it waits for.                                                              *)
UnlessPreempted ==
  \A c \in Committer :
    (pc[c] = "drain" /\ ~\E r \in Reader : Counted(r) /\ <<c, r>> \in Outranks)
      ~> pc[c] # "drain"
=============================================================================
