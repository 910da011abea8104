------------------------- MODULE ObservationTables -------------------------
(***************************************************************************)
(* Which frames are observed (src/core/observation_manager.cpp): two tables *)
(* of frame identities, each kept twice so that one copy is rebuilt while   *)
(* the CAN task looks into the other. The operator's filter is changed by   *)
(* the web task without any lock (handleObserve); subscriptions of the      *)
(* application and the change of the DBC hold the application lock and run  *)
(* on the web task or on the application task, which preempts it: both are  *)
(* pinned to core 0, the CAN task to core 1.                                *)
(*                                                                          *)
(* addSpecific, removeSpecific and removeMandatory have no caller and are   *)
(* left out; the bound of 128 keys is not reached.                          *)
(***************************************************************************)
EXTENDS Integers

CONSTANT Key   \* (CAN id, direction)

VARIABLES
    tables,          \* specific_tables_ and mandatory_tables_: the keys in each
    activeTable,     \* active_specific_ and active_mandatory_
    observationMode, \* mode_
    tableReaders,    \* readers_
    lookup,          \* the CAN task in isObserved
    update,          \* each task of core 0 in an update
    required,        \* ghost: the keys subscribed since the last change of the DBC
    overtaken        \* ghost: a rebind of ss_app began in the middle of an update of ss_ui

observationVars == <<tables, activeTable, observationMode, tableReaders, lookup, update,
                     required, overtaken>>

Kind == {"specific", "mandatory"}
Mode == {"none", "specific", "all"}
Task == {"ss_ui", "ss_app"}

NoLookup == [at |-> "idle", key |-> "none", table |-> 0]
NoUpdate == [at |-> "idle", what |-> "none", kind |-> "specific", keys |-> {}, mode |-> "none",
            table |-> 0]
\* Only a subscription and a change of the DBC take the application lock.
LockHeld == \E t \in Task : update[t].at # "idle" /\ update[t].what # "observe"
-----------------------------------------------------------------------------
(* isObserved on the CAN task *)

LookupAt(place) ==
    /\ lookup.at = place
    /\ UNCHANGED <<tables, activeTable, observationMode, update, required, overtaken>>
LookupTo(place) == lookup' = [NoLookup EXCEPT !.at = place, !.key = lookup.key]
Answers == lookup' = [NoLookup EXCEPT !.at = "leave"]

EnterLookup(k) ==
    /\ LookupAt("idle")
    /\ tableReaders' = tableReaders + 1
    /\ lookup' = [NoLookup EXCEPT !.at = "mandatory", !.key = k]

LoadTable ==
    /\ UNCHANGED tableReaders
    /\ \/ /\ LookupAt("mandatory")
          /\ lookup' = [lookup EXCEPT !.at = "search mandatory", !.table = activeTable["mandatory"]]
       \/ /\ LookupAt("specific")
          /\ lookup' = [lookup EXCEPT !.at = "search specific", !.table = activeTable["specific"]]

\* The chain of the key's bucket is walked.
SearchTable ==
    /\ UNCHANGED tableReaders
    /\ \/ /\ LookupAt("search mandatory")
          /\ IF lookup.key \in tables["mandatory"][lookup.table] THEN Answers ELSE LookupTo("mode")
       \/ LookupAt("search specific") /\ Answers

ReadMode ==
    /\ LookupAt("mode")
    /\ IF observationMode = "specific" THEN LookupTo("specific") ELSE Answers
    /\ UNCHANGED tableReaders

LeaveLookup ==
    /\ LookupAt("leave")
    /\ tableReaders' = tableReaders - 1
    /\ lookup' = NoLookup

Observing == (\E k \in Key : EnterLookup(k)) \/ LoadTable \/ SearchTable \/ ReadMode \/ LeaveLookup
-----------------------------------------------------------------------------
(* Updates on core 0 *)

\* A task of lower priority runs only while the other rests or waits for the lock.
Runs(t) == t = "ss_ui" => update["ss_app"].at = "idle"
UpdateAt(t, place) == update[t].at = place /\ Runs(t) /\ UNCHANGED lookup
UpdateTo(t, place) == update' = [update EXCEPT ![t].at = place]
Begin(t, u) ==
    /\ UpdateAt(t, "idle")
    /\ update' = [update EXCEPT ![t] = u]
    /\ overtaken' = (overtaken \/ (t = "ss_app" /\ u.what = "rebind" /\ update["ss_ui"].at # "idle"))
    /\ UNCHANGED <<tables, activeTable, observationMode, tableReaders>>

\* handleObserve: setSpecific with the keys named, or clearSpecific and the mode.
BeginObserve(keys, mode) ==
    /\ mode # "specific" => keys = {}
    /\ Begin("ss_ui", [NoUpdate EXCEPT !.at = "wait", !.what = "observe", !.keys = keys,
                       !.mode = IF mode = "specific" /\ keys = {} THEN "none" ELSE mode])
    /\ UNCHANGED required

\* The application subscribes a signal: addMandatory.
BeginSubscribe(t, k) ==
    /\ ~LockHeld
    /\ Begin(t, [NoUpdate EXCEPT !.at = "snapshot", !.what = "subscribe", !.kind = "mandatory",
                 !.keys = {k}])
    /\ UNCHANGED required

\* A new DBC: clearSpecific, clearMandatory, no observation.
BeginRebind(t) ==
    /\ ~LockHeld
    /\ Begin(t, [NoUpdate EXCEPT !.at = "wait", !.what = "rebind"])
    /\ required' = {}

\* snapshotMandatory counts as a reader.
EnterSnapshot(t) ==
    /\ UpdateAt(t, "snapshot")
    /\ tableReaders' = tableReaders + 1
    /\ UpdateTo(t, "copy")
    /\ UNCHANGED <<tables, activeTable, observationMode, required, overtaken>>

\* A key that is there already ends the subscription.
CopySnapshot(t) ==
    /\ UpdateAt(t, "copy")
    /\ tableReaders' = tableReaders - 1
    /\ LET present == tables["mandatory"][activeTable["mandatory"]]
       IN  IF update[t].keys \subseteq present
           THEN UpdateTo(t, "end")
           ELSE update' = [update EXCEPT ![t].at = "wait", ![t].keys = present \union @]
    /\ UNCHANGED <<tables, activeTable, observationMode, required, overtaken>>

\* Mutation: the table is rebuilt whoever is still looking into it.
WaitForReaders_Skipped(t) ==
    /\ UpdateAt(t, "wait")
    /\ update' = [update EXCEPT ![t].at = "clear", ![t].table = 1 - activeTable[update[t].kind]]
    /\ UNCHANGED <<tables, activeTable, observationMode, tableReaders, required, overtaken>>

WaitForReaders(t) ==
    /\ UpdateAt(t, "wait")
    /\ tableReaders = 0
    /\ update' = [update EXCEPT ![t].at = "clear", ![t].table = 1 - activeTable[update[t].kind]]
    /\ UNCHANGED <<tables, activeTable, observationMode, tableReaders, required, overtaken>>

ClearTable(t) ==
    /\ UpdateAt(t, "clear")
    /\ tables' = [tables EXCEPT ![update[t].kind][update[t].table] = {}]
    /\ UpdateTo(t, "fill")
    /\ UNCHANGED <<activeTable, observationMode, tableReaders, required, overtaken>>

\* The keys are linked in one after the other; that is one step here, and a table
\* being cleared or filled counts as rebuilt throughout.
FillTable(t) ==
    /\ UpdateAt(t, "fill")
    /\ tables' = [tables EXCEPT ![update[t].kind][update[t].table] = update[t].keys]
    /\ UpdateTo(t, "swap")
    /\ UNCHANGED <<activeTable, observationMode, tableReaders, required, overtaken>>

\* The active index is flipped, wherever it stands by now.
SwapTable(t) ==
    /\ UpdateAt(t, "swap")
    /\ activeTable' = [activeTable EXCEPT ![update[t].kind] = 1 - @]
    /\ IF update[t].what = "rebind" /\ update[t].kind = "specific"
       THEN update' = [update EXCEPT ![t].at = "wait", ![t].kind = "mandatory"]
       ELSE UpdateTo(t, "end")
    /\ UNCHANGED <<tables, observationMode, tableReaders, required, overtaken>>

EndUpdate(t) ==
    /\ UpdateAt(t, "end")
    /\ observationMode' = IF update[t].what = "subscribe" THEN observationMode ELSE update[t].mode
    /\ required' = IF update[t].what = "subscribe" THEN required \union update[t].keys ELSE required
    /\ update' = [update EXCEPT ![t] = NoUpdate]
    /\ overtaken' = (overtaken /\ t # "ss_ui")
    /\ UNCHANGED <<tables, activeTable, tableReaders>>

Updating ==
    \/ \E keys \in SUBSET Key, mode \in Mode : BeginObserve(keys, mode)
    \/ \E t \in Task :
         \/ \E k \in Key : BeginSubscribe(t, k)
         \/ BeginRebind(t) \/ EnterSnapshot(t) \/ CopySnapshot(t) \/ WaitForReaders(t)
         \/ ClearTable(t) \/ FillTable(t) \/ SwapTable(t) \/ EndUpdate(t)
-----------------------------------------------------------------------------
ObservationInit ==
    /\ tables = [kind \in Kind |-> [i \in 0..1 |-> {}]]
    /\ activeTable = [kind \in Kind |-> 0]
    /\ observationMode = "none"
    /\ tableReaders = 0
    /\ lookup = NoLookup
    /\ update = [t \in Task |-> NoUpdate]
    /\ required = {} /\ overtaken = FALSE

ObservationNext == Observing \/ Updating

ObservationSpec == ObservationInit /\ [][ObservationNext]_observationVars
-----------------------------------------------------------------------------
Place == {"idle", "snapshot", "copy", "wait", "clear", "fill", "swap", "end"}

ObservationTypeOK ==
    /\ tables \in [Kind -> [0..1 -> SUBSET Key]]
    /\ activeTable \in [Kind -> 0..1]
    /\ observationMode \in Mode
    /\ tableReaders \in 0..2
    /\ lookup \in [at: {"idle", "mandatory", "search mandatory", "mode", "specific",
                        "search specific", "leave"},
                   key: Key \union {"none"}, table: 0..1]
    /\ update \in [Task -> [at: Place, what: {"none", "observe", "subscribe", "rebind"},
                            kind: Kind, keys: SUBSET Key, mode: Mode, table: 0..1]]
    /\ required \subseteq Key /\ overtaken \in BOOLEAN

Searching(kind) ==
    lookup.at = (IF kind = "specific" THEN "search specific" ELSE "search mandatory")
Rebuilding(t) == update[t].at \in {"clear", "fill"}

\* observation_manager.cpp:256-259: a table is not rebuilt while the CAN task
\* is searching it - except that a rebind on ss_app may interrupt an update of the
\* operator's filter that ss_ui began without a lock, and ss_ui then goes on
\* filling the table that has become the active one. The mandatory table, whose
\* updates all hold the lock, has no such exception.
SearchedTableRests ==
    \A t \in Task : Rebuilding(t) =>
        \/ ~Searching(update[t].kind)
        \/ lookup.table # update[t].table
        \/ overtaken /\ t = "ss_ui" /\ update[t].kind = "specific"

\* observation_manager.hpp:40-42: the operator's filter never removes what the
\* application has subscribed; it stays in the table the CAN task asks first
\* until the DBC is changed.
MandatoryKept == required \subseteq tables["mandatory"][activeTable["mandatory"]]

\* observation_manager.cpp:258: the wait spins without yielding, so what it waits
\* for is only ever the CAN task, never a task of its own core it has interrupted.
WaitsForCanOnly ==
    \A t \in Task : update[t].at = "wait" /\ Runs(t) =>
        tableReaders = IF lookup.at = "idle" THEN 0 ELSE 1

ObservationIsStable == SearchedTableRests /\ MandatoryKept /\ WaitsForCanOnly
=============================================================================
