---------------------------- MODULE DecodePath ----------------------------
(***************************************************************************)
(* Decoding observed frames into the signal cache on the CAN task           *)
(* (GatewayCore::forwardFrame, SignalCache::decodeObservedFrame) against a  *)
(* change of the DBC on the other core (loadDbcFromFilePath, handleDbcLoad) *)
(* and the reading of a signal (SignalCache::readRuntimeEntry). The change  *)
(* exchanges the contents of the database and of the cache in place, while  *)
(* decoding is paused; it and the reads of the application hold the lock of  *)
(* the application. (handleSignalCache, which lists the cache for the web    *)
(* page, holds none: a change by ss_app can free the entries under it. It is *)
(* not modelled.)                                                            *)
(*                                                                          *)
(* One signal stands for all: its entry is a value word and the words that  *)
(* say when it was seen. A value is the database and the frame it was       *)
(* decoded from. Steps are sequentially consistent, as the barriers the     *)
(* compiler puts around the atomics make them on this processor.            *)
(***************************************************************************)
EXTENDS Integers

CONSTANTS
    MaxDecodes,    \* bound: frames decoded
    MaxDatabases   \* bound: databases loaded

ASSUME DecodeAssumption == MaxDecodes \in Nat /\ MaxDatabases \in Nat

VARIABLES
    decodeEnabled, decodeReaders,
    database,      \* which DBC dbc_database holds
    cacheOf,       \* which DBC the entries of signal_cache were made for
    countOf,       \* which DBC signal_count_ was counted for
    subscribed,    \* the signal is subscribed, by signal or by decode_all_
    entry,         \* the signal's entry
    decoder,       \* the CAN task
    change,        \* the DBC change
    signalRead,    \* a read of the signal
    decodes

cacheWords == <<database, cacheOf, countOf, subscribed>>
decodeVars == <<decodeEnabled, decodeReaders, cacheWords, entry, decoder, change, signalRead, decodes>>

Value == [dbc: 0..MaxDatabases, frame: 0..MaxDecodes]
NoValue == [dbc |-> 0, frame |-> 0]
Fresh == [sequence |-> 0, value |-> NoValue, seen |-> 0]
NotDecoding == [at |-> "idle", dbc |-> 0]
NoRead == [at |-> "idle", before |-> 0, value |-> NoValue, seen |-> 0]
\* Holders of the application lock exclude each other.
Unlocked == change.at = "idle" /\ signalRead.at = "idle"
-----------------------------------------------------------------------------
(* The CAN task *)

DecoderAt(place) == decoder.at = place /\ UNCHANGED <<decodeEnabled, cacheWords, change, signalRead>>
DecoderTo(place) == decoder' = [decoder EXCEPT !.at = place]

\* An observed frame, and decoding is not paused at first sight.
SeeFrame ==
    /\ DecoderAt("idle")
    /\ decodeEnabled /\ decodes < MaxDecodes
    /\ decodes' = decodes + 1
    /\ DecoderTo("enter")
    /\ UNCHANGED <<decodeReaders, entry>>

EnterDecode ==
    /\ DecoderAt("enter")
    /\ decodeReaders' = decodeReaders + 1
    /\ DecoderTo("recheck")
    /\ UNCHANGED <<entry, decodes>>

\* Mutation: decoding goes on after the first look.
RecheckDecode_Skipped ==
    /\ DecoderAt("recheck")
    /\ decoder' = [at |-> "find", dbc |-> database]
    /\ UNCHANGED <<decodeReaders, entry, decodes>>

RecheckDecode ==
    /\ DecoderAt("recheck")
    /\ decoder' = IF decodeEnabled THEN [at |-> "find", dbc |-> database]
                                   ELSE [decoder EXCEPT !.at = "leave"]
    /\ UNCHANGED <<decodeReaders, entry, decodes>>

\* A signal that is not subscribed is passed over.
FindSignal ==
    /\ DecoderAt("find")
    /\ DecoderTo(IF subscribed THEN "open" ELSE "leave")
    /\ UNCHANGED <<decodeReaders, entry, decodes>>

OpenEntry ==
    /\ DecoderAt("open")
    /\ entry' = [entry EXCEPT !.sequence = @ + 1]
    /\ DecoderTo("value")
    /\ UNCHANGED <<decodeReaders, decodes>>

WriteValue ==
    /\ DecoderAt("value")
    /\ entry' = [entry EXCEPT !.value = [dbc |-> decoder.dbc, frame |-> decodes]]
    /\ DecoderTo("seen")
    /\ UNCHANGED <<decodeReaders, decodes>>

WriteSeen ==
    /\ DecoderAt("seen")
    /\ entry' = [entry EXCEPT !.seen = decodes]
    /\ DecoderTo("close")
    /\ UNCHANGED <<decodeReaders, decodes>>

CloseEntry ==
    /\ DecoderAt("close")
    /\ entry' = [entry EXCEPT !.sequence = @ + 1]
    /\ DecoderTo("leave")
    /\ UNCHANGED <<decodeReaders, decodes>>

LeaveDecode ==
    /\ DecoderAt("leave")
    /\ decodeReaders' = decodeReaders - 1
    /\ decoder' = NotDecoding
    /\ UNCHANGED <<entry, decodes>>

Decoding ==
    \/ SeeFrame \/ EnterDecode \/ RecheckDecode \/ FindSignal \/ OpenEntry
    \/ WriteValue \/ WriteSeen \/ CloseEntry \/ LeaveDecode
-----------------------------------------------------------------------------
(* A change of the database *)

ChangeAt(place) == change.at = place /\ UNCHANGED <<decodeReaders, decoder, signalRead, decodes>>
ChangeTo(place) == change' = [change EXCEPT !.at = place]

\* The candidate has been parsed and its cache made.
PauseDecoding ==
    /\ ChangeAt("idle") /\ Unlocked
    /\ change.dbc < MaxDatabases
    /\ decodeEnabled' = FALSE
    /\ change' = [at |-> "wait", dbc |-> change.dbc + 1]
    /\ UNCHANGED <<cacheWords, entry>>

\* The wait ends when no decode is counted, or by its timeout; then once more.
WaitForDecoder ==
    /\ ChangeAt("wait")
    /\ ChangeTo("decide")
    /\ UNCHANGED <<decodeEnabled, cacheWords, entry>>

DecideChange ==
    /\ ChangeAt("decide")
    /\ ChangeTo(IF decodeReaders = 0 THEN "database" ELSE "resume")
    /\ UNCHANGED <<decodeEnabled, cacheWords, entry>>

SwapDatabase ==
    /\ ChangeAt("database")
    /\ database' = change.dbc
    /\ ChangeTo("entries")
    /\ UNCHANGED <<decodeEnabled, cacheOf, countOf, subscribed, entry>>

SwapEntries ==
    /\ ChangeAt("entries")
    /\ cacheOf' = change.dbc
    /\ entry' = Fresh
    /\ ChangeTo("count")
    /\ UNCHANGED <<decodeEnabled, database, countOf, subscribed>>

\* The count comes over, and with the new entries no subscription is left.
SwapCount ==
    /\ ChangeAt("count")
    /\ countOf' = change.dbc
    /\ subscribed' = FALSE
    /\ ChangeTo("resume")
    /\ UNCHANGED <<decodeEnabled, database, cacheOf, entry>>

ResumeDecoding ==
    /\ ChangeAt("resume")
    /\ decodeEnabled' = TRUE
    /\ change' = [change EXCEPT !.at = "idle"]
    /\ UNCHANGED <<cacheWords, entry>>

\* subscribeSignal, under the lock or from databaseChanged at the end of a change;
\* setDecodeAll, which takes no lock, also while a change waits.
Subscribe ==
    /\ change.at \in {"idle", "wait", "resume"}
    /\ subscribed' = ~subscribed
    /\ UNCHANGED <<decodeEnabled, decodeReaders, database, cacheOf, countOf, entry, decoder,
                   change, signalRead, decodes>>

Changing ==
    \/ PauseDecoding \/ WaitForDecoder \/ DecideChange \/ SwapDatabase
    \/ SwapEntries \/ SwapCount \/ ResumeDecoding \/ Subscribe
-----------------------------------------------------------------------------
(* readRuntimeEntry *)

ReadAt(place) ==
    /\ signalRead.at = place
    /\ UNCHANGED <<decodeEnabled, decodeReaders, cacheWords, entry, decoder, change, decodes>>

\* An odd sequence word is an entry being written: look again.
ReadBefore ==
    /\ ReadAt("idle") /\ Unlocked
    /\ entry.sequence % 2 = 0
    /\ signalRead' = [NoRead EXCEPT !.at = "value", !.before = entry.sequence]

ReadValue ==
    /\ ReadAt("value")
    /\ signalRead' = [signalRead EXCEPT !.at = "seen", !.value = entry.value]

ReadSeen ==
    /\ ReadAt("seen")
    /\ signalRead' = [signalRead EXCEPT !.at = "after", !.seen = entry.seen]

\* Mutation: the sequence word is not read a second time.
ReadAfter_Once ==
    /\ ReadAt("after")
    /\ signalRead' = [signalRead EXCEPT !.at = "return"]

ReadAfter ==
    /\ ReadAt("after")
    /\ signalRead' = IF entry.sequence = signalRead.before
                     THEN [signalRead EXCEPT !.at = "return"] ELSE NoRead

ReturnRead == ReadAt("return") /\ signalRead' = NoRead

Reading == ReadBefore \/ ReadValue \/ ReadSeen \/ ReadAfter \/ ReturnRead
-----------------------------------------------------------------------------
DecodeInit ==
    /\ decodeEnabled = TRUE /\ decodeReaders = 0
    /\ database = 0 /\ cacheOf = 0 /\ countOf = 0 /\ subscribed = FALSE
    /\ entry = Fresh
    /\ decoder = NotDecoding
    /\ change = [at |-> "idle", dbc |-> 0]
    /\ signalRead = NoRead
    /\ decodes = 0

DecodeNext == Decoding \/ Changing \/ Reading

DecodeSpec == DecodeInit /\ [][DecodeNext]_decodeVars
-----------------------------------------------------------------------------
DecodeTypeOK ==
    /\ decodeEnabled \in BOOLEAN /\ decodeReaders \in 0..1 /\ subscribed \in BOOLEAN
    /\ {database, cacheOf, countOf} \subseteq 0..MaxDatabases
    /\ entry \in [sequence: 0..2 * MaxDecodes, value: Value, seen: 0..MaxDecodes]
    /\ decoder \in [at: {"idle", "enter", "recheck", "find", "open", "value", "seen", "close", "leave"},
                    dbc: 0..MaxDatabases]
    /\ change \in [at: {"idle", "wait", "decide", "database", "entries", "count", "resume"},
                   dbc: 0..MaxDatabases]
    /\ signalRead \in [at: {"idle", "value", "seen", "after", "return"},
                       before: 0..2 * MaxDecodes, value: Value, seen: 0..MaxDecodes]
    /\ decodes \in 0..MaxDecodes

InDecode == decoder.at \in {"find", "open", "value", "seen", "close"}

\* gateway.cpp:332-343 with main.cpp:3254-3284: while the CAN task decodes, the
\* database it looked the signal up in, the entries it writes and their count
\* belong together and stay; so every value in the cache comes from the database
\* the cache was made for.
DecodeMatchesDatabase ==
    /\ InDecode => decoder.dbc = database /\ database = cacheOf /\ cacheOf = countOf
    /\ entry.value # NoValue => entry.value.dbc = cacheOf

\* signal_cache.cpp:167-169: value, generation, direction and time of a read
\* are those of one observation.
SignalReadsAreWhole ==
    signalRead.at = "return" => signalRead.value.frame = signalRead.seen
=============================================================================
