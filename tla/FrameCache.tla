---------------------------- MODULE FrameCache ----------------------------
(***************************************************************************)
(* The cache of last frames (src/core/frame_cache.cpp): a bounded table     *)
(* keyed by identity (CAN id and direction) with linear probing and         *)
(* round-robin reuse, a ring of recent events, and a lock nobody waits for  *)
(* longer than a bounded number of attempts. The CAN task updates it;       *)
(* tasks of the other core read it.                                         *)
(*                                                                          *)
(* A frame is its number and whether a rule has changed it. Rates, lengths  *)
(* and counts of frames are left out, and the sorting of a snapshot, which  *)
(* follows the unlock.                                                      *)
(***************************************************************************)
EXTENDS Integers, Sequences

CONSTANTS
    Identity,         \* (CAN id, direction)
    Home(_),          \* the slot an identity hashes to
    CacheReader,      \* the tasks that read the cache
    MaxEntries, RecentCapacity,
    MaxSamplesCached  \* bound: frames offered to the cache

ASSUME FrameCacheAssumption ==
    /\ MaxEntries \in Nat \ {0} /\ RecentCapacity \in Nat \ {0} /\ MaxSamplesCached \in Nat
    /\ \A id \in Identity : Home(id) \in 0..MaxEntries - 1
    /\ "none" \notin Identity /\ {"none", "ss_can"} \intersect CacheReader = {}

VARIABLES
    entries,          \* entries_
    evictionCursor,   \* eviction_cursor_
    recent, recentHead, recentCount,
    cacheOwner,       \* who holds cache_lock_
    offered,          \* frames offered so far
    storing,          \* the CAN task in update
    copying,          \* each reader
    stored            \* ghost: the updates made, in order

frameCacheVars == <<entries, evictionCursor, recent, recentHead, recentCount, cacheOwner, offered,
                    storing, copying, stored>>

Slot == 0..MaxEntries - 1
NoFrame == [number |-> 0, changed |-> FALSE]
Unused == [id |-> "none", data |-> NoFrame, input |-> NoFrame, mutated |-> FALSE, physical |-> NoFrame]
NoEntryEvent == [id |-> "none", data |-> NoFrame, input |-> NoFrame, mutated |-> FALSE]
NotStoring == [at |-> "idle", event |-> NoEntryEvent, synthetic |-> FALSE, slot |-> 0]
NotCopying == [at |-> "idle", what |-> "none", id |-> "none", probe |-> 0, out |-> <<>>]
EntryEvent(e) == [id |-> e.id, data |-> e.data, input |-> e.input, mutated |-> e.mutated]
-----------------------------------------------------------------------------
(* update *)

Received(n) == [number |-> n, changed |-> FALSE]

\* Mutation: the lock is taken whoever holds it.
OfferFrame_Anyway(id, mutated, synthetic) ==
    /\ storing.at = "idle"
    /\ offered < MaxSamplesCached
    /\ offered' = offered + 1
    /\ cacheOwner' = "ss_can"
    /\ storing' = [at |-> "find", synthetic |-> synthetic, slot |-> 0,
                   event |-> [id |-> id, input |-> Received(offered + 1), mutated |-> mutated,
                              data |-> [Received(offered + 1) EXCEPT !.changed = mutated]]]
    /\ UNCHANGED <<entries, evictionCursor, recent, recentHead, recentCount, copying, stored>>

\* A frame is offered; a replayed one is synthetic. Without the lock it is missed.
OfferFrame(id, mutated, synthetic) ==
    /\ storing.at = "idle"
    /\ offered < MaxSamplesCached
    /\ offered' = offered + 1
    /\ IF cacheOwner = "none"
       THEN /\ cacheOwner' = "ss_can"
            /\ storing' = [at |-> "find", synthetic |-> synthetic, slot |-> 0,
                           event |-> [id |-> id, input |-> Received(offered + 1), mutated |-> mutated,
                                      data |-> [Received(offered + 1) EXCEPT !.changed = mutated]]]
       ELSE UNCHANGED <<cacheOwner, storing>>
    /\ UNCHANGED <<entries, evictionCursor, recent, recentHead, recentCount, copying, stored>>

Probed(id, n) == (Home(id) + n) % MaxEntries
\* The first slot from the identity's home on that is free or its own.
Suits(id, n) == entries[Probed(id, n)].id \in {"none", id}
FirstSuiting(id) ==
    {Probed(id, n) : n \in {p \in Slot : Suits(id, p) /\ \A q \in 0..p - 1 : ~Suits(id, q)}}

FindOrCreate ==
    /\ storing.at = "find"
    /\ LET id == storing.event.id
           full == FirstSuiting(id) = {}
           slot == IF full THEN evictionCursor ELSE CHOOSE s \in FirstSuiting(id) : TRUE
       IN  /\ storing' = [storing EXCEPT !.at = "latest", !.slot = slot]
           /\ entries' = IF entries[slot].id = id THEN entries
                         ELSE [entries EXCEPT ![slot] = [Unused EXCEPT !.id = id]]
           /\ evictionCursor' = IF full THEN (evictionCursor + 1) % MaxEntries ELSE evictionCursor
    /\ UNCHANGED <<recent, recentHead, recentCount, cacheOwner, offered, copying, stored>>

StoreLatest ==
    /\ storing.at = "latest"
    /\ LET ev == storing.event
       IN  entries' = [entries EXCEPT ![storing.slot] =
                         [@ EXCEPT !.data = ev.data, !.input = ev.input, !.mutated = ev.mutated]]
    /\ storing' = [storing EXCEPT !.at = "physical"]
    /\ UNCHANGED <<evictionCursor, recent, recentHead, recentCount, cacheOwner, offered, copying, stored>>

\* The physical view keeps what the bus sent, neither changed nor replayed.
StorePhysical ==
    /\ storing.at = "physical"
    /\ entries' = IF storing.synthetic THEN entries
                  ELSE [entries EXCEPT ![storing.slot].physical = storing.event.input]
    /\ storing' = [storing EXCEPT !.at = "recent"]
    /\ UNCHANGED <<evictionCursor, recent, recentHead, recentCount, cacheOwner, offered, copying, stored>>

StoreRecent ==
    /\ storing.at = "recent"
    /\ recent' = [recent EXCEPT ![recentHead] = EntryEvent(entries[storing.slot])]
    /\ recentHead' = (recentHead + 1) % RecentCapacity
    /\ recentCount' = IF recentCount < RecentCapacity THEN recentCount + 1 ELSE recentCount
    /\ stored' = Append(stored, [event |-> storing.event, synthetic |-> storing.synthetic])
    /\ cacheOwner' = "none"
    /\ storing' = NotStoring
    /\ UNCHANGED <<entries, evictionCursor, offered, copying>>
-----------------------------------------------------------------------------
(* Readers; one that does not get the lock returns nothing. *)

CopyAt(r, place) ==
    /\ copying[r].at = place
    /\ UNCHANGED <<entries, evictionCursor, recent, recentHead, recentCount, offered, storing, stored>>

BeginCopy(r, what, id) ==
    /\ CopyAt(r, "idle")
    /\ cacheOwner = "none"
    /\ cacheOwner' = r
    /\ copying' = [copying EXCEPT ![r] = [NotCopying EXCEPT !.at = what, !.what = what, !.id = id]]

Copies(r, more, last) ==
    /\ copying' = [copying EXCEPT ![r].out = @ \o more, ![r].probe = @ + 1,
                                  ![r].at = IF last THEN "return" ELSE @]
    /\ UNCHANGED cacheOwner

\* snapshot and snapshotMutated walk the table, and so does snapshotDirection,
\* which picks one direction of it.
CopySlot(r) ==
    /\ CopyAt(r, "snapshot") \/ CopyAt(r, "mutated")
    /\ LET e == entries[copying[r].probe]
           wanted == e.id # "none" /\ (copying[r].what = "mutated" => e.mutated)
       IN  Copies(r, IF wanted THEN <<EntryEvent(e)>> ELSE <<>>, copying[r].probe + 1 = MaxEntries)

\* read probes from the home slot and passes free slots over.
CopyEntry(r) ==
    /\ CopyAt(r, "read")
    /\ LET e == entries[Probed(copying[r].id, copying[r].probe)]
           own == e.id = copying[r].id
       IN  Copies(r, IF own THEN <<EntryEvent(e)>> ELSE <<>>, own \/ copying[r].probe + 1 = MaxEntries)

CopyPhysical(r) ==
    /\ CopyAt(r, "physical")
    /\ LET e == entries[Probed(copying[r].id, copying[r].probe)]
           own == e.id = copying[r].id
       IN  Copies(r, IF own /\ e.physical # NoFrame
                     THEN <<[id |-> e.id, data |-> e.physical, input |-> e.physical, mutated |-> FALSE]>>
                     ELSE <<>>,
                  own \/ copying[r].probe + 1 = MaxEntries)

\* Newest first, backwards from the head.
CopyRecent(r) ==
    /\ CopyAt(r, "recent")
    /\ LET n == copying[r].probe
       IN  Copies(r, IF n < recentCount THEN <<recent[(recentHead - 1 - n) % RecentCapacity]>> ELSE <<>>,
                  n + 1 >= recentCount)

ReturnCopy(r) ==
    /\ CopyAt(r, "return")
    /\ cacheOwner' = "none"
    /\ copying' = [copying EXCEPT ![r] = NotCopying]
-----------------------------------------------------------------------------
FrameCacheInit ==
    /\ entries = [s \in Slot |-> Unused] /\ evictionCursor = 0
    /\ recent = [i \in 0..RecentCapacity - 1 |-> NoEntryEvent] /\ recentHead = 0 /\ recentCount = 0
    /\ cacheOwner = "none" /\ offered = 0
    /\ storing = NotStoring
    /\ copying = [r \in CacheReader |-> NotCopying]
    /\ stored = <<>>

Storing ==
    \/ \E id \in Identity, mutated, synthetic \in BOOLEAN : OfferFrame(id, mutated, synthetic)
    \/ FindOrCreate \/ StoreLatest \/ StorePhysical \/ StoreRecent

CopyingOut(r) ==
    \/ \E what \in {"snapshot", "mutated", "recent"} : BeginCopy(r, what, "none")
    \/ \E what \in {"read", "physical"}, id \in Identity : BeginCopy(r, what, id)
    \/ CopySlot(r) \/ CopyEntry(r) \/ CopyPhysical(r) \/ CopyRecent(r) \/ ReturnCopy(r)

FrameCacheNext == Storing \/ \E r \in CacheReader : CopyingOut(r)

FrameCacheSpec == FrameCacheInit /\ [][FrameCacheNext]_frameCacheVars
-----------------------------------------------------------------------------
Frame == [number: 0..MaxSamplesCached, changed: BOOLEAN]
Cached == [id: Identity \union {"none"}, data: Frame, input: Frame, mutated: BOOLEAN]

FrameCacheTypeOK ==
    /\ DOMAIN entries = Slot
    /\ \A s \in Slot : EntryEvent(entries[s]) \in Cached /\ entries[s].physical \in Frame
    /\ evictionCursor \in Slot
    /\ recent \in [0..RecentCapacity - 1 -> Cached]
    /\ recentHead \in 0..RecentCapacity - 1 /\ recentCount \in 0..RecentCapacity
    /\ cacheOwner \in CacheReader \union {"none", "ss_can"}
    /\ offered \in 0..MaxSamplesCached
    /\ storing \in [at: {"idle", "find", "latest", "physical", "recent"}, event: Cached,
                    synthetic: BOOLEAN, slot: Slot]
    /\ copying \in [CacheReader -> [at: {"idle", "snapshot", "mutated", "read", "physical", "recent", "return"},
                                    what: {"none", "snapshot", "mutated", "read", "physical", "recent"},
                                    id: Identity \union {"none"}, probe: Nat, out: Seq(Cached)]]

\* The updates of an identity, by their places in `stored'; and the last of some.
Of(id, physicalOnly) ==
    {n \in DOMAIN stored : stored[n].event.id = id /\ (physicalOnly => ~stored[n].synthetic)}
Newest(updates) == {n \in updates : \A m \in updates : m <= n}
IsNewest(e, updates) == \E n \in Newest(updates) : e = stored[n].event
IsNewestInput(f, updates) == \E n \in Newest(updates) : f = stored[n].event.input

\* frame_cache.cpp:332-360: an identity has one slot, whatever was evicted before
\* it; frame_cache.hpp:50-52: its physical view is the last frame the bus sent
\* since the slot was given to it, never one a replay or a rule made.
EntriesAgree ==
    storing.at = "idle" =>
        \A s \in Slot : entries[s].id # "none" =>
            /\ \A t \in Slot \ {s} : entries[t].id # entries[s].id
            /\ IsNewest(EntryEvent(entries[s]), Of(entries[s].id, FALSE))
            /\ \/ entries[s].physical = NoFrame
               \/ IsNewestInput(entries[s].physical, Of(entries[s].id, TRUE))

\* What a reader returns was in the cache at one moment: each frame whole and the
\* last of its identity, no identity twice, recent frames without a gap and the
\* newest first.
CopiesAreWhole ==
    \A r \in CacheReader : copying[r].at = "return" =>
        LET out == copying[r].out
            n == Len(stored)
        IN  CASE copying[r].what = "recent" ->
                   /\ Len(out) = IF n < RecentCapacity THEN n ELSE RecentCapacity
                   /\ \A i \in 1..Len(out) : out[i] = stored[n + 1 - i].event
              [] copying[r].what = "physical" ->
                   \A i \in 1..Len(out) : IsNewestInput(out[i].data, Of(copying[r].id, TRUE))
              [] OTHER ->
                   /\ \A i \in 1..Len(out) : IsNewest(out[i], Of(out[i].id, FALSE))
                   /\ \A i, j \in 1..Len(out) : i # j => out[i].id # out[j].id
=============================================================================
