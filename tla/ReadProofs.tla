----------------------------- MODULE ReadProofs -----------------------------
(***************************************************************************)
(* A reader of the diagnostic result, of the gateway's statistics or of a   *)
(* decoded signal gets what one writer put there at one time: for any       *)
(* number of readers, words, publications, databases and decoded frames.    *)
(* The observation tables, last, stay as they are while they are searched.  *)
(***************************************************************************)
EXTENDS ResultWords, StatsSnapshot, DecodePath, ObservationTables, FiniteSetTheorems, TLAPS

LEMMA EvenOdd ==
    ASSUME NEW n \in Nat
    PROVE  (2 * n) % 2 = 0 /\ (2 * n + 1) % 2 = 1
  BY SMT
-----------------------------------------------------------------------------
(* The words of a result *)

ReadRecord ==
    [at: {"idle", "before", "load", "return"}, attempt: Nat, before: Nat, left: SUBSET Word,
     copy: [Word -> Nat], oldest: Nat]

ResultTyped ==
    /\ resultWords \in [Word -> Nat]
    /\ publishing \in [at: {"idle", "store"}, left: SUBSET Word]
    /\ publications \in Nat
    /\ reads \in [ResultReader -> ReadRecord]

\* How many publications have ended.
Finished == IF publishing.at = "idle" THEN publications ELSE publications - 1

\* The sequence word counts the beginnings and the ends of publications.
SequenceCounts ==
    /\ Finished \in Nat
    /\ resultSequence = IF publishing.at = "idle" THEN 2 * Finished ELSE 2 * Finished + 1

\* Outside a publication all words are of the last one.
WordsSettled ==
    /\ publishing.at = "idle" => publishing.left = {}
    /\ \A w \in Word \ publishing.left : resultWords[w] = publications

\* As long as the sequence word has not moved, what was loaded is the last result.
LoadedIsCurrent(s) ==
    /\ s.at \in {"before", "load"} => s.oldest <= Finished
    /\ s.at = "load" => /\ 2 * s.oldest <= s.before /\ s.before <= resultSequence
                        /\ s.before % 2 = 0
                        /\ s.before = resultSequence =>
                             \A w \in Word \ s.left : s.copy[w] = publications
    /\ s.at = "return" => \E n \in s.oldest..publications : s.copy = [w \in Word |-> n]

ResultInv ==
    ResultTyped /\ SequenceCounts /\ WordsSettled /\ \A r \in ResultReader : LoadedIsCurrent(reads[r])

LEMMA SequenceParity ==
    ASSUME ResultTyped, SequenceCounts
    PROVE  /\ resultSequence \in Nat
           /\ resultSequence % 2 = 1 <=> publishing.at # "idle"
           /\ resultSequence % 2 = 0 <=> publishing.at = "idle"
           /\ Published = Finished
<1>1. PICK f \in Nat : f = Finished
  BY DEF SequenceCounts
<1>2. (2 * f) % 2 = 0 /\ (2 * f + 1) % 2 = 1
  BY EvenOdd
<1>3. resultSequence = IF publishing.at = "idle" THEN 2 * f ELSE 2 * f + 1
  BY <1>1 DEF SequenceCounts
<1> QED
  BY <1>1, <1>2, <1>3 DEF Published, Finished

LEMMA ResultInitInv == ResultInit => ResultInv
  BY DEF ResultInit, ResultInv, ResultTyped, ReadRecord, SequenceCounts, Finished, WordsSettled,
         LoadedIsCurrent, NotPublishing, NoResultRead

LEMMA OpenStep == ResultInv /\ OpenResult => ResultInv'
<1> SUFFICES ASSUME ResultInv, OpenResult PROVE ResultInv'
  OBVIOUS
<1>0. resultSequence \in Nat /\ resultSequence % 2 = 0
  BY SequenceParity DEF ResultInv, OpenResult
<1>1. ResultTyped'
  BY DEF ResultInv, ResultTyped, OpenResult, OwnerStep
<1>2. Finished' = Finished /\ resultSequence' = resultSequence + 1
  BY DEF ResultInv, ResultTyped, OpenResult, Finished
<1>3. SequenceCounts'
  BY <1>2 DEF ResultInv, ResultTyped, OpenResult, SequenceCounts
<1>4. WordsSettled'
  BY DEF ResultInv, ResultTyped, OpenResult, WordsSettled
<1>5. ASSUME NEW r \in ResultReader PROVE LoadedIsCurrent(reads[r])'
  <2>1. reads[r] \in ReadRecord /\ LoadedIsCurrent(reads[r]) /\ reads' = reads
    BY DEF ResultInv, ResultTyped, OpenResult, OwnerStep
  <2>2. publications \in Nat /\ publications' = publications + 1
    BY DEF ResultInv, ResultTyped, OpenResult
  <2> QED
    BY <1>0, <1>2, <2>1, <2>2 DEF LoadedIsCurrent, ReadRecord
<1> QED
  BY <1>1, <1>3, <1>4, <1>5 DEF ResultInv

LEMMA StoreStep == ResultInv /\ (\E w \in Word : StoreWord(w)) => ResultInv'
<1> SUFFICES ASSUME ResultInv, NEW w \in Word, StoreWord(w) PROVE ResultInv'
  OBVIOUS
<1>1. ResultTyped'
  BY DEF ResultInv, ResultTyped, StoreWord, OwnerStep
<1>2. Finished' = Finished /\ UNCHANGED <<resultSequence, publications, reads>>
  BY DEF ResultInv, ResultTyped, StoreWord, OwnerStep, Finished
<1>3. SequenceCounts'
  BY <1>2 DEF ResultInv, ResultTyped, StoreWord, SequenceCounts
<1>4. WordsSettled'
  BY DEF ResultInv, ResultTyped, StoreWord, WordsSettled
<1>5. ASSUME NEW r \in ResultReader PROVE LoadedIsCurrent(reads[r])'
  BY <1>2, <1>5 DEF ResultInv, LoadedIsCurrent
<1> QED
  BY <1>1, <1>3, <1>4, <1>5 DEF ResultInv

LEMMA CloseStep == ResultInv /\ CloseResult => ResultInv'
<1> SUFFICES ASSUME ResultInv, CloseResult PROVE ResultInv'
  OBVIOUS
<1>0. resultSequence \in Nat /\ Finished \in Nat
  BY SequenceParity DEF ResultInv, SequenceCounts
<1>1. ResultTyped'
  BY DEF ResultInv, ResultTyped, CloseResult, OwnerStep, NotPublishing
<1>2. Finished' = Finished + 1 /\ resultSequence' = resultSequence + 1
  BY DEF ResultInv, ResultTyped, CloseResult, Finished, NotPublishing
<1>3. SequenceCounts'
  BY <1>0, <1>2 DEF ResultInv, ResultTyped, CloseResult, SequenceCounts, NotPublishing
<1>4. WordsSettled'
  BY DEF ResultInv, ResultTyped, CloseResult, WordsSettled, NotPublishing
<1>5. ASSUME NEW r \in ResultReader PROVE LoadedIsCurrent(reads[r])'
  <2>1. reads[r] \in ReadRecord /\ LoadedIsCurrent(reads[r]) /\ reads' = reads
    BY DEF ResultInv, ResultTyped, CloseResult, OwnerStep
  <2>2. publications' = publications
    BY DEF CloseResult
  <2> QED
    BY <1>0, <1>2, <2>1, <2>2 DEF LoadedIsCurrent, ReadRecord
<1> QED
  BY <1>1, <1>3, <1>4, <1>5 DEF ResultInv

\* A reader's step leaves the writer's side alone.
LEMMA ReadStep ==
    ASSUME ResultInv, NEW r \in ResultReader, NEW s \in ReadRecord,
           UNCHANGED <<resultSequence, resultWords, slotOwner, publishing, publications>>,
           ReaderBecomes(r, s), LoadedIsCurrent(s)
    PROVE  ResultInv'
<1>1. ResultTyped' /\ SequenceCounts' /\ WordsSettled'
  BY DEF ResultInv, ResultTyped, SequenceCounts, WordsSettled, Finished, ReaderBecomes
<1>2. ASSUME NEW q \in ResultReader PROVE LoadedIsCurrent(reads[q])'
  <2>1. reads'[q] = IF q = r THEN s ELSE reads[q]
    BY DEF ResultInv, ResultTyped, ReaderBecomes
  <2>2. LoadedIsCurrent(reads'[q])
    BY <2>1 DEF ResultInv
  <2> QED
    BY <2>2 DEF LoadedIsCurrent, Finished
<1> QED
  BY <1>1, <1>2 DEF ResultInv

LEMMA ReadingStep ==
    ASSUME ResultInv, NEW r \in ResultReader, ReadingResult(r)
    PROVE  ResultInv'
<1>0. reads[r] \in ReadRecord /\ LoadedIsCurrent(reads[r]) /\ publications \in Nat
      /\ resultWords \in [Word -> Nat]
  BY DEF ResultInv, ResultTyped
<1>1. /\ resultSequence \in Nat /\ Published = Finished /\ Finished \in Nat
      /\ resultSequence % 2 = 1 <=> publishing.at # "idle"
      /\ resultSequence % 2 = 0 <=> publishing.at = "idle"
  BY SequenceParity DEF ResultInv, SequenceCounts
<1>2. NoResultRead \in ReadRecord /\ LoadedIsCurrent(NoResultRead)
  BY DEF NoResultRead, ReadRecord, LoadedIsCurrent
<1>3. CASE Retries(r) /\ UNCHANGED <<resultSequence, resultWords, slotOwner, publishing, publications>>
           /\ reads[r].at \in {"before", "load"}
  <2>1. CASE ~(reads[r].attempt + 1 < MaxAttempts)
    BY <1>2, <1>3, <2>1, ReadStep DEF Retries
  <2>2. CASE reads[r].attempt + 1 < MaxAttempts
    <3> DEFINE s == [reads[r] EXCEPT !.at = "before", !.attempt = reads[r].attempt + 1]
    <3>1. reads[r].attempt + 1 \in Nat
      BY <1>0 DEF ReadRecord
    <3>2. s \in ReadRecord /\ s.at = "before" /\ s.oldest = reads[r].oldest
      BY <1>0, <3>1 DEF ReadRecord
    <3>3. ReaderBecomes(r, s)
      BY <1>3, <2>2 DEF Retries
    <3>4. LoadedIsCurrent(s)
      <4> HIDE DEF s
      <4> QED BY <1>0, <1>3, <3>2 DEF LoadedIsCurrent
    <3> QED
      BY <1>3, <3>2, <3>3, <3>4, ReadStep
  <2> QED
    BY <2>1, <2>2
<1>4. CASE BeginRead(r)
  <2> DEFINE s == [NoResultRead EXCEPT !.at = "before", !.oldest = Published]
  <2>1. s \in ReadRecord /\ s.at = "before" /\ s.oldest = Finished
    BY <1>1 DEF NoResultRead, ReadRecord
  <2>2. LoadedIsCurrent(s)
    <3> HIDE DEF s
    <3> QED BY <1>1, <2>1 DEF LoadedIsCurrent
  <2> QED
    BY <2>2, <1>4, <2>1, ReadStep DEF BeginRead, ReaderAt
<1>5. CASE ReadSequence(r)
  <2>1. CASE resultSequence % 2 = 1
    BY <1>3, <1>5, <2>1 DEF ReadSequence, ReaderAt
  <2>2. CASE resultSequence % 2 # 1
    <3> DEFINE s == [reads[r] EXCEPT !.at = "load", !.before = resultSequence, !.left = Word]
    <3>1. publishing.at = "idle" /\ resultSequence = 2 * Finished
      BY <1>1, <2>2 DEF ResultInv, SequenceCounts
    <3>2. resultSequence % 2 = 0
      BY <1>1, <3>1
    <3>3. s \in ReadRecord
      BY <1>0, <1>1 DEF ReadRecord
    <3>4. reads[r].oldest \in Nat /\ reads[r].oldest <= Finished
      BY <1>0, <1>5 DEF ReadSequence, ReaderAt, LoadedIsCurrent, ReadRecord
    <3>5. /\ s.at = "load" /\ s.oldest = reads[r].oldest /\ s.before = resultSequence
          /\ s.left = Word
      BY <1>0 DEF ReadRecord
    <3>6. LoadedIsCurrent(s)
      <4> HIDE DEF s
      <4> QED BY <1>1, <3>1, <3>2, <3>4, <3>5 DEF LoadedIsCurrent
    <3> QED
      BY <1>5, <2>2, <3>3, <3>6, ReadStep DEF ReadSequence, ReaderAt
  <2> QED
    BY <2>1, <2>2
<1>6. CASE \E w \in Word : LoadWord(r, w)
  <2> PICK w \in Word : LoadWord(r, w)
    BY <1>6
  <2> DEFINE s == [reads[r] EXCEPT !.left = @ \ {w}, !.copy[w] = resultWords[w]]
  <2>1. s \in ReadRecord
    BY <1>0 DEF ReadRecord
  <2>2. /\ s.at = "load" /\ s.oldest = reads[r].oldest /\ s.before = reads[r].before
        /\ s.left = reads[r].left \ {w}
        /\ s.copy = [reads[r].copy EXCEPT ![w] = resultWords[w]]
        /\ reads[r].at = "load" /\ reads[r].copy \in [Word -> Nat] /\ reads[r].before \in Nat
    BY <1>0 DEF LoadWord, ReaderAt, ReadRecord
  <2>3. reads[r].before = resultSequence => resultWords[w] = publications
    BY <1>0, <1>1, <2>2 DEF LoadedIsCurrent, ResultInv, WordsSettled
  <2>4. LoadedIsCurrent(s)
    <3> HIDE DEF s
    <3> QED BY <1>0, <2>2, <2>3 DEF LoadedIsCurrent
  <2> QED
    BY <2>1, <2>4, ReadStep DEF LoadWord, ReaderAt
<1>7. CASE CheckSequence(r)
  <2>1. CASE resultSequence # reads[r].before
    BY <1>3, <1>7, <2>1 DEF CheckSequence, ReaderAt
  <2>2. CASE resultSequence = reads[r].before
    <3> DEFINE s == [reads[r] EXCEPT !.at = "return"]
    <3>1. s \in ReadRecord
      BY <1>0 DEF ReadRecord
    <3>2. reads[r].at = "load" /\ reads[r].left = {} /\ reads[r].copy \in [Word -> Nat]
          /\ reads[r].oldest \in Nat
      BY <1>0, <1>7 DEF CheckSequence, ReaderAt, ReadRecord
    <3>3. \A w \in Word : reads[r].copy[w] = publications
      BY <1>0, <2>2, <3>2 DEF LoadedIsCurrent
    <3>4. reads[r].copy = [w \in Word |-> publications]
      BY <3>2, <3>3
    <3>5. reads[r].oldest <= publications
      BY <1>0, <1>1, <3>2 DEF LoadedIsCurrent, Finished
    <3>6. s.at = "return" /\ s.oldest = reads[r].oldest /\ s.copy = reads[r].copy
      BY <1>0 DEF ReadRecord
    <3>7. LoadedIsCurrent(s)
      <4> HIDE DEF s
      <4>1. publications \in s.oldest..publications /\ s.copy = [w \in Word |-> publications]
        BY <1>0, <3>2, <3>4, <3>5, <3>6
      <4> QED BY <3>6, <4>1 DEF LoadedIsCurrent
    <3> QED
      BY <1>7, <2>2, <3>1, <3>7, ReadStep DEF CheckSequence, ReaderAt
  <2> QED
    BY <2>1, <2>2
<1>8. CASE ReturnResult(r)
  BY <1>2, <1>8, ReadStep DEF ReturnResult, ReaderAt
<1> QED
  BY <1>4, <1>5, <1>6, <1>7, <1>8 DEF ReadingResult

LEMMA ResultNextInv == ResultInv /\ [ResultNext]_resultVars => ResultInv'
<1> SUFFICES ASSUME ResultInv, [ResultNext]_resultVars PROVE ResultInv'
  OBVIOUS
<1>1. CASE ClaimSlot \/ PassSlot \/ UNCHANGED resultVars
  BY <1>1 DEF ResultInv, ResultTyped, SequenceCounts, Finished, WordsSettled, LoadedIsCurrent,
              ClaimSlot, PassSlot, OwnerStep, resultVars
<1>2. CASE \E r \in ResultReader : ReadingResult(r)
  BY <1>2, ReadingStep
<1> QED
  BY <1>1, <1>2, OpenStep, StoreStep, CloseStep DEF ResultNext, Writing

\* A copy of the diagnostic result is one published result, whole, and not one
\* that had been replaced before the call began.
THEOREM ResultCopiesAreWhole == ResultSpec => []ResultsAreWhole
<1>1. ResultInv => ResultsAreWhole
  BY DEF ResultInv, LoadedIsCurrent, ResultsAreWhole
<1> QED
  BY <1>1, ResultInitInv, ResultNextInv, PTL DEF ResultSpec
-----------------------------------------------------------------------------
(* Decoded signals *)

DecoderPlace == {"idle", "enter", "recheck", "find", "open", "value", "seen", "close", "leave"}
ChangePlace == {"idle", "wait", "decide", "database", "entries", "count", "resume"}

\* The change exchanges its three parts in this order, and only while nothing is decoded.
Swapping == change.at \in {"database", "entries", "count"}

DecodePlaces ==
    /\ decoder.at \in DecoderPlace /\ decoder = [at |-> decoder.at, dbc |-> decoder.dbc]
    /\ change.at \in ChangePlace /\ change = [at |-> change.at, dbc |-> change.dbc]
    /\ entry = [sequence |-> entry.sequence, value |-> entry.value, seen |-> entry.seen]
    /\ signalRead = [at |-> signalRead.at, before |-> signalRead.before,
                     value |-> signalRead.value, seen |-> signalRead.seen]

\* decodeReaders counts the decoder from its entry to its exit.
DecodersCounted ==
    decodeReaders = IF decoder.at \in {"idle", "enter"} THEN 0 ELSE 1

ChangeExcludes ==
    /\ decodeEnabled <=> change.at = "idle"
    /\ Swapping => ~InDecode
    /\ signalRead.at # "idle" => change.at = "idle"

DatabasesAgree ==
    /\ change.at = "database" => database = cacheOf
    /\ change.at = "entries" => database = change.dbc
    /\ change.at = "count" => database = change.dbc /\ cacheOf = change.dbc
    /\ change.at \notin {"entries"} => database = cacheOf
    /\ change.at \notin {"entries", "count"} => cacheOf = countOf
    /\ InDecode => decoder.dbc = database
    /\ entry.value # NoValue => entry.value.dbc = cacheOf

DatabaseInv == DecodePlaces /\ DecodersCounted /\ ChangeExcludes /\ DatabasesAgree

LEMMA DatabaseInit == DecodeInit => DatabaseInv
  BY DEF DecodeInit, DatabaseInv, DecodePlaces, DecoderPlace, ChangePlace, DecodersCounted,
         ChangeExcludes, Swapping, InDecode, DatabasesAgree, Fresh, NotDecoding, NoRead

LEMMA DecoderKeepsDatabase == DatabaseInv /\ Decoding => DatabaseInv'
<1> SUFFICES ASSUME DatabaseInv, Decoding PROVE DatabaseInv'
  OBVIOUS
<1> USE DEF DatabaseInv, DecodePlaces, DecoderPlace, ChangePlace, DecodersCounted, ChangeExcludes,
            Swapping, InDecode, DatabasesAgree, DecoderAt, DecoderTo, cacheWords, NotDecoding
<1>1. CASE SeeFrame
  BY <1>1 DEF SeeFrame
<1>2. CASE EnterDecode
  BY <1>2 DEF EnterDecode
<1>3. CASE RecheckDecode
  BY <1>3 DEF RecheckDecode
<1>4. CASE FindSignal
  BY <1>4 DEF FindSignal
<1>5. CASE OpenEntry
  BY <1>5 DEF OpenEntry
<1>6. CASE WriteValue
  BY <1>6 DEF WriteValue
<1>7. CASE WriteSeen
  BY <1>7 DEF WriteSeen
<1>8. CASE CloseEntry
  BY <1>8 DEF CloseEntry
<1>9. CASE LeaveDecode
  BY <1>9 DEF LeaveDecode
<1> QED
  BY <1>1, <1>2, <1>3, <1>4, <1>5, <1>6, <1>7, <1>8, <1>9 DEF Decoding

LEMMA ChangeKeepsDatabase == DatabaseInv /\ Changing => DatabaseInv'
<1> SUFFICES ASSUME DatabaseInv, Changing PROVE DatabaseInv'
  OBVIOUS
<1> USE DEF DatabaseInv, DecodePlaces, DecoderPlace, ChangePlace, DecodersCounted, ChangeExcludes,
            Swapping, InDecode, DatabasesAgree, ChangeAt, ChangeTo, cacheWords
<1>1. CASE PauseDecoding
  BY <1>1 DEF PauseDecoding, Unlocked
<1>2. CASE WaitForDecoder
  BY <1>2 DEF WaitForDecoder
<1>3. CASE DecideChange
  BY <1>3 DEF DecideChange
<1>4. CASE SwapDatabase
  BY <1>4 DEF SwapDatabase
<1>5. CASE SwapEntries
  BY <1>5 DEF SwapEntries, Fresh
<1>6. CASE SwapCount
  BY <1>6 DEF SwapCount
<1>7. CASE ResumeDecoding
  BY <1>7 DEF ResumeDecoding
<1>8. CASE Subscribe
  BY <1>8 DEF Subscribe
<1> QED
  BY <1>1, <1>2, <1>3, <1>4, <1>5, <1>6, <1>7, <1>8 DEF Changing

LEMMA ReadKeepsDatabase == DatabaseInv /\ Reading => DatabaseInv'
<1> SUFFICES ASSUME DatabaseInv, Reading PROVE DatabaseInv'
  OBVIOUS
<1> USE DEF DatabaseInv, DecodePlaces, DecodersCounted, ChangeExcludes, Swapping, InDecode,
            DatabasesAgree, ReadAt, cacheWords, NoRead
<1>1. CASE ReadBefore
  BY <1>1 DEF ReadBefore, Unlocked
<1>2. CASE ReadValue
  BY <1>2 DEF ReadValue
<1>3. CASE ReadSeen
  BY <1>3 DEF ReadSeen
<1>4. CASE ReadAfter
  BY <1>4 DEF ReadAfter
<1>5. CASE ReturnRead
  BY <1>5 DEF ReturnRead
<1> QED
  BY <1>1, <1>2, <1>3, <1>4, <1>5 DEF Reading

LEMMA DatabaseStays == DatabaseInv /\ [DecodeNext]_decodeVars => DatabaseInv'
<1>1. DatabaseInv /\ UNCHANGED decodeVars => DatabaseInv'
  BY DEF DatabaseInv, DecodePlaces, DecodersCounted, ChangeExcludes, Swapping, InDecode,
         DatabasesAgree, decodeVars, cacheWords
<1> QED
  BY <1>1, DecoderKeepsDatabase, ChangeKeepsDatabase, ReadKeepsDatabase DEF DecodeNext

\* While the CAN task decodes, database, entries and count belong together, and
\* every value in the cache comes from the database the cache was made for.
THEOREM DecodingMatchesDatabase == DecodeSpec => []DecodeMatchesDatabase
<1>1. DatabaseInv => DecodeMatchesDatabase
  BY DEF DatabaseInv, ChangeExcludes, Swapping, DatabasesAgree, InDecode, DecodeMatchesDatabase
<1> QED
  BY <1>1, DatabaseInit, DatabaseStays, PTL DEF DecodeSpec

\* The entry's sequence word counts the beginnings and the ends of its writes.
EntryOpen == decoder.at \in {"value", "seen", "close"}
EntrySequence ==
    \E n \in Nat : entry.sequence = IF EntryOpen THEN 2 * n + 1 ELSE 2 * n

\* Outside a write all words of the entry are of one frame.
EntrySettled ==
    /\ decodes \in Nat
    /\ decoder.at \in {"seen", "close"} => entry.value.frame = decodes
    /\ decoder.at = "close" => entry.seen = decodes
    /\ ~EntryOpen => entry.value.frame = entry.seen

\* As long as the sequence word has not moved, what was read is what is there.
ReadIsCurrent ==
    /\ signalRead.at \in {"value", "seen", "after"} =>
         /\ signalRead.before \in Nat /\ signalRead.before % 2 = 0
         /\ signalRead.before <= entry.sequence
    /\ signalRead.at \in {"seen", "after"} /\ signalRead.before = entry.sequence =>
         signalRead.value = entry.value
    /\ signalRead.at = "after" /\ signalRead.before = entry.sequence =>
         signalRead.seen = entry.seen
    /\ signalRead.at = "return" => signalRead.value.frame = signalRead.seen

EntryInv == DatabaseInv /\ EntrySequence /\ EntrySettled /\ ReadIsCurrent

LEMMA EntryParity ==
    ASSUME EntrySequence
    PROVE  entry.sequence \in Nat /\ (entry.sequence % 2 = 0 <=> ~EntryOpen)
<1>1. PICK n \in Nat : entry.sequence = IF EntryOpen THEN 2 * n + 1 ELSE 2 * n
  BY DEF EntrySequence
<1>2. (2 * n) % 2 = 0 /\ (2 * n + 1) % 2 = 1
  BY EvenOdd
<1> QED
  BY <1>1, <1>2

LEMMA EntryInit == DecodeInit => EntryInv
<1> SUFFICES ASSUME DecodeInit PROVE EntrySequence /\ EntrySettled /\ ReadIsCurrent
  BY DatabaseInit DEF EntryInv
<1>1. entry.sequence = 2 * 0 /\ ~EntryOpen
  BY DEF DecodeInit, Fresh, EntryOpen, NotDecoding
<1> QED
  BY <1>1 DEF DecodeInit, Fresh, NoValue, NotDecoding, NoRead, EntrySequence, EntrySettled,
              ReadIsCurrent, EntryOpen

LEMMA DecoderKeepsEntry == EntryInv /\ Decoding => EntryInv'
<1> SUFFICES ASSUME EntryInv, Decoding PROVE EntrySequence' /\ EntrySettled' /\ ReadIsCurrent'
  BY DecoderKeepsDatabase DEF EntryInv
<1>0. /\ DecodePlaces /\ EntrySequence /\ EntrySettled /\ ReadIsCurrent
      /\ entry.sequence \in Nat /\ (entry.sequence % 2 = 0 <=> ~EntryOpen)
  BY EntryParity DEF EntryInv, DatabaseInv
<1>1. CASE UNCHANGED entry /\ (EntryOpen' <=> EntryOpen) /\ UNCHANGED signalRead
           /\ decoder.at \notin {"value", "seen", "close"} /\ decodes' \in Nat
  BY <1>0, <1>1 DEF EntrySequence, EntrySettled, ReadIsCurrent, EntryOpen
<1>2. CASE SeeFrame \/ EnterDecode \/ RecheckDecode \/ FindSignal \/ LeaveDecode
  <2>1. decodes' \in Nat
    BY <1>0, <1>2 DEF EntrySettled, SeeFrame, EnterDecode, RecheckDecode, FindSignal, LeaveDecode
  <2> QED
    BY <1>0, <1>1, <1>2, <2>1 DEF DecodePlaces, SeeFrame, EnterDecode, RecheckDecode, FindSignal,
        LeaveDecode, DecoderAt, DecoderTo, EntryOpen, NotDecoding
<1>3. CASE OpenEntry \/ CloseEntry
  <2>1. /\ entry'.sequence = entry.sequence + 1 /\ entry'.value = entry.value
        /\ entry'.seen = entry.seen /\ UNCHANGED <<signalRead, decodes>>
        /\ (EntryOpen' <=> ~EntryOpen)
    BY <1>0, <1>3 DEF DecodePlaces, OpenEntry, CloseEntry, DecoderAt, DecoderTo, EntryOpen
  <2>2. EntrySequence'
    <3>1. PICK n \in Nat : entry.sequence = IF EntryOpen THEN 2 * n + 1 ELSE 2 * n
      BY <1>0 DEF EntrySequence
    <3>2. entry'.sequence = IF EntryOpen' THEN 2 * n + 1 ELSE 2 * (n + 1)
      BY <2>1, <3>1
    <3>3. n + 1 \in Nat
      BY <3>1
    <3> QED
      BY <3>1, <3>2, <3>3 DEF EntrySequence
  <2>3. EntrySettled'
    BY <1>0, <1>3, <2>1 DEF DecodePlaces, EntrySettled, OpenEntry, CloseEntry, DecoderAt,
        DecoderTo, EntryOpen
  <2>4. ReadIsCurrent'
    BY <1>0, <2>1 DEF ReadIsCurrent
  <2> QED
    BY <2>2, <2>3, <2>4
<1>4. CASE WriteValue \/ WriteSeen
  <2>1. /\ EntryOpen /\ EntryOpen' /\ entry'.sequence = entry.sequence
        /\ UNCHANGED <<signalRead, decodes>>
    BY <1>0, <1>4 DEF DecodePlaces, WriteValue, WriteSeen, DecoderAt, DecoderTo, EntryOpen
  <2>2. EntrySequence'
    BY <1>0, <2>1 DEF EntrySequence
  <2>3. EntrySettled'
    BY <1>0, <1>4, <2>1 DEF DecodePlaces, EntrySettled, WriteValue, WriteSeen, DecoderAt,
        DecoderTo, EntryOpen
  <2>4. ReadIsCurrent'
    BY <1>0, <2>1 DEF ReadIsCurrent
  <2> QED
    BY <2>2, <2>3, <2>4
<1> QED
  BY <1>2, <1>3, <1>4 DEF Decoding

LEMMA ChangeKeepsEntry == EntryInv /\ Changing => EntryInv'
<1> SUFFICES ASSUME EntryInv, Changing PROVE EntrySequence' /\ EntrySettled' /\ ReadIsCurrent'
  BY ChangeKeepsDatabase DEF EntryInv
<1>1. CASE SwapEntries
  <2>1. signalRead.at = "idle" /\ ~EntryOpen /\ entry' = Fresh
        /\ UNCHANGED <<signalRead, decoder, decodes>>
    BY <1>1 DEF EntryInv, DatabaseInv, ChangeExcludes, Swapping, InDecode, SwapEntries, ChangeAt,
        EntryOpen
  <2>2. entry'.sequence = 2 * 0 /\ ~EntryOpen'
    BY <2>1 DEF Fresh, EntryOpen
  <2> QED
    BY <2>1, <2>2 DEF EntryInv, EntrySequence, EntrySettled, ReadIsCurrent, EntryOpen, Fresh, NoValue
<1>2. CASE UNCHANGED <<entry, decoder, decodes, signalRead>>
  BY <1>2 DEF EntryInv, EntrySequence, EntrySettled, ReadIsCurrent, EntryOpen
<1> QED
  BY <1>1, <1>2 DEF Changing, PauseDecoding, WaitForDecoder, DecideChange, SwapDatabase, SwapCount,
      ResumeDecoding, Subscribe, ChangeAt

LEMMA ReadKeepsEntry == EntryInv /\ Reading => EntryInv'
<1> SUFFICES ASSUME EntryInv, Reading PROVE EntrySequence' /\ EntrySettled' /\ ReadIsCurrent'
  BY ReadKeepsDatabase DEF EntryInv
<1>0. /\ DecodePlaces /\ EntrySequence /\ EntrySettled /\ ReadIsCurrent
      /\ entry.sequence \in Nat /\ (entry.sequence % 2 = 0 <=> ~EntryOpen)
  BY EntryParity DEF EntryInv, DatabaseInv
<1>1. UNCHANGED <<entry, decoder, decodes>>
  BY DEF Reading, ReadBefore, ReadValue, ReadSeen, ReadAfter, ReturnRead, ReadAt
<1>2. EntrySequence' /\ EntrySettled'
  BY <1>0, <1>1 DEF EntrySequence, EntrySettled, EntryOpen
<1>3. CASE ReadBefore
  BY <1>0, <1>1, <1>2, <1>3 DEF ReadBefore, ReadAt, ReadIsCurrent, NoRead
<1>4. CASE ReadValue
  BY <1>0, <1>1, <1>2, <1>4 DEF ReadValue, ReadAt, ReadIsCurrent, DecodePlaces
<1>5. CASE ReadSeen
  BY <1>0, <1>1, <1>2, <1>5 DEF ReadSeen, ReadAt, ReadIsCurrent, DecodePlaces
<1>6. CASE ReadAfter
  BY <1>0, <1>1, <1>2, <1>6 DEF ReadAfter, ReadAt, ReadIsCurrent, DecodePlaces, EntrySettled, NoRead
<1>7. CASE ReturnRead
  BY <1>0, <1>1, <1>2, <1>7 DEF ReturnRead, ReadAt, ReadIsCurrent, NoRead
<1> QED
  BY <1>2, <1>3, <1>4, <1>5, <1>6, <1>7 DEF Reading

\* What is read of a signal is of one decoded frame, also across a change of the
\* database, which makes the entry and its sequence word anew.
THEOREM SignalsReadWhole == DecodeSpec => []SignalReadsAreWhole
<1>1. EntryInv /\ [DecodeNext]_decodeVars => EntryInv'
  <2>1. EntryInv /\ UNCHANGED decodeVars => EntryInv'
    <3> SUFFICES ASSUME EntryInv, UNCHANGED decodeVars
                 PROVE  EntrySequence' /\ EntrySettled' /\ ReadIsCurrent'
      BY DatabaseStays DEF EntryInv
    <3> QED
      BY DEF EntryInv, EntrySequence, EntrySettled, ReadIsCurrent, EntryOpen, decodeVars
  <2> QED
    BY <2>1, DecoderKeepsEntry, ChangeKeepsEntry, ReadKeepsEntry DEF DecodeNext
<1>2. EntryInv => SignalReadsAreWhole
  BY DEF EntryInv, ReadIsCurrent, SignalReadsAreWhole
<1> QED
  BY <1>1, <1>2, EntryInit, PTL DEF DecodeSpec
-----------------------------------------------------------------------------
(* The statistics *)

PinnedIn(b) == {r \in StatsReader : Pinned(r) /\ snapshots[r].buffer = b}

\* Each count is the number of readers that will take it back.
PinsCounted ==
    \A b \in Buffers : snapshotReaders[b] = Cardinality(PinnedIn(b))

\* The buffer written to is neither the active one nor one that is being copied.
WritesApart ==
    /\ publisher.at = "choose" => publisher.offset \in 1..2
    /\ publisher.at \in {"first", "second", "activate"} =>
         /\ publisher.buffer # activeSnapshot
         /\ \A r \in StatsReader : Copying(r) => snapshots[r].buffer # publisher.buffer

\* Both halves of a buffer are of one sample, but for the buffer half written.
BuffersWhole ==
    /\ \A b \in Buffers :
         publishedStats[b].first # publishedStats[b].second =>
           publisher.at = "second" /\ publisher.buffer = b
    /\ publisher.at = "second" => publishedStats[publisher.buffer].first = sample

CopyIsOfBuffer ==
    \A r \in StatsReader :
      /\ snapshots[r].at = "second" =>
           snapshots[r].copy.first = publishedStats[snapshots[r].buffer].first
      /\ snapshots[r].at = "unpin" => snapshots[r].copy.first = snapshots[r].copy.second

StatsInv == StatsTypeOK /\ PinsCounted /\ WritesApart /\ BuffersWhole /\ CopyIsOfBuffer

LEMMA PinnedFinite == \A b : IsFiniteSet(PinnedIn(b))
  BY SamplesAssumption, FS_Subset DEF PinnedIn

LEMMA StatsInitInv == StatsInit => StatsInv
<1> SUFFICES ASSUME StatsInit PROVE StatsInv
  OBVIOUS
<1>1. StatsTypeOK
  BY SamplesAssumption DEF StatsInit, StatsTypeOK, Halves, Buffers, Nobody, NotReading
<1>2. PinsCounted
  <2>1. \A b \in Buffers : PinnedIn(b) = {}
    BY DEF StatsInit, PinnedIn, Pinned, NotReading
  <2> QED
    BY <2>1, FS_EmptySet DEF StatsInit, PinsCounted
<1> QED
  BY <1>1, <1>2 DEF StatsInit, StatsInv, WritesApart, BuffersWhole, CopyIsOfBuffer, Copying,
                    NotReading, Nobody

\* The CAN task's steps do not touch what the readers hold.
LEMMA PinsKept ==
    ASSUME PinsCounted, UNCHANGED <<snapshotReaders, snapshots>>
    PROVE  PinsCounted'
<1>1. \A b : PinnedIn(b)' = PinnedIn(b)
  BY DEF PinnedIn, Pinned
<1> QED
  BY <1>1 DEF PinsCounted

LEMMA PublisherKeepsStats ==
    ASSUME StatsInv, BeginPublish \/ ChooseBuffer \/ CopyIn \/ Activate
    PROVE  StatsInv'
<1>0. UNCHANGED <<snapshotReaders, snapshots>> /\ PinsCounted'
  BY PinsKept DEF StatsInv, BeginPublish, ChooseBuffer, CopyIn, Activate, PublisherAt
<1>1. CASE BeginPublish
  <2>1. sample' \in 0..MaxSamples
    BY <1>1, SamplesAssumption DEF StatsInv, StatsTypeOK, BeginPublish
  <2>2. /\ publisher'.at = "choose" /\ publisher'.offset = 1 /\ publisher.at = "idle"
        /\ UNCHANGED <<publishedStats, activeSnapshot>>
        /\ publisher' \in [at: {"idle", "choose", "first", "second", "activate"},
                           buffer: Buffers, offset: 0..2]
    <3>1. publisher' = [at |-> "choose", buffer |-> 0, offset |-> 1]
      BY <1>1 DEF BeginPublish, Nobody
    <3> QED
      BY <1>1, <3>1 DEF BeginPublish, PublisherAt, Buffers
  <2>3. StatsTypeOK'
    BY <1>0, <2>1, <2>2 DEF StatsInv, StatsTypeOK
  <2>4. WritesApart' /\ BuffersWhole' /\ CopyIsOfBuffer'
    BY <1>0, <2>2 DEF StatsInv, WritesApart, BuffersWhole, CopyIsOfBuffer
  <2> QED
    BY <1>0, <2>3, <2>4 DEF StatsInv
<1>2. CASE ChooseBuffer
  <2>1. Candidate \in Buffers /\ Candidate # activeSnapshot
    <3>1. activeSnapshot \in 0..2 /\ publisher.offset \in 1..2
      BY <1>2 DEF StatsInv, StatsTypeOK, Buffers, WritesApart, ChooseBuffer, PublisherAt
    <3> QED
      BY <3>1 DEF Candidate, Buffers
  <2>2. CASE snapshotReaders[Candidate] = 0
    <3>1. PinnedIn(Candidate) = {}
      BY <2>1, <2>2, PinnedFinite, FS_EmptySet DEF StatsInv, PinsCounted
    <3>2. \A r \in StatsReader : Copying(r) => snapshots[r].buffer # Candidate
      BY <3>1 DEF PinnedIn, Pinned, Copying
    <3>3. /\ publisher'.at = "first" /\ publisher'.buffer = Candidate
          /\ publisher'.offset = publisher.offset /\ publisher.at = "choose"
          /\ UNCHANGED <<publishedStats, activeSnapshot, sample>>
          /\ publisher' \in [at: {"idle", "choose", "first", "second", "activate"},
                             buffer: Buffers, offset: 0..2]
      BY <1>2, <2>1, <2>2 DEF StatsInv, StatsTypeOK, ChooseBuffer, PublisherAt
    <3> QED
      BY <1>0, <2>1, <3>2, <3>3 DEF StatsInv, StatsTypeOK, WritesApart, BuffersWhole,
          CopyIsOfBuffer, Copying
  <2>3. CASE snapshotReaders[Candidate] # 0
    <3>1. /\ publisher'.at \in {"choose", "idle"} /\ publisher.at = "choose"
          /\ publisher'.at = "choose" => publisher'.offset = 2
          /\ UNCHANGED <<publishedStats, activeSnapshot, sample>>
          /\ publisher' \in [at: {"idle", "choose", "first", "second", "activate"},
                             buffer: Buffers, offset: 0..2]
      BY <1>2, <2>3 DEF StatsInv, StatsTypeOK, ChooseBuffer, PublisherAt, Nobody, Buffers
    <3> QED
      BY <1>0, <3>1 DEF StatsInv, StatsTypeOK, WritesApart, BuffersWhole, CopyIsOfBuffer, Copying
  <2> QED
    BY <2>2, <2>3
<1>3. CASE CopyIn
  <2>1. /\ publisher.at \in {"first", "second"}
        /\ publisher'.at = IF publisher.at = "first" THEN "second" ELSE "activate"
        /\ publisher'.buffer = publisher.buffer /\ publisher.buffer \in Buffers
        /\ publisher' \in [at: {"idle", "choose", "first", "second", "activate"},
                           buffer: Buffers, offset: 0..2]
        /\ UNCHANGED <<activeSnapshot, sample>>
    BY <1>3 DEF StatsInv, StatsTypeOK, CopyIn, PublisherAt
  <2>2. /\ publishedStats' \in [Buffers -> Halves]
        /\ \A b \in Buffers : b # publisher.buffer => publishedStats'[b] = publishedStats[b]
        /\ publishedStats'[publisher.buffer].first = sample
        /\ publisher.at = "second" => publishedStats'[publisher.buffer].second = sample
    BY <1>3, <2>1 DEF StatsInv, StatsTypeOK, CopyIn, PublisherAt, Halves, BuffersWhole
  <2>3. StatsTypeOK' /\ WritesApart'
    BY <1>0, <2>1, <2>2 DEF StatsInv, StatsTypeOK, WritesApart, Copying
  <2>4. BuffersWhole'
    BY <2>1, <2>2 DEF StatsInv, BuffersWhole
  <2>5. CopyIsOfBuffer'
    BY <1>0, <2>1, <2>2 DEF StatsInv, StatsTypeOK, WritesApart, CopyIsOfBuffer, Copying
  <2> QED
    BY <1>0, <2>3, <2>4, <2>5 DEF StatsInv
<1>4. CASE Activate
  BY <1>0, <1>4 DEF StatsInv, StatsTypeOK, WritesApart, BuffersWhole, CopyIsOfBuffer, Copying,
      Activate, PublisherAt, Nobody, Buffers
<1> QED
  BY <1>1, <1>2, <1>3, <1>4

SnapshotRecord ==
    [at: {"idle", "pin", "check", "first", "second", "unpin"}, buffer: Buffers, copy: Halves]
CountsFor(s, b) == s.at \in {"check", "first", "second", "unpin"} /\ s.buffer = b

\* A reader's step changes the counts by what it stops or begins to hold.
LEMMA PinsFollow ==
    ASSUME StatsTypeOK, PinsCounted, NEW r \in StatsReader, NEW s, SnapshotMoves(r, s),
           snapshotReaders' \in [Buffers -> Int],
           \A b \in Buffers :
             snapshotReaders'[b] = snapshotReaders[b] + (IF CountsFor(s, b) THEN 1 ELSE 0)
                                     - (IF CountsFor(snapshots[r], b) THEN 1 ELSE 0)
    PROVE  PinsCounted' /\ snapshotReaders' \in [Buffers -> Nat]
<1>1. ASSUME NEW b \in Buffers
      PROVE  snapshotReaders'[b] = Cardinality(PinnedIn(b)') /\ snapshotReaders'[b] \in Nat
  <2>1. snapshotReaders[b] = Cardinality(PinnedIn(b)) /\ snapshotReaders[b] \in Nat
    BY DEF PinsCounted, StatsTypeOK
  <2>2. r \in PinnedIn(b) <=> CountsFor(snapshots[r], b)
    BY DEF PinnedIn, Pinned, CountsFor
  <2>3. PinnedIn(b)' = IF CountsFor(s, b) THEN PinnedIn(b) \union {r} ELSE PinnedIn(b) \ {r}
    BY DEF PinnedIn, Pinned, CountsFor, SnapshotMoves, StatsTypeOK
  <2>4. /\ IsFiniteSet(PinnedIn(b)) /\ Cardinality(PinnedIn(b)) \in Nat
        /\ IsFiniteSet(PinnedIn(b)') /\ Cardinality(PinnedIn(b)') \in Nat
    <3>1. IsFiniteSet(PinnedIn(b) \union {r}) /\ IsFiniteSet(PinnedIn(b) \ {r})
      BY PinnedFinite, FS_AddElement, FS_RemoveElement
    <3> QED
      BY <2>3, <3>1, PinnedFinite, FS_CardinalityType
  <2>5. CASE CountsFor(s, b) <=> CountsFor(snapshots[r], b)
    <3>1. PinnedIn(b)' = PinnedIn(b)
      BY <2>2, <2>3, <2>5
    <3> QED
      BY <2>1, <2>5, <3>1
  <2>6. CASE CountsFor(s, b) /\ ~CountsFor(snapshots[r], b)
    <3>1. Cardinality(PinnedIn(b) \union {r}) = Cardinality(PinnedIn(b)) + 1
      BY <2>2, <2>6, PinnedFinite, FS_AddElement
    <3> QED
      BY <2>1, <2>3, <2>4, <2>6, <3>1
  <2>7. CASE ~CountsFor(s, b) /\ CountsFor(snapshots[r], b)
    <3>1. Cardinality(PinnedIn(b) \ {r}) = Cardinality(PinnedIn(b)) - 1
      BY <2>2, <2>7, PinnedFinite, FS_RemoveElement
    <3> QED
      BY <2>1, <2>3, <2>4, <2>7, <3>1
  <2> QED
    BY <2>5, <2>6, <2>7
<1> QED
  BY <1>1 DEF PinsCounted

\* What a reader becomes, of its buffer; the CAN task's side stays.
LEMMA SnapshotStep ==
    ASSUME StatsInv, NEW r \in StatsReader, NEW s \in SnapshotRecord, SnapshotMoves(r, s),
           UNCHANGED <<publishedStats, activeSnapshot, sample, publisher>>,
           PinsCounted', snapshotReaders' \in [Buffers -> Nat],
           s.at \in {"first", "second", "unpin"} /\ ~Copying(r) => s.buffer = activeSnapshot,
           s.at \in {"first", "second", "unpin"} /\ Copying(r) => s.buffer = snapshots[r].buffer,
           s.at = "second" => s.copy.first = publishedStats[s.buffer].first,
           s.at = "unpin" => s.copy.first = s.copy.second
    PROVE  StatsInv'
<1>1. \A q \in StatsReader : snapshots'[q] = IF q = r THEN s ELSE snapshots[q]
  BY DEF StatsInv, StatsTypeOK, SnapshotMoves
<1>2. StatsTypeOK'
  BY DEF StatsInv, StatsTypeOK, SnapshotMoves, SnapshotRecord
<1>3. WritesApart'
  BY <1>1 DEF StatsInv, WritesApart, Copying
<1>4. BuffersWhole'
  BY DEF StatsInv, BuffersWhole
<1>5. CopyIsOfBuffer'
  BY <1>1 DEF StatsInv, CopyIsOfBuffer
<1> QED
  BY <1>2, <1>3, <1>4, <1>5 DEF StatsInv

LEMMA ReaderKeepsStats ==
    ASSUME StatsInv, NEW r \in StatsReader,
           LoadIndex(r) \/ PinBuffer(r) \/ CheckIndex(r) \/ CopyOut(r) \/ UnpinBuffer(r)
    PROVE  StatsInv'
<1> DEFINE s == snapshots[r]
<1>0. /\ StatsTypeOK /\ PinsCounted /\ s \in SnapshotRecord /\ activeSnapshot \in Buffers
      /\ publishedStats \in [Buffers -> Halves] /\ snapshotReaders \in [Buffers -> Nat]
      /\ 0 \in 0..MaxSamples
  BY SamplesAssumption DEF StatsInv, StatsTypeOK, SnapshotRecord
<1>1. UNCHANGED <<publishedStats, activeSnapshot, sample, publisher>>
  BY DEF LoadIndex, PinBuffer, CheckIndex, CopyOut, UnpinBuffer, SnapshotAt
\* The counts follow a step that pins, keeps or lets go.
<1>2. ASSUME NEW t \in SnapshotRecord, SnapshotMoves(r, t),
             snapshotReaders' \in [Buffers -> Int],
             \A b \in Buffers :
               snapshotReaders'[b] = snapshotReaders[b] + (IF CountsFor(t, b) THEN 1 ELSE 0)
                                       - (IF CountsFor(s, b) THEN 1 ELSE 0)
      PROVE  PinsCounted' /\ snapshotReaders' \in [Buffers -> Nat]
  BY <1>0, <1>2, PinsFollow
<1>3. CASE LoadIndex(r)
  <2> DEFINE t == [NotReading EXCEPT !.at = "pin", !.buffer = activeSnapshot]
  <2>1. t \in SnapshotRecord /\ t.at = "pin" /\ s.at = "idle" /\ SnapshotMoves(r, t)
        /\ snapshotReaders' = snapshotReaders
    BY <1>0, <1>3 DEF LoadIndex, SnapshotAt, NotReading, SnapshotRecord, Halves
  <2> HIDE DEF t
  <2>2. PinsCounted' /\ snapshotReaders' \in [Buffers -> Nat]
    BY <1>0, <1>2, <2>1 DEF CountsFor
  <2> QED
    BY <1>1, <2>1, <2>2, SnapshotStep
<1>4. CASE PinBuffer(r)
  <2> DEFINE t == [s EXCEPT !.at = "check"]
  <2>1. t \in SnapshotRecord /\ t.at = "check" /\ t.buffer = s.buffer /\ s.at = "pin"
        /\ SnapshotMoves(r, t)
        /\ snapshotReaders' = [snapshotReaders EXCEPT ![s.buffer] = @ + 1]
    BY <1>0, <1>4 DEF PinBuffer, SnapshotAt, SnapshotRecord, Pins
  <2> HIDE DEF t
  <2>2. PinsCounted' /\ snapshotReaders' \in [Buffers -> Nat]
    BY <1>0, <1>2, <2>1 DEF CountsFor, SnapshotRecord
  <2> QED
    BY <1>1, <2>1, <2>2, SnapshotStep
<1>5. CASE CheckIndex(r)
  <2>1. CASE activeSnapshot = s.buffer
    <3> DEFINE t == [s EXCEPT !.at = "first"]
    <3>1. t \in SnapshotRecord /\ t.at = "first" /\ t.buffer = s.buffer /\ s.at = "check"
          /\ SnapshotMoves(r, t)
          /\ snapshotReaders' = [snapshotReaders EXCEPT ![s.buffer] = @ + 0]
      BY <1>0, <1>5, <2>1 DEF CheckIndex, SnapshotAt, SnapshotRecord, SnapshotMoves, Pins
    <3> HIDE DEF t
    <3>2. PinsCounted' /\ snapshotReaders' \in [Buffers -> Nat]
      BY <1>0, <1>2, <3>1 DEF CountsFor, SnapshotRecord
    <3> QED
      BY <1>1, <2>1, <3>1, <3>2, SnapshotStep
  <2>2. CASE activeSnapshot # s.buffer
    <3> DEFINE t == [s EXCEPT !.at = "idle"]
    <3>1. t \in SnapshotRecord /\ t.at = "idle" /\ t.buffer = s.buffer /\ s.at = "check"
          /\ SnapshotMoves(r, t)
          /\ snapshotReaders' = [snapshotReaders EXCEPT ![s.buffer] = @ + -1]
      BY <1>0, <1>5, <2>2 DEF CheckIndex, SnapshotAt, SnapshotRecord, SnapshotMoves, Pins
    <3> HIDE DEF t
    <3>2. PinsCounted' /\ snapshotReaders' \in [Buffers -> Nat]
      BY <1>0, <1>2, <3>1 DEF CountsFor, SnapshotRecord
    <3> QED
      BY <1>1, <3>1, <3>2, SnapshotStep
  <2> QED
    BY <2>1, <2>2
<1>6. CASE CopyOut(r)
  <2>1. publishedStats[s.buffer] \in Halves
    BY <1>0 DEF SnapshotRecord
  <2>2. CASE s.at = "first"
    <3> DEFINE t == [s EXCEPT !.at = "second", !.copy.first = publishedStats[s.buffer].first]
    <3>1. t \in SnapshotRecord /\ t.at = "second" /\ t.buffer = s.buffer
          /\ t.copy.first = publishedStats[s.buffer].first /\ SnapshotMoves(r, t)
          /\ snapshotReaders' = snapshotReaders
      BY <1>0, <1>6, <2>1, <2>2 DEF CopyOut, SnapshotAt, SnapshotRecord, SnapshotMoves, Halves
    <3> HIDE DEF t
    <3>2. PinsCounted' /\ snapshotReaders' \in [Buffers -> Nat]
      BY <1>0, <1>2, <2>2, <3>1 DEF CountsFor
    <3> QED
      BY <1>1, <2>2, <3>1, <3>2, SnapshotStep DEF Copying
  <2>3. CASE s.at = "second"
    <3> DEFINE t == [s EXCEPT !.at = "unpin", !.copy.second = publishedStats[s.buffer].second]
    <3>1. t \in SnapshotRecord /\ t.at = "unpin" /\ t.buffer = s.buffer
          /\ t.copy.first = s.copy.first /\ t.copy.second = publishedStats[s.buffer].second
          /\ SnapshotMoves(r, t) /\ snapshotReaders' = snapshotReaders
      BY <1>0, <1>6, <2>1, <2>3 DEF CopyOut, SnapshotAt, SnapshotRecord, SnapshotMoves, Halves
    <3>2. publishedStats[s.buffer].first = publishedStats[s.buffer].second
      <4>1. publisher.at = "second" => publisher.buffer # s.buffer
        BY <2>3 DEF StatsInv, WritesApart, Copying
      <4> QED
        BY <1>0, <4>1 DEF StatsInv, BuffersWhole, SnapshotRecord
    <3>3. t.copy.first = t.copy.second
      BY <2>3, <3>1, <3>2 DEF StatsInv, CopyIsOfBuffer
    <3> HIDE DEF t
    <3>4. PinsCounted' /\ snapshotReaders' \in [Buffers -> Nat]
      BY <1>0, <1>2, <2>3, <3>1 DEF CountsFor
    <3> QED
      BY <1>1, <2>3, <3>1, <3>3, <3>4, SnapshotStep DEF Copying
  <2> QED
    BY <1>6, <2>2, <2>3 DEF CopyOut, SnapshotAt
<1>7. CASE UnpinBuffer(r)
  <2>1. NotReading \in SnapshotRecord /\ NotReading.at = "idle" /\ s.at = "unpin"
        /\ SnapshotMoves(r, NotReading)
        /\ snapshotReaders' = [snapshotReaders EXCEPT ![s.buffer] = @ + -1]
    BY <1>0, <1>7 DEF UnpinBuffer, SnapshotAt, SnapshotRecord, Pins, NotReading, Halves, Buffers
  <2>2. PinsCounted' /\ snapshotReaders' \in [Buffers -> Nat]
    BY <1>0, <1>2, <2>1 DEF CountsFor, SnapshotRecord
  <2> QED
    BY <1>1, <2>1, <2>2, SnapshotStep
<1> QED
  BY <1>3, <1>4, <1>5, <1>6, <1>7

LEMMA StatsNextInv == StatsInv /\ [StatsNext]_statsVars => StatsInv'
<1>1. StatsInv /\ UNCHANGED statsVars => StatsInv'
  <2> SUFFICES ASSUME StatsInv, UNCHANGED statsVars PROVE StatsInv'
    OBVIOUS
  <2>1. PinsCounted'
    BY PinsKept DEF StatsInv, statsVars
  <2> QED
    BY <2>1 DEF StatsInv, StatsTypeOK, WritesApart, BuffersWhole, CopyIsOfBuffer, Copying, statsVars
<1> QED
  BY <1>1, PublisherKeepsStats, ReaderKeepsStats DEF StatsNext

\* What snapshotStats returns is one published sample, for any number of readers.
THEOREM StatsReadWhole == StatsSpec => []StatsAreWhole
<1>1. StatsInv => StatsAreWhole
  BY DEF StatsInv, CopyIsOfBuffer, StatsAreWhole
<1> QED
  BY <1>1, StatsInitInv, StatsNextInv, PTL DEF StatsSpec
-----------------------------------------------------------------------------
(* The observation tables are stable under their readers, for any set of frame *)
(* identities. Whoever changes a table is on core 0, where ss_ui does not run   *)
(* while ss_app is in an update, and of the updates that hold the application   *)
(* lock only one is under way. So while a task is in an update and runs, the    *)
(* other rests or is ss_ui in the one update that takes no lock, which concerns *)
(* the operator's filter alone; and a table chosen with nobody inside stays the *)
(* inactive one until it is complete.                                           *)

UpdateRecord ==
    [at: Place, what: {"none", "observe", "subscribe", "rebind"}, kind: Kind, keys: SUBSET Key,
     mode: Mode, table: 0..1]

LookupRecord ==
    [at: {"idle", "mandatory", "search mandatory", "mode", "specific", "search specific", "leave"},
     key: Key \union {"none"}, table: 0..1]

TablesTyped ==
    /\ tables \in [Kind -> [0..1 -> SUBSET Key]]
    /\ activeTable \in [Kind -> 0..1]
    /\ update \in [Task -> UpdateRecord]
    /\ lookup \in LookupRecord
    /\ overtaken \in BOOLEAN

Busy(t) == update[t].at # "idle"
Locked(t) == Busy(t) /\ update[t].what # "observe"
CopiersOf(t) == IF update[t].at = "copy" THEN 1 ELSE 0

\* readers_ counts the CAN task in a lookup and whoever copies the mandatory table.
ReadersCounted ==
    tableReaders = (IF lookup.at = "idle" THEN 0 ELSE 1) + CopiersOf("ss_ui") + CopiersOf("ss_app")

\* What each kind of update is, and that only one of them holds the lock.
Roles ==
    /\ \A t \in Task : Busy(t) =>
         /\ update[t].what # "none"
         /\ update[t].what = "observe" => t = "ss_ui" /\ update[t].kind = "specific"
         /\ update[t].what = "subscribe" => update[t].kind = "mandatory"
         /\ update[t].what = "rebind" => update[t].keys = {}
         /\ update[t].at \in {"snapshot", "copy"} => update[t].what = "subscribe"
    /\ ~(Locked("ss_ui") /\ Locked("ss_app"))
    /\ Busy("ss_ui") /\ Busy("ss_app") /\ update["ss_app"].what = "rebind" => overtaken

\* The one case in which a table being filled can be the active one.
Excused(t) == overtaken /\ t = "ss_ui" /\ update[t].kind = "specific"

\* The table in hand is the inactive one, and a lookup is in the other.
HandsOff ==
    \A t \in Task : update[t].at \in {"clear", "fill", "swap"} /\ ~Excused(t) =>
        /\ update[t].table = 1 - activeTable[update[t].kind]
        /\ Searching(update[t].kind) => lookup.table = activeTable[update[t].kind]

\* What an update of the mandatory table carries over.
Carried(t) ==
    /\ update[t].what = "rebind" => required = {}
    /\ update[t].what \in {"subscribe", "rebind"} /\ update[t].at \in {"wait", "clear", "fill", "swap"} =>
         required \subseteq update[t].keys
    /\ update[t].what \in {"subscribe", "rebind"} /\ update[t].kind = "mandatory"
       /\ update[t].at = "swap" => tables["mandatory"][update[t].table] = update[t].keys
    /\ update[t].what = "subscribe" /\ update[t].at = "end" =>
         update[t].keys \subseteq tables["mandatory"][activeTable["mandatory"]]

ObservationInv ==
    /\ TablesTyped /\ ReadersCounted /\ Roles /\ HandsOff /\ MandatoryKept
    /\ \A t \in Task : Busy(t) => Carried(t)

LEMMA ObservationInitInv == ObservationInit => ObservationInv
<1> SUFFICES ASSUME ObservationInit PROVE ObservationInv
  OBVIOUS
<1>1. \A t \in Task : update[t] = NoUpdate /\ ~Busy(t) /\ CopiersOf(t) = 0
  BY DEF ObservationInit, Busy, CopiersOf, NoUpdate
<1>2. NoUpdate \in UpdateRecord /\ NoUpdate.at = "idle"
  BY DEF NoUpdate, UpdateRecord, Place, Kind, Mode
<1>3. TablesTyped
  <2>1. lookup \in LookupRecord
    BY DEF ObservationInit, NoLookup, LookupRecord
  <2>2. update \in [Task -> UpdateRecord]
    BY <1>2 DEF ObservationInit
  <2>3. tables \in [Kind -> [0..1 -> SUBSET Key]] /\ activeTable \in [Kind -> 0..1]
    BY DEF ObservationInit
  <2>4. overtaken \in BOOLEAN
    BY DEF ObservationInit
  <2> QED
    BY <2>1, <2>2, <2>3, <2>4 DEF TablesTyped
<1>4. ReadersCounted
  <2>1. CopiersOf("ss_ui") = 0 /\ CopiersOf("ss_app") = 0
    BY <1>1 DEF Task
  <2> QED
    BY <2>1 DEF ObservationInit, ReadersCounted, NoLookup
<1>5. Roles /\ HandsOff /\ MandatoryKept
  BY <1>1, <1>2 DEF ObservationInit, Roles, Locked, HandsOff, MandatoryKept, Task
<1> QED
  BY <1>1, <1>3, <1>4, <1>5 DEF ObservationInv

\* The consequences: what ObservationIsStable says.
LEMMA ObservationInvImplies == ObservationInv => ObservationIsStable
<1> SUFFICES ASSUME ObservationInv PROVE ObservationIsStable
  OBVIOUS
<1>1. SearchedTableRests
  <2> SUFFICES ASSUME NEW t \in Task, Rebuilding(t), ~Excused(t), Searching(update[t].kind)
               PROVE  lookup.table # update[t].table
    BY DEF SearchedTableRests, Excused
  <2>1. update[t].kind \in Kind /\ activeTable[update[t].kind] \in 0..1
    BY DEF ObservationInv, TablesTyped, UpdateRecord
  <2>2. /\ update[t].table = 1 - activeTable[update[t].kind]
        /\ lookup.table = activeTable[update[t].kind]
    BY DEF ObservationInv, HandsOff, Rebuilding
  <2> QED
    BY <2>1, <2>2
<1>2. WaitsForCanOnly
  <2> SUFFICES ASSUME NEW t \in Task, update[t].at = "wait", Runs(t)
               PROVE  CopiersOf("ss_ui") = 0 /\ CopiersOf("ss_app") = 0
    BY DEF ObservationInv, ReadersCounted, WaitsForCanOnly
  <2> QED
    BY DEF ObservationInv, Roles, Locked, Busy, CopiersOf, Task, Runs
<1> QED
  BY <1>1, <1>2 DEF ObservationInv, ObservationIsStable
-----------------------------------------------------------------------------
(* The CAN task *)

LEMMA ObservingStep == ObservationInv /\ Observing => ObservationInv'
<1> SUFFICES ASSUME ObservationInv, Observing PROVE ObservationInv'
  OBVIOUS
<1>0. UNCHANGED <<tables, activeTable, observationMode, update, required, overtaken>>
  BY DEF Observing, EnterLookup, LoadTable, SearchTable, ReadMode, LeaveLookup, LookupAt
<1>1. /\ CopiersOf("ss_ui") \in 0..1 /\ CopiersOf("ss_app") \in 0..1 /\ lookup \in LookupRecord
      /\ tableReaders = (IF lookup.at = "idle" THEN 0 ELSE 1) + CopiersOf("ss_ui") + CopiersOf("ss_app")
      /\ \A kind \in Kind : activeTable[kind] \in 0..1
  BY DEF ObservationInv, ReadersCounted, CopiersOf, TablesTyped
<1>2. /\ lookup' \in LookupRecord
      /\ tableReaders' = (IF lookup'.at = "idle" THEN 0 ELSE 1) + CopiersOf("ss_ui") + CopiersOf("ss_app")
      /\ \A kind \in Kind : Searching(kind)' => lookup'.table = activeTable[kind]
  <2> DEFINE Count(l) == (IF l.at = "idle" THEN 0 ELSE 1) + CopiersOf("ss_ui") + CopiersOf("ss_app")
  <2> DEFINE Goal == /\ lookup' \in LookupRecord /\ tableReaders' = Count(lookup')
                    /\ \A kind \in Kind : Searching(kind)' => lookup'.table = activeTable[kind]
  <2>1. ASSUME NEW k \in Key, EnterLookup(k) PROVE Goal
    <3>1. lookup' = [at |-> "mandatory", key |-> k, table |-> 0]
      BY <2>1 DEF EnterLookup, NoLookup
    <3>2. lookup' \in LookupRecord
      BY <3>1 DEF LookupRecord
    <3> QED
      BY <1>1, <2>1, <3>1, <3>2 DEF EnterLookup, LookupAt, Searching, Kind
  <2>2. ASSUME LoadTable PROVE Goal
    <3>1. CASE lookup.at = "mandatory"
      BY <1>1, <2>2, <3>1 DEF LoadTable, LookupAt, LookupRecord, Searching, Kind
    <3>2. CASE lookup.at = "specific"
      BY <1>1, <2>2, <3>2 DEF LoadTable, LookupAt, LookupRecord, Searching, Kind
    <3> QED
      BY <2>2, <3>1, <3>2 DEF LoadTable, LookupAt
  <2>3. ASSUME SearchTable \/ ReadMode PROVE Goal
    <3>1. \/ lookup' = [at |-> "mode", key |-> lookup.key, table |-> 0]
          \/ lookup' = [at |-> "specific", key |-> lookup.key, table |-> 0]
          \/ lookup' = [at |-> "leave", key |-> "none", table |-> 0]
      BY <2>3 DEF SearchTable, ReadMode, LookupTo, Answers, NoLookup
    <3>4. lookup.key \in Key \union {"none"}
      BY <1>1 DEF LookupRecord
    <3>2. lookup' \in LookupRecord /\ lookup'.at \in {"mode", "specific", "leave"}
      <4>1. CASE lookup' = [at |-> "mode", key |-> lookup.key, table |-> 0]
        BY <3>4, <4>1 DEF LookupRecord
      <4>2. CASE lookup' = [at |-> "specific", key |-> lookup.key, table |-> 0]
        BY <3>4, <4>2 DEF LookupRecord
      <4>3. CASE lookup' = [at |-> "leave", key |-> "none", table |-> 0]
        BY <4>3 DEF LookupRecord
      <4> QED
        BY <3>1, <4>1, <4>2, <4>3
    <3>3. tableReaders' = tableReaders /\ lookup.at # "idle"
      BY <2>3 DEF SearchTable, ReadMode, LookupAt
    <3> QED
      BY <1>1, <3>2, <3>3 DEF Searching, Kind
  <2>5. ASSUME LeaveLookup PROVE Goal
    <3>1. lookup' = [at |-> "idle", key |-> "none", table |-> 0] /\ lookup.at = "leave"
          /\ tableReaders' = tableReaders - 1
      BY <2>5 DEF LeaveLookup, LookupAt, NoLookup
    <3>2. lookup' \in LookupRecord
      BY <3>1 DEF LookupRecord
    <3> QED
      BY <1>1, <3>1, <3>2 DEF Searching, Kind
  <2> QED
    BY <2>1, <2>2, <2>3, <2>5 DEF Observing
<1>3. TablesTyped' /\ ReadersCounted'
  BY <1>0, <1>2 DEF ObservationInv, TablesTyped, ReadersCounted, CopiersOf
<1>4. Roles' /\ MandatoryKept' /\ \A t \in Task : Busy(t)' => Carried(t)'
  BY <1>0 DEF ObservationInv, Roles, MandatoryKept, Busy, Locked, Carried
<1>5. HandsOff'
  <2>1. \A t \in Task : update[t].kind \in Kind
    BY DEF ObservationInv, TablesTyped, UpdateRecord
  <2> QED
    BY <1>0, <1>2, <2>1 DEF ObservationInv, HandsOff, Excused
<1> QED
  BY <1>3, <1>4, <1>5 DEF ObservationInv
-----------------------------------------------------------------------------
(* Updates *)

Other(t) == IF t = "ss_ui" THEN "ss_app" ELSE "ss_ui"

\* Whoever runs in an update finds the other at rest, or ss_ui in an update of the filter.
LEMMA OtherRests ==
    ASSUME ObservationInv, NEW t \in Task, Runs(t), Busy(t)
    PROVE  /\ Other(t) \in Task /\ Other(t) # t /\ \A q \in Task : q = t \/ q = Other(t)
           /\ \/ ~Busy(Other(t))
              \/ /\ t = "ss_app" /\ Other(t) = "ss_ui" /\ Locked(t)
                 /\ update[Other(t)].what = "observe" /\ update[Other(t)].kind = "specific"
  BY DEF ObservationInv, Roles, Task, Other, Runs, Busy, Locked

LEMMA UpdatesTyped ==
    ASSUME ObservationInv, NEW t \in Task
    PROVE  /\ update[t] \in UpdateRecord /\ update[t].kind \in Kind /\ update[t].table \in 0..1
           /\ update[t].keys \subseteq Key
           /\ \A kind \in Kind : activeTable[kind] \in 0..1 /\ tables[kind] \in [0..1 -> SUBSET Key]
           /\ lookup \in LookupRecord /\ "mandatory" \in Kind /\ "specific" \in Kind
  BY DEF ObservationInv, TablesTyped, UpdateRecord, Kind

\* The counting: only the task that moves can change it.
LEMMA CountFollows ==
    ASSUME ObservationInv, NEW t \in Task, NEW u \in UpdateRecord, UNCHANGED lookup,
           update' = [update EXCEPT ![t] = u],
           tableReaders' = tableReaders + (IF u.at = "copy" THEN 1 ELSE 0) - CopiersOf(t)
    PROVE  ReadersCounted' /\ update' \in [Task -> UpdateRecord]
<1>1. /\ CopiersOf("ss_ui") \in 0..1 /\ CopiersOf("ss_app") \in 0..1
      /\ tableReaders = (IF lookup.at = "idle" THEN 0 ELSE 1) + CopiersOf("ss_ui") + CopiersOf("ss_app")
      /\ update \in [Task -> UpdateRecord]
  BY DEF ObservationInv, ReadersCounted, CopiersOf, TablesTyped
<1>2. update' \in [Task -> UpdateRecord] /\ \A q \in Task : update'[q] = IF q = t THEN u ELSE update[q]
  BY <1>1
<1>3. CASE t = "ss_ui"
  BY <1>1, <1>2, <1>3 DEF ReadersCounted, CopiersOf, Task
<1>4. CASE t = "ss_app"
  BY <1>1, <1>2, <1>4 DEF ReadersCounted, CopiersOf, Task
<1> QED
  BY <1>2, <1>3, <1>4 DEF Task

\* An update begins with the choice of a role.
LEMMA BeginStep ==
    ASSUME ObservationInv, NEW t \in Task, NEW u \in UpdateRecord, Begin(t, u),
           u.at \in {"snapshot", "wait"}, u.what \in {"observe", "subscribe", "rebind"},
           u.what = "observe" => t = "ss_ui" /\ u.kind = "specific",
           u.what = "subscribe" => u.kind = "mandatory" /\ u.at = "snapshot",
           u.what = "rebind" => u.keys = {} /\ u.at = "wait",
           u.what = "observe" => u.at = "wait",
           u.what # "observe" => ~LockHeld,
           required' = IF u.what = "rebind" THEN {} ELSE required
    PROVE  ObservationInv'
<1>0. /\ UNCHANGED <<tables, activeTable, observationMode, tableReaders, lookup>>
      /\ update' = [update EXCEPT ![t] = u] /\ update[t].at = "idle" /\ Runs(t)
      /\ overtaken' = (overtaken \/ (t = "ss_app" /\ u.what = "rebind" /\ update["ss_ui"].at # "idle"))
  BY DEF Begin, UpdateAt
<1>1. ReadersCounted' /\ update' \in [Task -> UpdateRecord]
  <2>1. tableReaders \in Int /\ CopiersOf(t) = 0
    BY <1>0 DEF CopiersOf, ObservationInv, ReadersCounted
  <2>2. tableReaders' = tableReaders + (IF u.at = "copy" THEN 1 ELSE 0) - CopiersOf(t)
    BY <1>0, <2>1
  <2> QED
    BY <1>0, <2>2, CountFollows
<1>2. \A q \in Task : update'[q] = IF q = t THEN u ELSE update[q]
  BY <1>0 DEF ObservationInv, TablesTyped
<1>3. TablesTyped'
  BY <1>0, <1>1 DEF ObservationInv, TablesTyped
<1>4. Roles'
  BY <1>0, <1>2, ZenonT(60) DEF ObservationInv, Roles, Busy, Locked, LockHeld, Task, Runs
<1>5. HandsOff'
  <2> SUFFICES ASSUME NEW q \in Task, update'[q].at \in {"clear", "fill", "swap"}, ~Excused(q)'
               PROVE  /\ update'[q].table = 1 - activeTable'[update'[q].kind]
                      /\ Searching(update[q].kind)' => lookup'.table = activeTable'[update[q].kind]
    BY <1>2 DEF HandsOff, Searching
  <2>1. update'[q] = update[q]
    BY <1>2
  <2>2. overtaken => overtaken'
    BY <1>0
  <2>3. ~Excused(q)
    BY <2>1, <2>2 DEF Excused
  <2> QED
    BY <1>0, <2>1, <2>3 DEF ObservationInv, HandsOff, Searching
<1>6. MandatoryKept'
  BY <1>0 DEF ObservationInv, MandatoryKept
<1>7. \A q \in Task : Busy(q)' => Carried(q)'
  BY <1>0, <1>2 DEF ObservationInv, Busy, Carried, LockHeld
<1> QED
  BY <1>1, <1>3, <1>4, <1>5, <1>6, <1>7 DEF ObservationInv

LEMMA BeginObserveStep ==
    ASSUME ObservationInv, NEW keys \in SUBSET Key, NEW mode \in Mode, BeginObserve(keys, mode)
    PROVE  ObservationInv'
<1> DEFINE m == IF mode = "specific" /\ keys = {} THEN "none" ELSE mode
<1> DEFINE u == [NoUpdate EXCEPT !.at = "wait", !.what = "observe", !.keys = keys, !.mode = m]
<1>0. u = [NoUpdate EXCEPT !.at = "wait", !.what = "observe", !.keys = keys, !.mode = m]
  OBVIOUS
<1>1. Begin("ss_ui", u) /\ UNCHANGED required
  BY DEF BeginObserve
<1>2. m \in Mode
  BY DEF Mode
<1> HIDE DEF u, m
<1>3. u = [at |-> "wait", what |-> "observe", kind |-> "specific", keys |-> keys, mode |-> m,
           table |-> 0]
  BY <1>0 DEF NoUpdate
<1>4. u \in UpdateRecord /\ "ss_ui" \in Task
  BY <1>2, <1>3 DEF UpdateRecord, Place, Kind, Task
<1> QED
  BY <1>1, <1>3, <1>4, BeginStep

LEMMA BeginSubscribeStep ==
    ASSUME ObservationInv, NEW t \in Task, NEW k \in Key, BeginSubscribe(t, k)
    PROVE  ObservationInv'
<1> DEFINE u == [NoUpdate EXCEPT !.at = "snapshot", !.what = "subscribe", !.kind = "mandatory",
                                 !.keys = {k}]
<1>0. u = [NoUpdate EXCEPT !.at = "snapshot", !.what = "subscribe", !.kind = "mandatory",
                           !.keys = {k}]
  OBVIOUS
<1>1. Begin(t, u) /\ UNCHANGED required /\ ~LockHeld
  BY DEF BeginSubscribe
<1> HIDE DEF u
<1>2. u = [at |-> "snapshot", what |-> "subscribe", kind |-> "mandatory", keys |-> {k},
           mode |-> "none", table |-> 0]
  BY <1>0 DEF NoUpdate
<1>3. u \in UpdateRecord
  BY <1>2 DEF UpdateRecord, Place, Kind, Mode
<1> QED
  BY <1>1, <1>2, <1>3, BeginStep

LEMMA BeginRebindStep ==
    ASSUME ObservationInv, NEW t \in Task, BeginRebind(t)
    PROVE  ObservationInv'
<1> DEFINE u == [NoUpdate EXCEPT !.at = "wait", !.what = "rebind"]
<1>0. u = [NoUpdate EXCEPT !.at = "wait", !.what = "rebind"]
  OBVIOUS
<1>1. Begin(t, u) /\ required' = {} /\ ~LockHeld
  BY DEF BeginRebind
<1> HIDE DEF u
<1>2. u = [at |-> "wait", what |-> "rebind", kind |-> "specific", keys |-> {}, mode |-> "none",
           table |-> 0]
  BY <1>0 DEF NoUpdate
<1>3. u \in UpdateRecord
  BY <1>2 DEF UpdateRecord, Place, Kind, Mode
<1> QED
  BY <1>1, <1>2, <1>3, BeginStep

\* A step within an update that leaves the tables alone.
LEMMA QuietStep ==
    ASSUME ObservationInv, NEW t \in Task, NEW u \in UpdateRecord, Runs(t), Busy(t),
           update' = [update EXCEPT ![t] = u],
           UNCHANGED <<tables, activeTable, lookup, required, overtaken>>,
           tableReaders' = tableReaders + (IF u.at = "copy" THEN 1 ELSE 0) - CopiersOf(t),
           u.what = update[t].what, u.kind = update[t].kind, u.at # "idle",
           u.at \in {"snapshot", "copy"} => u.what = "subscribe",
           u.what = "rebind" => u.keys = {},
           u.at \in {"clear", "fill", "swap"} =>
             /\ u.table = 1 - activeTable[u.kind]
             /\ Searching(u.kind) => lookup.table = activeTable[u.kind],
           u.what \in {"subscribe", "rebind"} /\ u.at \in {"wait", "clear", "fill", "swap"} =>
             required \subseteq u.keys,
           u.at # "swap",
           u.what = "subscribe" /\ u.at = "end" =>
             u.keys \subseteq tables["mandatory"][activeTable["mandatory"]]
    PROVE  ObservationInv'
<1>1. ReadersCounted' /\ update' \in [Task -> UpdateRecord]
  BY CountFollows
<1>2. \A q \in Task : update'[q] = IF q = t THEN u ELSE update[q]
  BY DEF ObservationInv, TablesTyped
<1>3. TablesTyped'
  BY <1>1 DEF ObservationInv, TablesTyped
<1>4. Roles'
  BY <1>2 DEF ObservationInv, Roles, Busy, Locked, Task
<1>5. HandsOff'
  <2> SUFFICES ASSUME NEW q \in Task, update'[q].at \in {"clear", "fill", "swap"}, ~Excused(q)'
               PROVE  /\ update'[q].table = 1 - activeTable[update'[q].kind]
                      /\ Searching(update'[q].kind) => lookup.table = activeTable[update'[q].kind]
    BY <1>2 DEF HandsOff, Searching
  <2>1. CASE q = t
    BY <1>2, <2>1
  <2>2. CASE q # t
    <3>1. update'[q] = update[q] /\ ~Excused(q)
      BY <1>2, <2>2 DEF Excused
    <3> QED
      BY <3>1 DEF ObservationInv, HandsOff
  <2> QED
    BY <2>1, <2>2
<1>6. MandatoryKept'
  BY DEF ObservationInv, MandatoryKept
<1>7. \A q \in Task : Busy(q)' => Carried(q)'
  BY <1>2 DEF ObservationInv, Busy, Carried
<1> QED
  BY <1>1, <1>3, <1>4, <1>5, <1>6, <1>7 DEF ObservationInv

LEMMA EnterSnapshotStep ==
    ASSUME ObservationInv, NEW t \in Task, EnterSnapshot(t)
    PROVE  ObservationInv'
<1> DEFINE u == [update[t] EXCEPT !.at = "copy"]
<1>1. /\ u \in UpdateRecord /\ u.at = "copy" /\ u.what = update[t].what /\ u.kind = update[t].kind
      /\ u.keys = update[t].keys
  BY UpdatesTyped DEF UpdateRecord, Place
<1>2. update' = [update EXCEPT ![t] = u]
  BY DEF EnterSnapshot, UpdateTo
<1> HIDE DEF u
<1>3. /\ Runs(t) /\ Busy(t) /\ update[t].at = "snapshot" /\ CopiersOf(t) = 0
      /\ UNCHANGED <<tables, activeTable, lookup, required, overtaken>>
      /\ tableReaders' = tableReaders + 1
  BY DEF EnterSnapshot, UpdateAt, Busy, CopiersOf
<1>4. update[t].what = "subscribe" /\ tableReaders \in Int
  BY <1>3 DEF ObservationInv, Roles, ReadersCounted, CopiersOf
<1>5. tableReaders' = tableReaders + 1 - CopiersOf(t)
  BY <1>3, <1>4
<1> QED
  BY <1>1, <1>2, <1>3, <1>4, <1>5, QuietStep

LEMMA CopySnapshotStep ==
    ASSUME ObservationInv, NEW t \in Task, CopySnapshot(t)
    PROVE  ObservationInv'
<1> DEFINE present == tables["mandatory"][activeTable["mandatory"]]
<1>1. /\ Runs(t) /\ Busy(t) /\ update[t].at = "copy" /\ CopiersOf(t) = 1
      /\ UNCHANGED <<tables, activeTable, lookup, required, overtaken>>
      /\ tableReaders' = tableReaders - 1
  BY DEF CopySnapshot, UpdateAt, Busy, CopiersOf
<1>2. update[t].what = "subscribe" /\ tableReaders \in Int
  BY <1>1 DEF ObservationInv, Roles, ReadersCounted, CopiersOf
<1>3. tableReaders' = tableReaders + 0 - CopiersOf(t)
  BY <1>1, <1>2
<1>4. present \subseteq Key /\ required \subseteq present /\ update[t].keys \subseteq Key
  BY UpdatesTyped DEF ObservationInv, MandatoryKept
<1>5. CASE update[t].keys \subseteq present
  <2> DEFINE u == [update[t] EXCEPT !.at = "end"]
  <2>1. /\ u \in UpdateRecord /\ u.at = "end" /\ u.what = update[t].what
        /\ u.kind = update[t].kind /\ u.keys = update[t].keys
    BY UpdatesTyped DEF UpdateRecord, Place
  <2>2. update' = [update EXCEPT ![t] = u]
    BY <1>5 DEF CopySnapshot, UpdateTo
  <2> HIDE DEF u
  <2> QED
    BY <1>1, <1>2, <1>3, <1>5, <2>1, <2>2, QuietStep
<1>6. CASE ~(update[t].keys \subseteq present)
  <2> DEFINE u == [update[t] EXCEPT !.at = "wait", !.keys = present \union update[t].keys]
  <2>1. /\ u \in UpdateRecord /\ u.at = "wait" /\ u.what = update[t].what
        /\ u.kind = update[t].kind /\ u.keys = present \union update[t].keys
    <3> HIDE DEF present
    <3> QED BY <1>4, UpdatesTyped DEF UpdateRecord, Place
  <2>2. update' = [update EXCEPT ![t] = u]
    BY <1>6, UpdatesTyped DEF CopySnapshot, ObservationInv, TablesTyped, UpdateRecord
  <2> HIDE DEF u
  <2> QED
    BY <1>1, <1>2, <1>3, <1>4, <2>1, <2>2, QuietStep
<1> QED
  BY <1>5, <1>6

LEMMA WaitStep ==
    ASSUME ObservationInv, NEW t \in Task, WaitForReaders(t)
    PROVE  ObservationInv'
<1> DEFINE table == 1 - activeTable[update[t].kind]
<1> DEFINE u == [update[t] EXCEPT !.at = "clear", !.table = table]
<1>1. /\ Runs(t) /\ Busy(t) /\ update[t].at = "wait" /\ CopiersOf(t) = 0 /\ tableReaders = 0
      /\ UNCHANGED <<tables, activeTable, lookup, required, overtaken, tableReaders>>
  BY DEF WaitForReaders, UpdateAt, Busy, CopiersOf
<1>2. lookup.at = "idle"
  BY <1>1 DEF ObservationInv, ReadersCounted, CopiersOf
<1>3. table \in 0..1
  BY UpdatesTyped
<1>4. /\ u \in UpdateRecord /\ u.at = "clear" /\ u.what = update[t].what
      /\ u.kind = update[t].kind /\ u.keys = update[t].keys /\ u.table = table
  <2> HIDE DEF table
  <2> QED BY <1>3, UpdatesTyped DEF UpdateRecord, Place
<1>5. update' = [update EXCEPT ![t] = u]
  BY UpdatesTyped DEF WaitForReaders, ObservationInv, TablesTyped, UpdateRecord
<1>6. ~Searching(u.kind)
  BY <1>2 DEF Searching
<1>7. Carried(t) /\ (update[t].what = "rebind" => update[t].keys = {})
  BY <1>1 DEF ObservationInv, Roles
<1>8. tableReaders' = tableReaders + 0 - CopiersOf(t)
  BY <1>1
<1> HIDE DEF u
<1> QED
  BY <1>1, <1>4, <1>5, <1>6, <1>7, <1>8, QuietStep DEF Carried

\* Clearing or filling the table in hand.
LEMMA RebuildStep ==
    ASSUME ObservationInv, NEW t \in Task, NEW u \in UpdateRecord, NEW content \in SUBSET Key,
           Runs(t), update[t].at \in {"clear", "fill"},
           update' = [update EXCEPT ![t] = u],
           tables' = [tables EXCEPT ![update[t].kind][update[t].table] = content],
           UNCHANGED <<activeTable, lookup, required, overtaken, tableReaders>>,
           u.at \in {"fill", "swap"}, u.what = update[t].what, u.kind = update[t].kind,
           u.keys = update[t].keys, u.table = update[t].table,
           u.at = "swap" => content = u.keys
    PROVE  ObservationInv'
<1>0. Busy(t) /\ CopiersOf(t) = 0 /\ Carried(t) /\ tableReaders \in Int
  BY DEF Busy, CopiersOf, ObservationInv, ReadersCounted
<1>1. tableReaders' = tableReaders + 0 - CopiersOf(t)
  BY <1>0
<1>2. ReadersCounted' /\ update' \in [Task -> UpdateRecord]
  BY <1>1, CountFollows
<1>3. \A q \in Task : update'[q] = IF q = t THEN u ELSE update[q]
  BY DEF ObservationInv, TablesTyped
<1>4. tables' \in [Kind -> [0..1 -> SUBSET Key]]
  BY UpdatesTyped DEF ObservationInv, TablesTyped
<1>5. /\ tables'[update[t].kind] = [tables[update[t].kind] EXCEPT ![update[t].table] = content]
      /\ \A kind \in Kind : kind # update[t].kind => tables'[kind] = tables[kind]
  BY UpdatesTyped DEF ObservationInv, TablesTyped
<1>6. TablesTyped'
  BY <1>2, <1>4 DEF ObservationInv, TablesTyped
<1>7. Roles'
  BY <1>0, <1>3 DEF ObservationInv, Roles, Busy, Locked, Task
<1>8. HandsOff'
  <2> SUFFICES ASSUME NEW q \in Task, update'[q].at \in {"clear", "fill", "swap"}, ~Excused(q)'
               PROVE  /\ update'[q].table = 1 - activeTable[update'[q].kind]
                      /\ Searching(update'[q].kind) => lookup.table = activeTable[update'[q].kind]
    BY <1>3 DEF HandsOff, Searching
  <2>1. ~Excused(q)
    BY <1>3 DEF Excused
  <2> QED
    BY <1>3, <2>1 DEF ObservationInv, HandsOff
<1>9. tables'["mandatory"][activeTable["mandatory"]] = tables["mandatory"][activeTable["mandatory"]]
  <2>1. CASE update[t].kind = "mandatory"
    <3>1. update[t].table = 1 - activeTable["mandatory"] /\ activeTable["mandatory"] \in 0..1
      BY <2>1, UpdatesTyped DEF ObservationInv, HandsOff, Excused
    <3>2. update[t].table # activeTable["mandatory"]
      BY <3>1
    <3> QED
      BY <1>5, <2>1, <3>1, <3>2, UpdatesTyped
  <2> QED
    BY <1>5, <2>1, UpdatesTyped
<1>10. MandatoryKept'
  BY <1>9 DEF ObservationInv, MandatoryKept
<1>11. \A q \in Task : Busy(q)' => Carried(q)'
  <2>1. Carried(t)'
    BY <1>0, <1>3, <1>5, UpdatesTyped DEF Carried
  <2>2. ASSUME NEW q \in Task, q # t, Busy(q)' PROVE Carried(q)'
    BY <1>0, <1>3, <2>2, OtherRests DEF Carried, Busy
  <2> QED
    BY <2>1, <2>2
<1> QED
  BY <1>2, <1>6, <1>7, <1>8, <1>10, <1>11 DEF ObservationInv

LEMMA ClearFillStep ==
    ASSUME ObservationInv, NEW t \in Task, ClearTable(t) \/ FillTable(t)
    PROVE  ObservationInv'
<1> DEFINE place == IF update[t].at = "clear" THEN "fill" ELSE "swap"
<1> DEFINE content == IF update[t].at = "clear" THEN {} ELSE update[t].keys
<1> DEFINE u == [update[t] EXCEPT !.at = place]
<1>1. /\ Runs(t) /\ update[t].at \in {"clear", "fill"}
      /\ UNCHANGED <<activeTable, lookup, required, overtaken, tableReaders>>
      /\ tables' = [tables EXCEPT ![update[t].kind][update[t].table] = content]
      /\ update' = [update EXCEPT ![t] = u]
  BY DEF ClearTable, FillTable, UpdateAt, UpdateTo
<1>2. content \in SUBSET Key /\ place \in {"fill", "swap"} /\ (place = "swap" => content = update[t].keys)
  BY UpdatesTyped
<1>3. /\ u \in UpdateRecord /\ u.at = place /\ u.what = update[t].what /\ u.kind = update[t].kind
      /\ u.keys = update[t].keys /\ u.table = update[t].table
  <2> HIDE DEF place
  <2> QED BY <1>2, UpdatesTyped DEF UpdateRecord, Place
<1> HIDE DEF u, content, place
<1> QED
  BY <1>1, <1>2, <1>3, RebuildStep

LEMMA SwapStep ==
    ASSUME ObservationInv, NEW t \in Task, SwapTable(t)
    PROVE  ObservationInv'
<1> DEFINE again == update[t].what = "rebind" /\ update[t].kind = "specific"
<1> DEFINE u == IF again THEN [update[t] EXCEPT !.at = "wait", !.kind = "mandatory"]
                         ELSE [update[t] EXCEPT !.at = "end"]
<1>1. /\ Runs(t) /\ Busy(t) /\ update[t].at = "swap" /\ CopiersOf(t) = 0
      /\ activeTable' = [activeTable EXCEPT ![update[t].kind] = 1 - @]
      /\ update' = [update EXCEPT ![t] = u]
      /\ UNCHANGED <<tables, tableReaders, lookup, required, overtaken>>
  <2>1. update' = [update EXCEPT ![t] = u]
    BY UpdatesTyped DEF SwapTable, UpdateTo, ObservationInv, TablesTyped, UpdateRecord
  <2> QED
    BY <2>1 DEF SwapTable, UpdateAt, Busy, CopiersOf
<1>2. /\ u \in UpdateRecord /\ u.what = update[t].what /\ u.keys = update[t].keys
      /\ u.table = update[t].table
      /\ u.at = IF again THEN "wait" ELSE "end"
      /\ u.kind = IF again THEN "mandatory" ELSE update[t].kind
  <2>1. CASE again
    BY <2>1, UpdatesTyped DEF UpdateRecord, Place
  <2>2. CASE ~again
    BY <2>2, UpdatesTyped DEF UpdateRecord, Place
  <2> QED
    BY <2>1, <2>2
<1> HIDE DEF u
<1>3. Carried(t) /\ tableReaders \in Int
      /\ update[t].what \in {"observe", "subscribe", "rebind"}
      /\ (update[t].what = "observe" => t = "ss_ui" /\ update[t].kind = "specific")
      /\ (update[t].what = "subscribe" => update[t].kind = "mandatory")
      /\ (update[t].what = "rebind" => update[t].keys = {})
  BY <1>1, UpdatesTyped DEF ObservationInv, ReadersCounted, CopiersOf, Roles, UpdateRecord
<1>4. tableReaders' = tableReaders + 0 - CopiersOf(t)
  BY <1>1, <1>3
<1>5. ReadersCounted' /\ update' \in [Task -> UpdateRecord]
  BY <1>1, <1>2, <1>4, CountFollows
<1>6. \A q \in Task : update'[q] = IF q = t THEN u ELSE update[q]
  BY <1>1 DEF ObservationInv, TablesTyped
<1>7. /\ activeTable' \in [Kind -> 0..1]
      /\ activeTable'[update[t].kind] = 1 - activeTable[update[t].kind]
      /\ \A kind \in Kind : kind # update[t].kind => activeTable'[kind] = activeTable[kind]
  <2>1. 1 - activeTable[update[t].kind] \in 0..1
    BY UpdatesTyped
  <2> QED
    BY <1>1, <2>1, UpdatesTyped DEF ObservationInv, TablesTyped
<1>8. TablesTyped'
  BY <1>1, <1>5, <1>7 DEF ObservationInv, TablesTyped
<1>9. Roles'
  BY <1>1, <1>2, <1>3, <1>6 DEF ObservationInv, Roles, Busy, Locked, Task
<1>10. HandsOff'
  <2> SUFFICES ASSUME NEW q \in Task, update'[q].at \in {"clear", "fill", "swap"}, ~Excused(q)'
               PROVE  /\ update'[q].table = 1 - activeTable'[update'[q].kind]
                      /\ Searching(update'[q].kind) => lookup.table = activeTable'[update'[q].kind]
    BY <1>1 DEF HandsOff, Searching
  <2>1. q # t /\ update'[q] = update[q] /\ ~Excused(q)
    BY <1>1, <1>2, <1>6 DEF Excused
  <2>2. t = "ss_app" /\ q = "ss_ui" /\ Locked(t) /\ update[q].kind = "specific"
    BY <1>1, <2>1, OtherRests DEF Busy
  <2>3. update[t].kind = "mandatory"
    BY <1>1, <1>3, <2>1, <2>2, UpdatesTyped DEF Locked, Busy, ObservationInv, Roles, Excused, Kind
  <2>4. activeTable'[update[q].kind] = activeTable[update[q].kind]
    BY <1>7, <2>2, <2>3, UpdatesTyped
  <2> QED
    BY <1>1, <2>1, <2>4 DEF ObservationInv, HandsOff, Searching
<1>11. update[t].kind = "mandatory" =>
         /\ update[t].table = activeTable'["mandatory"] /\ required \subseteq update[t].keys
         /\ tables["mandatory"][activeTable'["mandatory"]] = update[t].keys
  <2> SUFFICES ASSUME update[t].kind = "mandatory"
               PROVE  /\ update[t].table = activeTable'["mandatory"] /\ required \subseteq update[t].keys
                      /\ tables["mandatory"][update[t].table] = update[t].keys
    OBVIOUS
  <2>1. update[t].table = 1 - activeTable["mandatory"]
    BY <1>1 DEF ObservationInv, HandsOff, Excused
  <2>2. update[t].what \in {"subscribe", "rebind"}
    BY <1>3
  <2> QED
    BY <1>1, <1>3, <1>7, <2>1, <2>2 DEF Carried
<1>12. MandatoryKept'
  <2>1. CASE update[t].kind = "mandatory"
    BY <1>1, <1>11, <2>1 DEF MandatoryKept
  <2>2. CASE update[t].kind # "mandatory"
    BY <1>1, <1>7, <2>2, UpdatesTyped DEF MandatoryKept, ObservationInv
  <2> QED
    BY <2>1, <2>2
<1>13. \A q \in Task : Busy(q)' => Carried(q)'
  <2>1. Carried(t)'
    <3>1. u.what = "subscribe" => u.keys \subseteq tables["mandatory"][activeTable'["mandatory"]]
      BY <1>2, <1>3, <1>11
    <3> QED
      BY <1>1, <1>2, <1>3, <1>6, <3>1 DEF Carried
  <2>2. ASSUME NEW q \in Task, q # t, Busy(q)' PROVE Carried(q)'
    BY <1>1, <1>6, <2>2, OtherRests DEF Carried, Busy
  <2> QED
    BY <2>1, <2>2
<1> QED
  BY <1>5, <1>8, <1>9, <1>10, <1>12, <1>13 DEF ObservationInv

LEMMA EndStep ==
    ASSUME ObservationInv, NEW t \in Task, EndUpdate(t)
    PROVE  ObservationInv'
<1>1. /\ Runs(t) /\ Busy(t) /\ update[t].at = "end" /\ CopiersOf(t) = 0
      /\ update' = [update EXCEPT ![t] = NoUpdate]
      /\ required' = IF update[t].what = "subscribe" THEN required \union update[t].keys ELSE required
      /\ UNCHANGED <<tables, activeTable, tableReaders, lookup>>
  BY DEF EndUpdate, UpdateAt, Busy, CopiersOf
<1>2. NoUpdate \in UpdateRecord /\ NoUpdate.at = "idle"
  BY DEF NoUpdate, UpdateRecord, Place, Kind, Mode
<1>3. /\ overtaken' \in BOOLEAN /\ (overtaken' => overtaken)
      /\ t # "ss_ui" /\ overtaken => overtaken'
  BY DEF EndUpdate, ObservationInv, TablesTyped
<1>4. tableReaders \in Int
  BY DEF ObservationInv, ReadersCounted, CopiersOf
<1>5. tableReaders' = tableReaders + 0 - CopiersOf(t)
  BY <1>1, <1>4
<1>6. ReadersCounted' /\ update' \in [Task -> UpdateRecord]
  BY <1>1, <1>2, <1>5, CountFollows
<1>7. \A q \in Task : update'[q] = IF q = t THEN NoUpdate ELSE update[q]
  BY <1>1 DEF ObservationInv, TablesTyped
<1>8. TablesTyped'
  BY <1>1, <1>3, <1>6 DEF ObservationInv, TablesTyped
<1>9. Roles'
  BY <1>2, <1>7 DEF ObservationInv, Roles, Busy, Locked, Task
<1>10. HandsOff'
  <2> SUFFICES ASSUME NEW q \in Task, update'[q].at \in {"clear", "fill", "swap"}, ~Excused(q)'
               PROVE  /\ update'[q].table = 1 - activeTable[update'[q].kind]
                      /\ Searching(update'[q].kind) => lookup.table = activeTable[update'[q].kind]
    BY <1>1 DEF HandsOff, Searching
  <2>1. q # t /\ update'[q] = update[q]
    BY <1>2, <1>7
  <2>2. t = "ss_app"
    BY <1>1, <2>1, OtherRests DEF Busy
  <2>3. ~Excused(q)
    BY <1>3, <2>1, <2>2 DEF Excused
  <2> QED
    BY <2>1, <2>3 DEF ObservationInv, HandsOff
<1>11. MandatoryKept'
  BY <1>1 DEF ObservationInv, MandatoryKept, Carried
<1>12. \A q \in Task : Busy(q)' => Carried(q)'
  BY <1>1, <1>2, <1>7, OtherRests DEF Carried, Busy
<1> QED
  BY <1>6, <1>8, <1>9, <1>10, <1>11, <1>12 DEF ObservationInv

LEMMA ObservationNextInv ==
    ObservationInv /\ [ObservationNext]_observationVars => ObservationInv'
<1>1. ObservationInv /\ UNCHANGED observationVars => ObservationInv'
  <2> SUFFICES ASSUME ObservationInv, UNCHANGED observationVars PROVE ObservationInv'
    OBVIOUS
  <2>1. TablesTyped' /\ ReadersCounted' /\ Roles' /\ MandatoryKept'
    BY DEF ObservationInv, TablesTyped, ReadersCounted, CopiersOf, Roles, Busy, Locked, MandatoryKept,
           observationVars
  <2>2. HandsOff' /\ \A t \in Task : Busy(t)' => Carried(t)'
    BY DEF ObservationInv, HandsOff, Excused, Searching, Busy, Carried, observationVars
  <2> QED
    BY <2>1, <2>2 DEF ObservationInv
<1> QED
  BY <1>1, ObservingStep, BeginObserveStep, BeginSubscribeStep, BeginRebindStep,
     EnterSnapshotStep, CopySnapshotStep, WaitStep, ClearFillStep, SwapStep, EndStep
     DEF ObservationNext, Updating

\* A table is not rebuilt under the CAN task's search but in the one case the
\* property names, what the application subscribed stays observed, and an update
\* never spins for a task of its own core.
THEOREM ObservationTablesAreStable == ObservationSpec => []ObservationIsStable
  BY ObservationInitInv, ObservationInvImplies, ObservationNextInv, PTL DEF ObservationSpec
-----------------------------------------------------------------------------
(* Types that only the inductive invariants above bound *)

BoundedRead ==
    [at: {"idle", "before", "load", "return"}, attempt: 0..MaxAttempts - 1,
     before: 0..2 * MaxPublications, left: SUBSET Word, copy: [Word -> Publications],
     oldest: Publications]
ResultBounded ==
    /\ resultWords \in [Word -> Publications]
    /\ slotOwner \in {"none", "submitter", "can"}
    /\ publications \in Publications
    /\ reads \in [ResultReader -> BoundedRead]

LEMMA SequenceBound ==
    ASSUME ResultInv, publications \in Publications
    PROVE  resultSequence \in 0..2 * MaxPublications /\ Published \in Publications
<1>1. PICK f \in Nat : f = Finished
  BY DEF ResultInv, SequenceCounts
<1>2. publications \in Nat /\ publications <= MaxPublications /\ MaxPublications \in Nat
  BY WordsAssumption DEF Publications
<1>3. resultSequence = IF publishing.at = "idle" THEN 2 * f ELSE 2 * f + 1
  BY <1>1 DEF ResultInv, SequenceCounts
<1>4. f = IF publishing.at = "idle" THEN publications ELSE publications - 1
  BY <1>1 DEF Finished
<1>5. f <= publications /\ resultSequence \in 0..2 * MaxPublications
  BY <1>2, <1>3, <1>4
<1>6. Published = f
  BY <1>1, SequenceParity DEF ResultInv
<1> QED
  BY <1>2, <1>5, <1>6 DEF Publications

LEMMA NoResultReadBounded == NoResultRead \in BoundedRead
<1>1. 0 \in 0..MaxAttempts - 1 /\ 0 \in 0..2 * MaxPublications /\ 0 \in Publications
  BY WordsAssumption DEF Publications
<1> QED
  BY <1>1 DEF NoResultRead, BoundedRead

LEMMA ReadsBounded ==
    ASSUME ResultInv, ResultBounded, NEW r \in ResultReader, ReadingResult(r)
    PROVE  ResultBounded'
<1>1. /\ UNCHANGED <<resultSequence, resultWords, slotOwner, publishing, publications>>
  BY DEF ReadingResult, BeginRead, ReadSequence, LoadWord, CheckSequence, ReturnResult, ReaderAt
<1>2. SUFFICES \E s \in BoundedRead : ReaderBecomes(r, s)
  BY <1>1 DEF ResultBounded, ReaderBecomes
<1>3. reads[r] \in BoundedRead /\ resultWords \in [Word -> Publications]
  BY DEF ResultBounded
<1>4. resultSequence \in 0..2 * MaxPublications /\ Published \in Publications
  BY SequenceBound DEF ResultBounded
<1>5. CASE Retries(r)
  <2>1. CASE reads[r].attempt + 1 < MaxAttempts
    <3>1. PICK n \in 0..MaxAttempts - 1 : n = reads[r].attempt + 1
      BY <1>3, <2>1, WordsAssumption DEF BoundedRead
    <3>2. [reads[r] EXCEPT !.at = "before", !.attempt = n] \in BoundedRead
      BY <1>3 DEF BoundedRead
    <3> QED
      BY <1>5, <2>1, <3>1, <3>2 DEF Retries
  <2>2. CASE ~(reads[r].attempt + 1 < MaxAttempts)
    BY <1>5, <2>2, NoResultReadBounded DEF Retries
  <2> QED
    BY <2>1, <2>2
<1>6. CASE BeginRead(r)
  <2>1. [NoResultRead EXCEPT !.at = "before", !.oldest = Published] \in BoundedRead
    BY <1>4, NoResultReadBounded DEF BoundedRead
  <2> QED
    BY <1>6, <2>1 DEF BeginRead
<1>7. CASE ReadSequence(r)
  <2>1. [reads[r] EXCEPT !.at = "load", !.before = resultSequence, !.left = Word] \in BoundedRead
    BY <1>3, <1>4 DEF BoundedRead
  <2> QED
    BY <1>5, <1>7, <2>1 DEF ReadSequence
<1>8. CASE \E w \in Word : LoadWord(r, w)
  <2>1. PICK w \in Word : LoadWord(r, w)
    BY <1>8
  <2>2. [reads[r] EXCEPT !.left = @ \ {w}, !.copy[w] = resultWords[w]] \in BoundedRead
    BY <1>3 DEF BoundedRead
  <2> QED
    BY <2>1, <2>2 DEF LoadWord
<1>9. CASE CheckSequence(r)
  <2>1. [reads[r] EXCEPT !.at = "return"] \in BoundedRead
    BY <1>3 DEF BoundedRead
  <2> QED
    BY <1>5, <1>9, <2>1 DEF CheckSequence
<1>10. CASE ReturnResult(r)
  BY <1>10, NoResultReadBounded DEF ReturnResult
<1> QED
  BY <1>6, <1>7, <1>8, <1>9, <1>10 DEF ReadingResult

\* The published result keeps to its type: the sequence word and the publications
\* within their bounds, and no reader past its last attempt.
THEOREM ResultTypes == ResultSpec => []ResultTypeOK
<1>1. ResultInit => ResultInv /\ ResultBounded
  <2>1. ResultInit => ResultBounded
    <3>1. 0 \in Publications
      BY WordsAssumption DEF Publications
    <3> QED
      BY <3>1, NoResultReadBounded DEF ResultInit, ResultBounded
  <2> QED
    BY <2>1, ResultInitInv
<1>2. ResultInv /\ ResultBounded /\ [ResultNext]_resultVars => ResultInv' /\ ResultBounded'
  <2> SUFFICES ASSUME ResultInv, ResultBounded, [ResultNext]_resultVars PROVE ResultBounded'
    BY ResultNextInv
  <2>1. CASE OpenResult
    <3>1. publications + 1 \in Publications
      BY <2>1, WordsAssumption DEF OpenResult, ResultBounded, Publications
    <3> QED
      BY <2>1, <3>1 DEF OpenResult, OwnerStep, ResultBounded
  <2>2. CASE ClaimSlot \/ PassSlot \/ (\E w \in Word : StoreWord(w)) \/ CloseResult
             \/ UNCHANGED resultVars
    BY <2>2 DEF ClaimSlot, PassSlot, StoreWord, CloseResult, OwnerStep, ResultBounded, resultVars
  <2> QED
    BY <2>1, <2>2, ReadsBounded DEF ResultNext, Writing
<1>3. ResultInv /\ ResultBounded => ResultTypeOK
  BY SequenceBound DEF ResultInv, ResultTyped, ResultBounded, BoundedRead, ResultTypeOK
<1> QED
  BY <1>1, <1>2, <1>3, PTL DEF ResultSpec
-----------------------------------------------------------------------------
DecodeBounded ==
    /\ subscribed \in BOOLEAN /\ decodeEnabled \in BOOLEAN
    /\ database \in 0..MaxDatabases /\ cacheOf \in 0..MaxDatabases /\ countOf \in 0..MaxDatabases
    /\ entry.value \in Value /\ entry.seen \in 0..MaxDecodes
    /\ decoder.dbc \in 0..MaxDatabases /\ change.dbc \in 0..MaxDatabases
    /\ signalRead.at \in {"idle", "value", "seen", "after", "return"}
    /\ signalRead.before \in 0..2 * MaxDecodes /\ signalRead.value \in Value
    /\ signalRead.seen \in 0..MaxDecodes
    /\ decodes \in 0..MaxDecodes /\ entry.sequence \in Nat

\* Each decode moves the sequence word twice.
SequenceBounded ==
    /\ decoder.at # "idle" => decodes >= 1
    /\ entry.sequence <= CASE decoder.at \in {"enter", "recheck", "find", "open"} -> 2 * decodes - 2
                           [] decoder.at \in {"value", "seen", "close"} -> 2 * decodes - 1
                           [] OTHER -> 2 * decodes

LEMMA EntryBound ==
    ASSUME DecodeBounded, SequenceBounded
    PROVE  entry.sequence \in 0..2 * MaxDecodes
<1>1. decodes \in Nat /\ decodes <= MaxDecodes /\ entry.sequence \in Nat /\ MaxDecodes \in Nat
  BY DecodeAssumption DEF DecodeBounded
<1>2. entry.sequence <= 2 * decodes
  BY <1>1 DEF SequenceBounded
<1> QED
  BY <1>1, <1>2

LEMMA DecodeInitBounded == DecodeInit => DecodeBounded /\ SequenceBounded
<1> SUFFICES ASSUME DecodeInit PROVE DecodeBounded /\ SequenceBounded
  OBVIOUS
<1>1. 0 \in 0..MaxDatabases /\ 0 \in 0..MaxDecodes /\ 0 \in 0..2 * MaxDecodes /\ NoValue \in Value
  BY DecodeAssumption DEF NoValue, Value
<1>2. /\ entry.sequence = 0 /\ entry.value = NoValue /\ entry.seen = 0
      /\ decoder.at = "idle" /\ decoder.dbc = 0 /\ decodes = 0 /\ change.dbc = 0
      /\ signalRead.at = "idle" /\ signalRead.before = 0 /\ signalRead.value = NoValue
      /\ signalRead.seen = 0 /\ database = 0 /\ cacheOf = 0 /\ countOf = 0
      /\ subscribed = FALSE /\ decodeEnabled = TRUE
  BY DEF DecodeInit, Fresh, NotDecoding, NoRead
<1>3. DecodeBounded
  <2>1. subscribed \in BOOLEAN /\ decodeEnabled \in BOOLEAN
    BY <1>2
  <2>2. 0 \in Nat
    OBVIOUS
  <2> QED
    BY <1>1, <1>2, <2>1, <2>2 DEF DecodeBounded
<1>4. 0 <= 2 * 0
  OBVIOUS
<1> QED
  BY <1>2, <1>3, <1>4 DEF SequenceBounded

LEMMA DecoderKeepsBounds ==
    DatabaseInv /\ DecodeBounded /\ SequenceBounded /\ Decoding => DecodeBounded' /\ SequenceBounded'
<1> SUFFICES ASSUME DatabaseInv, DecodeBounded, SequenceBounded, Decoding
             PROVE  DecodeBounded' /\ SequenceBounded'
  OBVIOUS
<1>1. /\ decoder = [at |-> decoder.at, dbc |-> decoder.dbc]
      /\ entry = [sequence |-> entry.sequence, value |-> entry.value, seen |-> entry.seen]
  BY DEF DatabaseInv, DecodePlaces
<1>2. UNCHANGED <<decodeEnabled, cacheWords, change, signalRead>>
  BY DEF Decoding, DecoderAt, SeeFrame, EnterDecode, RecheckDecode, FindSignal, OpenEntry, WriteValue,
         WriteSeen, CloseEntry, LeaveDecode
<1>3. decodes \in Nat /\ MaxDecodes \in Nat /\ MaxDatabases \in Nat /\ entry.sequence \in Nat
      /\ decodes <= MaxDecodes /\ decodes \in 0..MaxDecodes
  BY DecodeAssumption DEF DecodeBounded
<1>4. CASE SeeFrame
  <2>1. /\ decodes' = decodes + 1 /\ decodes < MaxDecodes /\ entry' = entry /\ decoder.at = "idle"
        /\ decoder'.at = "enter" /\ decoder'.dbc = decoder.dbc
    BY <1>1, <1>4 DEF SeeFrame, DecoderAt, DecoderTo
  <2>2. decodes' \in 0..MaxDecodes /\ decodes' >= 1
    BY <1>3, <2>1
  <2>3. DecodeBounded'
    BY <1>2, <2>1, <2>2 DEF DecodeBounded, cacheWords
  <2>4. entry.sequence <= 2 * decodes
    BY <2>1 DEF SequenceBounded
  <2>5. entry'.sequence <= 2 * decodes' - 2
    BY <1>3, <2>1, <2>4
  <2> QED
    BY <2>1, <2>2, <2>3, <2>5 DEF SequenceBounded
<1>5. CASE EnterDecode \/ RecheckDecode \/ FindSignal
  <2>1. /\ decodes' = decodes /\ entry' = entry /\ decoder.at \in {"enter", "recheck", "find"}
        /\ decoder'.at \in {"recheck", "find", "open", "leave"}
        /\ decoder'.dbc \in {decoder.dbc, database}
    BY <1>1, <1>5 DEF EnterDecode, RecheckDecode, FindSignal, DecoderAt, DecoderTo
  <2>2. DecodeBounded'
    BY <1>2, <2>1 DEF DecodeBounded, cacheWords
  <2>3. decodes >= 1 /\ entry.sequence <= 2 * decodes - 2
    BY <2>1 DEF SequenceBounded
  <2>4. entry.sequence <= 2 * decodes
    BY <1>3, <2>3
  <2> QED
    BY <2>1, <2>2, <2>3, <2>4 DEF SequenceBounded
<1>6. CASE OpenEntry
  <2>1. /\ decodes' = decodes /\ decoder.at = "open" /\ decoder'.at = "value"
        /\ decoder'.dbc = decoder.dbc /\ entry'.sequence = entry.sequence + 1
        /\ entry'.value = entry.value /\ entry'.seen = entry.seen
    BY <1>1, <1>6 DEF OpenEntry, DecoderAt, DecoderTo
  <2>2. DecodeBounded'
    BY <1>2, <1>3, <2>1 DEF DecodeBounded, cacheWords
  <2>3. decodes >= 1 /\ entry.sequence <= 2 * decodes - 2
    BY <2>1 DEF SequenceBounded
  <2>4. entry'.sequence <= 2 * decodes - 1
    BY <1>3, <2>1, <2>3
  <2> QED
    BY <2>1, <2>2, <2>3, <2>4 DEF SequenceBounded
<1>7. CASE WriteValue \/ WriteSeen
  <2>1. /\ decodes' = decodes /\ decoder.at \in {"value", "seen"} /\ decoder'.at \in {"seen", "close"}
        /\ decoder'.dbc = decoder.dbc /\ entry'.sequence = entry.sequence
        /\ entry'.value \in {entry.value, [dbc |-> decoder.dbc, frame |-> decodes]}
        /\ entry'.seen \in {entry.seen, decodes}
    BY <1>1, <1>7 DEF WriteValue, WriteSeen, DecoderAt, DecoderTo
  <2>2. [dbc |-> decoder.dbc, frame |-> decodes] \in Value
    BY <1>3 DEF DecodeBounded, Value
  <2>3. DecodeBounded'
    BY <1>2, <1>3, <2>1, <2>2 DEF DecodeBounded, cacheWords
  <2> QED
    BY <2>1, <2>3 DEF SequenceBounded
<1>8. CASE CloseEntry
  <2>1. /\ decodes' = decodes /\ decoder.at = "close" /\ decoder'.at = "leave"
        /\ decoder'.dbc = decoder.dbc /\ entry'.sequence = entry.sequence + 1
        /\ entry'.value = entry.value /\ entry'.seen = entry.seen
    BY <1>1, <1>8 DEF CloseEntry, DecoderAt, DecoderTo
  <2>2. DecodeBounded'
    BY <1>2, <1>3, <2>1 DEF DecodeBounded, cacheWords
  <2>3. decodes >= 1 /\ entry.sequence <= 2 * decodes - 1
    BY <2>1 DEF SequenceBounded
  <2>4. entry'.sequence <= 2 * decodes
    BY <1>3, <2>1, <2>3
  <2> QED
    BY <2>1, <2>2, <2>3, <2>4 DEF SequenceBounded
<1>9. CASE LeaveDecode
  <2>1. /\ decodes' = decodes /\ entry' = entry /\ decoder.at = "leave" /\ decoder'.at = "idle"
        /\ decoder'.dbc = 0
    BY <1>9 DEF LeaveDecode, DecoderAt, NotDecoding
  <2>2. DecodeBounded'
    BY <1>2, <1>3, <2>1 DEF DecodeBounded, cacheWords
  <2> QED
    BY <2>1, <2>2 DEF SequenceBounded
<1> QED
  BY <1>4, <1>5, <1>6, <1>7, <1>8, <1>9 DEF Decoding

LEMMA ChangeKeepsBounds ==
    DatabaseInv /\ DecodeBounded /\ SequenceBounded /\ Changing => DecodeBounded' /\ SequenceBounded'
<1> SUFFICES ASSUME DatabaseInv, DecodeBounded, SequenceBounded, Changing
             PROVE  DecodeBounded' /\ SequenceBounded'
  OBVIOUS
<1>1. change = [at |-> change.at, dbc |-> change.dbc]
  BY DEF DatabaseInv, DecodePlaces
<1>2. UNCHANGED <<decoder, signalRead, decodes>>
  BY DEF Changing, ChangeAt, PauseDecoding, WaitForDecoder, DecideChange, SwapDatabase, SwapEntries,
         SwapCount, ResumeDecoding, Subscribe
<1>3. MaxDecodes \in Nat /\ MaxDatabases \in Nat /\ decodes \in Nat /\ change.dbc \in 0..MaxDatabases
  BY DecodeAssumption DEF DecodeBounded
<1>4. CASE SwapEntries
  <2>1. /\ cacheOf' = change.dbc /\ entry' = Fresh /\ change'.dbc = change.dbc
        /\ UNCHANGED <<decodeEnabled, database, countOf, subscribed>> /\ change.at = "entries"
    BY <1>1, <1>4 DEF SwapEntries, ChangeAt, ChangeTo
  <2>2. entry'.sequence = 0 /\ entry'.value \in Value /\ entry'.seen \in 0..MaxDecodes
    BY <1>3, <2>1 DEF Fresh, NoValue, Value
  <2>3. DecodeBounded'
    BY <1>2, <1>3, <2>1, <2>2 DEF DecodeBounded
  <2>4. ~InDecode
    BY <2>1 DEF DatabaseInv, ChangeExcludes, Swapping
  <2>5. decoder.at \notin {"value", "seen", "close"}
    BY <2>4 DEF InDecode
  <2>6. entry'.sequence <= CASE decoder.at \in {"enter", "recheck", "find", "open"} -> 2 * decodes - 2
                             [] decoder.at \in {"value", "seen", "close"} -> 2 * decodes - 1
                             [] OTHER -> 2 * decodes
    BY <1>3, <2>2, <2>5 DEF SequenceBounded
  <2> QED
    BY <1>2, <2>3, <2>6 DEF SequenceBounded
<1>5. CASE ~SwapEntries
  <2>1. /\ entry' = entry /\ change'.dbc \in {change.dbc, change.dbc + 1}
        /\ change'.dbc = change.dbc + 1 => change.dbc < MaxDatabases
        /\ database' \in {database, change.dbc} /\ cacheOf' = cacheOf
        /\ countOf' \in {countOf, change.dbc}
        /\ subscribed' \in BOOLEAN /\ decodeEnabled' \in BOOLEAN
    <3>0. subscribed \in BOOLEAN /\ decodeEnabled \in BOOLEAN /\ change.dbc # change.dbc + 1
      BY <1>3 DEF DecodeBounded
      <3>1. CASE PauseDecoding
      <4>1. /\ change'.dbc = change.dbc + 1 /\ change.dbc < MaxDatabases /\ decodeEnabled' = FALSE
            /\ UNCHANGED <<cacheWords, entry>>
        BY <3>1 DEF PauseDecoding
      <4> QED
        BY <3>0, <4>1 DEF cacheWords
    <3>2. CASE WaitForDecoder \/ DecideChange
      <4>1. change'.dbc = change.dbc /\ UNCHANGED <<decodeEnabled, cacheWords, entry>>
        BY <1>1, <3>2 DEF WaitForDecoder, DecideChange, ChangeTo
      <4> QED
        BY <3>0, <4>1 DEF cacheWords
    <3>3. CASE SwapDatabase \/ SwapCount
      <4>1. change'.dbc = change.dbc /\ decodeEnabled' = decodeEnabled /\ entry' = entry
        BY <1>1, <3>3 DEF SwapDatabase, SwapCount, ChangeTo
      <4>2. /\ database' \in {database, change.dbc} /\ cacheOf' = cacheOf
            /\ countOf' \in {countOf, change.dbc} /\ subscribed' \in {subscribed, FALSE}
        BY <3>3 DEF SwapDatabase, SwapCount
      <4>3. subscribed' \in BOOLEAN /\ decodeEnabled' \in BOOLEAN
        BY <3>0, <4>1, <4>2
      <4> QED
        BY <3>0, <4>1, <4>2, <4>3
    <3>4. CASE ResumeDecoding \/ Subscribe
      <4>1. change'.dbc = change.dbc /\ UNCHANGED <<database, cacheOf, countOf, entry>>
        BY <1>1, <3>4 DEF ResumeDecoding, Subscribe, cacheWords
      <4>2. subscribed' \in BOOLEAN /\ decodeEnabled' \in BOOLEAN
        BY <3>0, <3>4 DEF ResumeDecoding, Subscribe, cacheWords
      <4> QED
        BY <3>0, <4>1, <4>2
    <3> QED
      BY <1>5, <3>1, <3>2, <3>3, <3>4 DEF Changing
  <2>2. change'.dbc \in 0..MaxDatabases
    BY <1>3, <2>1
  <2>3. DecodeBounded'
    BY <1>2, <1>3, <2>1, <2>2 DEF DecodeBounded
  <2> QED
    BY <1>2, <2>1, <2>3 DEF SequenceBounded
<1> QED
  BY <1>4, <1>5

LEMMA ReadKeepsBounds ==
    DatabaseInv /\ DecodeBounded /\ SequenceBounded /\ Reading => DecodeBounded' /\ SequenceBounded'
<1> SUFFICES ASSUME DatabaseInv, DecodeBounded, SequenceBounded, Reading
             PROVE  DecodeBounded' /\ SequenceBounded'
  OBVIOUS
<1>1. signalRead = [at |-> signalRead.at, before |-> signalRead.before,
                    value |-> signalRead.value, seen |-> signalRead.seen]
  BY DEF DatabaseInv, DecodePlaces
<1>2. UNCHANGED <<decodeEnabled, decodeReaders, cacheWords, entry, decoder, change, decodes>>
  BY DEF Reading, ReadAt, ReadBefore, ReadValue, ReadSeen, ReadAfter, ReturnRead
<1>3. NoRead.at = "idle" /\ NoRead.before \in 0..2 * MaxDecodes /\ NoRead.value \in Value
      /\ NoRead.seen \in 0..MaxDecodes
  BY DecodeAssumption DEF NoRead, NoValue, Value
<1>4. entry.sequence \in 0..2 * MaxDecodes
  BY EntryBound
<1>5. /\ signalRead'.at \in {"idle", "value", "seen", "after", "return"}
      /\ signalRead'.before \in {signalRead.before, entry.sequence, NoRead.before}
      /\ signalRead'.value \in {signalRead.value, entry.value, NoRead.value}
      /\ signalRead'.seen \in {signalRead.seen, entry.seen, NoRead.seen}
  <2>1. CASE ReadBefore
    BY <1>3, <2>1 DEF ReadBefore, NoRead
  <2>2. CASE ReadValue \/ ReadSeen
    BY <1>1, <2>2 DEF ReadValue, ReadSeen
  <2>3. CASE ReadAfter \/ ReturnRead
    <3>1. signalRead' \in {[signalRead EXCEPT !.at = "return"], NoRead}
      BY <2>3 DEF ReadAfter, ReturnRead
    <3> QED
      BY <1>1, <1>3, <3>1
  <2> QED
    BY <2>1, <2>2, <2>3 DEF Reading
<1>6. DecodeBounded'
  BY <1>2, <1>3, <1>4, <1>5 DEF DecodeBounded, cacheWords
<1> QED
  BY <1>2, <1>6 DEF SequenceBounded

\* The signal cache and the change of the database keep to their types: the
\* sequence word moves twice for a decode, and each database is counted once.
THEOREM DecodeTypes == DecodeSpec => []DecodeTypeOK
<1>1. DecodeInit => DatabaseInv /\ DecodeBounded /\ SequenceBounded
  BY DatabaseInit, DecodeInitBounded
<1>2. DatabaseInv /\ DecodeBounded /\ SequenceBounded /\ [DecodeNext]_decodeVars =>
        DatabaseInv' /\ DecodeBounded' /\ SequenceBounded'
  <2> SUFFICES ASSUME DatabaseInv, DecodeBounded, SequenceBounded, [DecodeNext]_decodeVars
               PROVE  DecodeBounded' /\ SequenceBounded'
    BY DatabaseStays
  <2>1. CASE UNCHANGED decodeVars
    BY <2>1 DEF decodeVars, cacheWords, DecodeBounded, SequenceBounded
  <2> QED
    BY <2>1, DecoderKeepsBounds, ChangeKeepsBounds, ReadKeepsBounds DEF DecodeNext
<1>3. DatabaseInv /\ DecodeBounded /\ SequenceBounded => DecodeTypeOK
  <2> SUFFICES ASSUME DatabaseInv, DecodeBounded, SequenceBounded PROVE DecodeTypeOK
    OBVIOUS
  <2>1. decodeReaders \in 0..1
    BY DEF DatabaseInv, DecodersCounted
  <2>2. entry \in [sequence: 0..2 * MaxDecodes, value: Value, seen: 0..MaxDecodes]
    BY EntryBound DEF DatabaseInv, DecodePlaces, DecodeBounded
  <2>3. /\ decoder \in [at: DecoderPlace, dbc: 0..MaxDatabases]
        /\ change \in [at: ChangePlace, dbc: 0..MaxDatabases]
    BY DEF DatabaseInv, DecodePlaces, DecodeBounded
  <2>4. signalRead \in [at: {"idle", "value", "seen", "after", "return"},
                        before: 0..2 * MaxDecodes, value: Value, seen: 0..MaxDecodes]
    BY DEF DatabaseInv, DecodePlaces, DecodeBounded
  <2> QED
    BY <2>1, <2>2, <2>3, <2>4 DEF DecodeTypeOK, DecodeBounded, DecoderPlace, ChangePlace
<1> QED
  BY <1>1, <1>2, <1>3, PTL DEF DecodeSpec
-----------------------------------------------------------------------------
\* Both tasks of core 0 never copy at once, so three readers are never counted.
LEMMA ReadersBound ==
    ASSUME ObservationInv
    PROVE  tableReaders \in 0..2
<1>1. ~(update["ss_ui"].at = "copy" /\ update["ss_app"].at = "copy")
  BY DEF ObservationInv, Roles, Locked, Busy, Task
<1> QED
  BY <1>1 DEF ObservationInv, ReadersCounted, CopiersOf

ModeTyped == observationMode \in Mode /\ required \subseteq Key

LEMMA ModeStays ==
    ASSUME ObservationInv, ModeTyped, [ObservationNext]_observationVars
    PROVE  ModeTyped'
<1> SUFFICES observationMode' \in Mode /\ required' \subseteq Key
  BY DEF ModeTyped
<1> USE DEF ModeTyped
<1>1. \A t \in Task : update[t].mode \in Mode /\ update[t].keys \subseteq Key
  BY DEF ObservationInv, TablesTyped, UpdateRecord
<1>2. CASE \E t \in Task : EndUpdate(t)
  BY <1>1, <1>2 DEF EndUpdate
<1>3. CASE \E t \in Task : BeginRebind(t)
  BY <1>3 DEF BeginRebind, Begin
<1>4. CASE Observing \/ UNCHANGED observationVars
  BY <1>4, ZenonT(60) DEF Observing, EnterLookup, LoadTable, SearchTable, ReadMode, LeaveLookup, LookupAt,
              observationVars
<1>5. CASE \/ \E keys \in SUBSET Key, mode \in Mode : BeginObserve(keys, mode)
           \/ \E t \in Task : \/ \E k \in Key : BeginSubscribe(t, k)
                              \/ EnterSnapshot(t) \/ CopySnapshot(t) \/ WaitForReaders(t)
                              \/ ClearTable(t) \/ FillTable(t) \/ SwapTable(t)
  BY <1>5, ZenonT(60) DEF BeginObserve, BeginSubscribe, Begin, EnterSnapshot, CopySnapshot, WaitForReaders,
              ClearTable, FillTable, SwapTable
<1> QED
  BY <1>2, <1>3, <1>4, <1>5 DEF ObservationNext, Updating

\* The observation tables keep to their types; the count of readers, too, which
\* nothing but the exclusion of the updates bounds.
THEOREM ObservationTypes == ObservationSpec => []ObservationTypeOK
<1>1. ObservationInit => ModeTyped
  BY DEF ObservationInit, Mode, ModeTyped
<1>2. ObservationInv /\ ModeTyped /\ [ObservationNext]_observationVars => ModeTyped'
  BY ModeStays
<1>3. ObservationInv /\ ModeTyped => ObservationTypeOK
  BY ReadersBound DEF ObservationInv, ModeTyped, TablesTyped, UpdateRecord, LookupRecord,
                      ObservationTypeOK
<1> QED
  BY <1>1, <1>2, <1>3, ObservationInitInv, ObservationNextInv, PTL DEF ObservationSpec

\* The statistics keep to their types.
THEOREM StatsTypes == StatsSpec => []StatsTypeOK
<1>1. StatsInv => StatsTypeOK
  BY DEF StatsInv
<1> QED
  BY <1>1, StatsInitInv, StatsNextInv, PTL DEF StatsSpec
=============================================================================
