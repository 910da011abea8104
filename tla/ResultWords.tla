---------------------------- MODULE ResultWords ----------------------------
(***************************************************************************)
(* The published result of the diagnostic transport at the grain of its     *)
(* words (src/core/diagnostic_transport.cpp, publishResult and              *)
(* copyPublishedResult), which DiagnosticTransport takes as one. Two cores  *)
(* write it in turn: a submitter that has claimed the slot, then the CAN    *)
(* task until it frees the slot. A reader tries a few times and waits for   *)
(* nobody. A result is the number of its publication.                       *)
(***************************************************************************)
EXTENDS Integers, FiniteSets

CONSTANTS
    Word,             \* the indices of result_words
    ResultReader,     \* the tasks that read the result
    MaxAttempts,      \* 8
    MaxPublications   \* bound: results published

ASSUME WordsAssumption ==
    /\ IsFiniteSet(Word) /\ Word # {}
    /\ MaxAttempts \in Nat \ {0} /\ MaxPublications \in Nat

VARIABLES
    resultSequence, resultWords,
    slotOwner,    \* who may publish: nobody, the submitter, or the CAN task
    publishing,   \* the words the publication under way has yet to store
    publications, \* ghost: results whose publication has begun
    reads         \* each reader in copyPublishedResult

resultVars == <<resultSequence, resultWords, slotOwner, publishing, publications, reads>>

NotPublishing == [at |-> "idle", left |-> {}]
NoResultRead == [at |-> "idle", attempt |-> 0, before |-> 0, left |-> {}, copy |-> [w \in Word |-> 0],
                 oldest |-> 0]
Published == IF resultSequence % 2 = 1 THEN publications - 1 ELSE publications
-----------------------------------------------------------------------------
(* The writers *)

OwnerStep == UNCHANGED reads

\* diagnosticTransportSubmit claims busy; the CAN task clears it in the end.
ClaimSlot ==
    /\ OwnerStep /\ slotOwner = "none" /\ publications < MaxPublications
    /\ slotOwner' = "submitter"
    /\ UNCHANGED <<resultSequence, resultWords, publishing, publications>>

\* The mailbox is handed over, or the slot freed, between publications.
PassSlot ==
    /\ OwnerStep /\ publishing.at = "idle"
    /\ \/ slotOwner = "submitter" /\ slotOwner' = "can"
       \/ slotOwner = "can" /\ slotOwner' = "none"
    /\ UNCHANGED <<resultSequence, resultWords, publishing, publications>>

\* The sequence word becomes odd.
OpenResult ==
    /\ OwnerStep /\ slotOwner # "none"
    /\ publishing.at = "idle" /\ publications < MaxPublications
    /\ resultSequence' = resultSequence + 1
    /\ publications' = publications + 1
    /\ publishing' = [at |-> "store", left |-> Word]
    /\ UNCHANGED <<resultWords, slotOwner>>

\* The words are stored relaxed: in any order.
StoreWord(w) ==
    /\ OwnerStep
    /\ publishing.at = "store" /\ w \in publishing.left
    /\ resultWords' = [resultWords EXCEPT ![w] = publications]
    /\ publishing' = [publishing EXCEPT !.left = @ \ {w}]
    /\ UNCHANGED <<resultSequence, slotOwner, publications>>

CloseResult ==
    /\ OwnerStep
    /\ publishing.at = "store" /\ publishing.left = {}
    /\ resultSequence' = resultSequence + 1
    /\ publishing' = NotPublishing
    /\ UNCHANGED <<resultWords, slotOwner, publications>>
-----------------------------------------------------------------------------
(* The readers *)

ReaderAt(r, place) ==
    /\ reads[r].at = place
    /\ UNCHANGED <<resultSequence, resultWords, slotOwner, publishing, publications>>
ReaderBecomes(r, s) == reads' = [reads EXCEPT ![r] = s]
\* One attempt is over; after the last the call fails.
Retries(r) ==
    ReaderBecomes(r, IF reads[r].attempt + 1 < MaxAttempts
                     THEN [reads[r] EXCEPT !.at = "before", !.attempt = @ + 1] ELSE NoResultRead)

BeginRead(r) ==
    /\ ReaderAt(r, "idle")
    /\ ReaderBecomes(r, [NoResultRead EXCEPT !.at = "before", !.oldest = Published])

ReadSequence(r) ==
    /\ ReaderAt(r, "before")
    /\ IF resultSequence % 2 = 1 THEN Retries(r)
       ELSE ReaderBecomes(r, [reads[r] EXCEPT !.at = "load", !.before = resultSequence, !.left = Word])

\* Relaxed, too, but all before the fence.
LoadWord(r, w) ==
    /\ ReaderAt(r, "load")
    /\ w \in reads[r].left
    /\ ReaderBecomes(r, [reads[r] EXCEPT !.left = @ \ {w}, !.copy[w] = resultWords[w]])

\* Mutation: only that no publication is under way is asked for.
CheckSequence_EvenOnly(r) ==
    /\ ReaderAt(r, "load")
    /\ reads[r].left = {}
    /\ IF resultSequence % 2 = 0
       THEN ReaderBecomes(r, [reads[r] EXCEPT !.at = "return"]) ELSE Retries(r)

CheckSequence(r) ==
    /\ ReaderAt(r, "load")
    /\ reads[r].left = {}
    /\ IF resultSequence = reads[r].before
       THEN ReaderBecomes(r, [reads[r] EXCEPT !.at = "return"]) ELSE Retries(r)

ReturnResult(r) == ReaderAt(r, "return") /\ ReaderBecomes(r, NoResultRead)
-----------------------------------------------------------------------------
ResultInit ==
    /\ resultSequence = 0 /\ resultWords = [w \in Word |-> 0]
    /\ slotOwner = "none" /\ publishing = NotPublishing /\ publications = 0
    /\ reads = [r \in ResultReader |-> NoResultRead]

Writing == ClaimSlot \/ PassSlot \/ OpenResult \/ (\E w \in Word : StoreWord(w)) \/ CloseResult
ReadingResult(r) ==
    \/ BeginRead(r) \/ ReadSequence(r) \/ (\E w \in Word : LoadWord(r, w)) \/ CheckSequence(r)
    \/ ReturnResult(r)

ResultNext == Writing \/ \E r \in ResultReader : ReadingResult(r)

ResultSpec == ResultInit /\ [][ResultNext]_resultVars
-----------------------------------------------------------------------------
Publications == 0..MaxPublications

ResultTypeOK ==
    /\ resultSequence \in 0..2 * MaxPublications
    /\ resultWords \in [Word -> Publications]
    /\ slotOwner \in {"none", "submitter", "can"}
    /\ publishing \in [at: {"idle", "store"}, left: SUBSET Word]
    /\ publications \in Publications
    /\ reads \in [ResultReader ->
         [at: {"idle", "before", "load", "return"}, attempt: 0..MaxAttempts - 1,
          before: 0..2 * MaxPublications, left: SUBSET Word, copy: [Word -> Publications],
          oldest: Publications]]

\* diagnostic_transport.cpp:229-263: a copy handed out is one published result,
\* no word of it older or younger, and not one that had been replaced before the
\* call began: a client that reads again never sees an earlier state of its job.
ResultsAreWhole ==
    \A r \in ResultReader : reads[r].at = "return" =>
        \E n \in reads[r].oldest..publications : reads[r].copy = [w \in Word |-> n]
=============================================================================
