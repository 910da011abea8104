--------------------------- MODULE SavedSession ---------------------------
(***************************************************************************)
(* What the session recorder promises about the one saved session, as its  *)
(* user sees it: a store that always has exactly one session to offer after *)
(* the next reset. The session being recorded moves it forward. Nothing     *)
(* moves it back but the user's request to delete it and, once a call of    *)
(* the file system has failed, the writing of that session a second time.   *)
(***************************************************************************)
EXTENDS Naturals

VARIABLES
    kept,      \* the session a reset now would leave readable, 0 for none
    held,      \* the session the recorder holds in memory, 0 for none
    clearing,  \* the user has asked for the session to be deleted
    failed     \* a call of the file system has failed

savedVars == <<kept, held, clearing, failed>>

SavedInit == kept \in Nat /\ held = 0 /\ clearing = FALSE /\ failed = FALSE

\* A recording starts; it is newer than anything that was kept.
Record == held = 0 /\ held' > kept /\ UNCHANGED <<kept, clearing>>

\* The session in memory becomes the kept one, at once; the reset that may do
\* this lets go of the copy in memory, and ends a deletion under way.
Keep ==
    /\ held # 0 /\ kept' = held
    /\ \/ UNCHANGED <<held, clearing>>
       \/ held' = 0 /\ clearing' = FALSE

\* The copy in memory is let go: a reset, or a save that has ended.
LetGo == held # 0 /\ held' = 0 /\ clearing' = FALSE /\ UNCHANGED kept

\* The session that is still in memory is written again from its beginning.
TakeBack == failed' /\ held # 0 /\ kept = held /\ kept' < kept /\ UNCHANGED <<held, clearing>>

\* The user deletes what is kept, one file at a time.
AskClear == clearing' = TRUE /\ UNCHANGED <<kept, held>>
Forget == clearing /\ kept' < kept /\ UNCHANGED <<held, clearing>>
EndClear == clearing' = FALSE /\ held' \in {held, 0} /\ UNCHANGED kept

\* A call that fails shows nothing of itself.
FailQuietly == failed' = TRUE /\ UNCHANGED <<kept, held, clearing>>

SavedNext ==
    /\ failed => failed'
    /\ \/ Record \/ Keep \/ LetGo \/ TakeBack
       \/ AskClear \/ Forget \/ EndClear \/ FailQuietly

SavedSpec == SavedInit /\ [][SavedNext]_savedVars
=============================================================================
