--------------------------- MODULE RulePublication ---------------------------
(***************************************************************************)
(* What a commit promises the readers of the rules: one pair of table and   *)
(* runtime state is live at any time, a reader keeps the pair that was live *)
(* when it began for as long as it reads, and the live pair is replaced in  *)
(* one step while nobody reads.                                             *)
(***************************************************************************)
CONSTANTS Reader, Version, First, NoView

VARIABLES
  live,  \* the version that is live
  view   \* [Reader -> version being read, or NoView]

Init == live = First /\ view = [r \in Reader |-> NoView]

Begin(r) ==
  /\ view[r] = NoView
  /\ view' = [view EXCEPT ![r] = live]
  /\ UNCHANGED live

End(r) ==
  /\ view[r] # NoView
  /\ view' = [view EXCEPT ![r] = NoView]
  /\ UNCHANGED live

Publish ==
  /\ \A r \in Reader : view[r] = NoView
  /\ live' \in Version
  /\ UNCHANGED view

Next == Publish \/ \E r \in Reader : Begin(r) \/ End(r)

Spec == Init /\ [][Next]_<<live, view>>
=============================================================================
