---------------------------- MODULE FrameChannel ----------------------------
(***************************************************************************)
(* What the gateway promises for each direction of the CAN bridge: a frame *)
(* it has accepted waits in one FIFO line per direction, leaves by its head *)
(* or together with the whole line when the line's bus goes away or comes   *)
(* back, and replayed frames are only ever put on a wire while no accepted  *)
(* frame waits anywhere.  Accepted frames carry consecutive numbers.        *)
(***************************************************************************)
EXTENDS Naturals, Sequences

CONSTANT Direction  \* the forwarding directions

VARIABLES
  pending,    \* [Direction -> Seq(Nat)]: accepted frames still to leave
  arrived,    \* number of frames accepted so far, in all directions
  delivered,  \* [Direction -> Nat]: the last frame that left by the head
  discarded,  \* [Direction -> Nat]: arrived when the line was last discarded
  replayed    \* arrived when a replayed frame was last transmitted

channelVars == <<pending, arrived, delivered, discarded, replayed>>

Init ==
  /\ pending = [d \in Direction |-> <<>>]
  /\ arrived = 0
  /\ delivered = [d \in Direction |-> 0]
  /\ discarded = [d \in Direction |-> 0]
  /\ replayed = 0

Accept(d) ==
  /\ arrived' = arrived + 1
  /\ pending' = [pending EXCEPT ![d] = Append(@, arrived + 1)]
  /\ UNCHANGED <<delivered, discarded, replayed>>

Deliver(d) ==
  /\ pending[d] # <<>>
  /\ delivered' = [delivered EXCEPT ![d] = Head(pending[d])]
  /\ pending' = [pending EXCEPT ![d] = Tail(@)]
  /\ UNCHANGED <<arrived, discarded, replayed>>

Discard(lines) ==
  /\ pending' = [d \in Direction |-> IF d \in lines THEN <<>> ELSE pending[d]]
  /\ discarded' = [d \in Direction |-> IF d \in lines THEN arrived ELSE discarded[d]]
  /\ UNCHANGED <<arrived, delivered, replayed>>

Replay ==
  /\ \A d \in Direction : pending[d] = <<>>
  /\ replayed' = arrived
  /\ UNCHANGED <<pending, arrived, delivered, discarded>>

Next ==
  \/ \E d \in Direction : Accept(d) \/ Deliver(d)
  \/ \E lines \in SUBSET Direction : Discard(lines)
  \/ Replay

Spec == Init /\ [][Next]_channelVars

-----------------------------------------------------------------------------
TypeOK ==
  /\ pending \in [Direction -> Seq(Nat)]
  /\ arrived \in Nat
  /\ delivered \in [Direction -> Nat]
  /\ discarded \in [Direction -> Nat]
  /\ replayed \in Nat

Increasing(line) == \A i, j \in DOMAIN line : i < j => line[i] < line[j]
Above(line, n) == \A i \in DOMAIN line : n < line[i]
UpTo(line, n) == \A i \in DOMAIN line : line[i] <= n

(* Every line is in arrival order and behind everything that already left. *)
InOrder ==
  \A d \in Direction : Increasing(pending[d]) /\ Above(pending[d], delivered[d])

(* Nothing that was accepted before a transmitted replay frame is still waiting. *)
BehindReplay == \A d \in Direction : Above(pending[d], replayed)

(* Nothing that was accepted before the line was discarded is still waiting. *)
AfterDiscard == \A d \in Direction : Above(pending[d], discarded[d])

(* Only frames that were accepted wait, leave or are discarded. *)
KnownFrames ==
  /\ replayed <= arrived
  /\ \A d \in Direction :
       delivered[d] <= arrived /\ discarded[d] <= arrived /\ UpTo(pending[d], arrived)

ChannelInv == TypeOK /\ KnownFrames /\ InOrder /\ BehindReplay /\ AfterDiscard
=============================================================================
