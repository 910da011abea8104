-------------------------- MODULE FrameChannelProofs --------------------------
(***************************************************************************)
(* The abstract channel keeps its promises: order, no overtaking by replay  *)
(* and nothing stale, for every set of directions and any number of frames. *)
(***************************************************************************)
EXTENDS FrameChannel, SequenceTheorems, TLAPS

(* An empty line is ordered and above everything. *)
LEMMA EmptyLine ==
  ASSUME NEW n \in Nat
  PROVE  Increasing(<<>>) /\ Above(<<>>, n) /\ UpTo(<<>>, n)
BY DEF Increasing, Above, UpTo

(* Appending the next number keeps a line ordered. *)
LEMMA AppendLine ==
  ASSUME NEW s \in Seq(Nat), NEW n \in Nat, Increasing(s), UpTo(s, n)
  PROVE  /\ Append(s, n + 1) \in Seq(Nat)
         /\ Increasing(Append(s, n + 1))
         /\ UpTo(Append(s, n + 1), n + 1)
         /\ \A m \in Nat : m <= n /\ Above(s, m) => Above(Append(s, n + 1), m)
<1> DEFINE t == Append(s, n + 1)
           last == Len(s) + 1
<1>1. /\ t \in Seq(Nat)
      /\ last \in Nat
      /\ \A i \in DOMAIN t : i = last \/ i \in DOMAIN s
      /\ \A i \in DOMAIN s : i \in Nat /\ i < last /\ t[i] = s[i] /\ s[i] \in Nat
      /\ t[last] = n + 1
  OBVIOUS
<1> HIDE DEF t, last
<1>2. \A i \in DOMAIN s : s[i] <= n /\ s[i] < n + 1
  BY <1>1 DEF UpTo
<1>3. Increasing(t)
  <2> SUFFICES ASSUME NEW i \in DOMAIN t, NEW j \in DOMAIN t, i < j
               PROVE  t[i] < t[j]
    BY DEF Increasing
  <2>1. i \in DOMAIN s
    BY <1>1, SMTT(30)
  <2>2. CASE j = last
    BY <1>1, <1>2, <2>1, <2>2
  <2>3. CASE j \in DOMAIN s
    BY <1>1, <2>1, <2>3 DEF Increasing
  <2> QED
    BY <1>1, <2>2, <2>3
<1>4. UpTo(t, n + 1)
  BY <1>1, <1>2, SMTT(30) DEF UpTo
<1>5. \A m \in Nat : m <= n /\ Above(s, m) => Above(t, m)
  BY <1>1, SMTT(30) DEF Above
<1> QED
  BY <1>1, <1>3, <1>4, <1>5 DEF t

(* What is left after the head of an ordered line is ordered and above it. *)
LEMMA TailLine ==
  ASSUME NEW s \in Seq(Nat), s # <<>>, Increasing(s)
  PROVE  /\ Tail(s) \in Seq(Nat)
         /\ Head(s) \in Nat
         /\ Increasing(Tail(s))
         /\ Above(Tail(s), Head(s))
         /\ \A m \in Nat : UpTo(s, m) => UpTo(Tail(s), m) /\ Head(s) <= m
         /\ \A m \in Nat : Above(s, m) => Above(Tail(s), m)
<1> DEFINE t == Tail(s)
<1>1. /\ t \in Seq(Nat)
      /\ Head(s) \in Nat /\ Head(s) = s[1] /\ 1 \in DOMAIN s
      /\ \A i \in DOMAIN t : i \in Nat /\ 1 < i + 1 /\ i + 1 \in DOMAIN s /\ t[i] = s[i + 1]
  OBVIOUS
<1>2. \A i, j \in DOMAIN t : i < j => i + 1 < j + 1
  BY <1>1
<1> HIDE DEF t
<1>3. Increasing(t)
  BY <1>1, <1>2 DEF Increasing
<1>4. Above(t, Head(s))
  BY <1>1 DEF Increasing, Above
<1>5. \A m \in Nat : UpTo(s, m) => UpTo(t, m) /\ Head(s) <= m
  BY <1>1 DEF UpTo
<1>6. \A m \in Nat : Above(s, m) => Above(t, m)
  BY <1>1 DEF Above
<1> QED
  BY <1>1, <1>3, <1>4, <1>5, <1>6 DEF t

(* ChannelInv holds initially: every line is empty. *)
LEMMA ChannelInvInit == Init => ChannelInv
  BY EmptyLine DEF Init, ChannelInv, TypeOK, KnownFrames, InOrder, BehindReplay, AfterDiscard

(* A bound on a line's entries may be raised. *)
LEMMA UpToWeaken ==
  ASSUME NEW s \in Seq(Nat), NEW n \in Nat, UpTo(s, n)
  PROVE  UpTo(s, n + 1)
<1>1. \A i \in DOMAIN s : s[i] \in Nat
  OBVIOUS
<1> QED
  BY <1>1 DEF UpTo

(* Accepting a frame: its number is larger than every number in use. *)
LEMMA ChannelInvAccept ==
  ASSUME ChannelInv, NEW d \in Direction, Accept(d)
  PROVE  ChannelInv'
<1> USE DEF ChannelInv, TypeOK, KnownFrames, InOrder, BehindReplay, AfterDiscard
<1> DEFINE new == Append(pending[d], arrived + 1)
<1>1. /\ pending' = [pending EXCEPT ![d] = new]
      /\ pending'[d] = new
      /\ \A x \in Direction \ {d} : pending'[x] = pending[x]
      /\ arrived' = arrived + 1
      /\ UNCHANGED <<delivered, discarded, replayed>>
  BY DEF Accept
<1>2. /\ new \in Seq(Nat)
      /\ Increasing(new)
      /\ UpTo(new, arrived + 1)
      /\ Above(new, delivered[d]) /\ Above(new, replayed) /\ Above(new, discarded[d])
  BY AppendLine
<1>3. \A x \in Direction \ {d} : UpTo(pending[x], arrived + 1)
  BY UpToWeaken
<1> HIDE DEF new
<1>4. TypeOK'
  BY <1>1, <1>2
<1>5. KnownFrames'
  BY <1>1, <1>2, <1>3
<1> QED
  BY <1>1, <1>2, <1>4, <1>5

(* The head of a line is smaller than the rest of it. *)
LEMMA ChannelInvDeliver ==
  ASSUME ChannelInv, NEW d \in Direction, Deliver(d)
  PROVE  ChannelInv'
<1> USE DEF ChannelInv, TypeOK, KnownFrames, InOrder, BehindReplay, AfterDiscard
<1> DEFINE new == Tail(pending[d])
           head == Head(pending[d])
<1>1. /\ pending[d] # <<>>
      /\ pending' = [pending EXCEPT ![d] = new]
      /\ pending'[d] = new
      /\ \A x \in Direction \ {d} : pending'[x] = pending[x] /\ delivered'[x] = delivered[x]
      /\ delivered' = [delivered EXCEPT ![d] = head]
      /\ delivered'[d] = head
      /\ UNCHANGED <<arrived, discarded, replayed>>
  BY DEF Deliver
<1>2. /\ new \in Seq(Nat)
      /\ head \in Nat /\ head <= arrived
      /\ Increasing(new)
      /\ UpTo(new, arrived)
      /\ Above(new, head) /\ Above(new, replayed) /\ Above(new, discarded[d])
  BY <1>1, TailLine
<1> HIDE DEF new, head
<1>3. TypeOK'
  BY <1>1, <1>2
<1> QED
  BY <1>1, <1>2, <1>3

(* Discarded lines are empty; the others are as they were. *)
LEMMA ChannelInvDiscard ==
  ASSUME ChannelInv, NEW lines \in SUBSET Direction, Discard(lines)
  PROVE  ChannelInv'
<1> USE DEF ChannelInv, TypeOK, KnownFrames, InOrder, BehindReplay, AfterDiscard
<1>1. \A d \in Direction \ lines :
        pending'[d] = pending[d] /\ discarded'[d] = discarded[d]
  BY DEF Discard
<1>2. \A d \in lines : pending'[d] = <<>> /\ discarded'[d] = arrived
  BY DEF Discard
<1>3. UNCHANGED <<arrived, delivered, replayed>>
  BY DEF Discard
<1>4. TypeOK'
  BY <1>3 DEF Discard
<1>5. \A d \in lines : /\ Increasing(pending'[d]) /\ Above(pending'[d], delivered[d])
                       /\ Above(pending'[d], replayed) /\ Above(pending'[d], arrived)
                       /\ UpTo(pending'[d], arrived)
  BY <1>2, EmptyLine
<1> QED
  <2>1. KnownFrames'
    BY <1>1, <1>2, <1>3, <1>5
  <2>2. InOrder'
    BY <1>1, <1>3, <1>5
  <2>3. BehindReplay'
    BY <1>1, <1>3, <1>5
  <2>4. AfterDiscard'
    BY <1>1, <1>2, <1>3, <1>5
  <2> QED
    BY <1>4, <2>1, <2>2, <2>3, <2>4

(* Replay finds every line empty, so nothing can wait behind it. *)
LEMMA ChannelInvReplay ==
  ASSUME ChannelInv, Replay
  PROVE  ChannelInv'
  BY EmptyLine
  DEF Replay, ChannelInv, TypeOK, KnownFrames, InOrder, BehindReplay, AfterDiscard

LEMMA ChannelInvNext == ChannelInv /\ [Next]_channelVars => ChannelInv'
<1> SUFFICES ASSUME ChannelInv, [Next]_channelVars PROVE ChannelInv'
  OBVIOUS
<1>1. CASE UNCHANGED channelVars
  BY <1>1 DEF channelVars, ChannelInv, TypeOK, KnownFrames, InOrder, BehindReplay, AfterDiscard
<1> QED
  BY <1>1, ChannelInvAccept, ChannelInvDeliver, ChannelInvDiscard, ChannelInvReplay DEF Next

(* The abstract channel never reorders a line, never lets a replayed frame   *)
(* overtake an accepted one and never keeps a frame past a discard.          *)
THEOREM ChannelCorrect == Spec => []ChannelInv
  BY ChannelInvInit, ChannelInvNext, PTL DEF Spec
=============================================================================
