-------------------------- MODULE CrossCoreProofs --------------------------
(***************************************************************************)
(* What the two cores do to each other outside the rules and the diagnostic *)
(* job, for every value of the constants: the replay keeps to its log and   *)
(* its delays, the trace queue accounts for every event, the frame cache is *)
(* copied at one moment, and the parked power handshake is safe. The copies *)
(* of the other protocols are the matter of ReadProofs; in the end, what    *)
(* all of them promise is carried over to their composition.                *)
(***************************************************************************)
EXTENDS CrossCore, ReadProofs, SequenceTheorems

(* Division *)

\* What the remainder of a division and its quotient are.
LEMMA Division ==
    ASSUME NEW x \in Int, NEW m \in Nat \ {0}
    PROVE  /\ x % m \in 0..m - 1 /\ x \div m \in Int
           /\ x = m * (x \div m) + (x % m)
  OBVIOUS

LEMMA Multiples ==
    ASSUME NEW m \in Nat \ {0}, NEW q \in Int, NEW p \in Int, q > p
    PROVE  m * q \in Int /\ m * p \in Int /\ m * q >= m * p + m
<1>1. PICK d \in Nat : q = p + 1 + d
  <2>1. q - p - 1 \in Nat /\ q = p + 1 + (q - p - 1)
    OBVIOUS
  <2> QED
    BY <2>1
<1>2. m * q = m * p + m + m * d /\ m * d \in Nat /\ m * p \in Int
  BY <1>1
<1> QED
  BY <1>2

\* There is one quotient and one remainder.
LEMMA Remainder ==
    ASSUME NEW m \in Nat \ {0}, NEW q \in Int, NEW r \in 0..m - 1, NEW x \in Int, x = m * q + r
    PROVE  x % m = r /\ x \div m = q
<1> DEFINE p == x \div m
           s == x % m
<1>1. s \in 0..m - 1 /\ p \in Int /\ x = m * p + s
  BY Division
<1> HIDE DEF p, s
<1>2. CASE q > p
  BY <1>1, <1>2, Multiples
<1>3. CASE q < p
  BY <1>1, <1>3, Multiples
<1>4. CASE q = p
  BY <1>1, <1>4 DEF p, s
<1> QED
  BY <1>1, <1>2, <1>3, <1>4

LEMMA Parts ==
    ASSUME NEW x \in Int, NEW m \in Nat \ {0}
    PROVE  \E q \in Int : \E r \in 0..m - 1 : x = m * q + r /\ q = x \div m /\ r = x % m
<1>1. /\ x % m \in 0..m - 1 /\ x \div m \in Int
      /\ x = m * (x \div m) + (x % m)
  BY Division
<1>2. PICK r \in 0..m - 1 : r = x % m
  BY <1>1
<1>3. PICK q \in Int : q = x \div m
  BY <1>1
<1> QED
  BY <1>1, <1>2, <1>3

\* Counting goes round.
LEMMA GoesRound ==
    ASSUME NEW n \in Nat, NEW l \in Nat \ {0}
    PROVE  /\ n % l \in 0..l - 1
           /\ (n + 1) % l = IF (n % l) + 1 < l THEN (n % l) + 1 ELSE 0
<1>1. n \in Int
  OBVIOUS
<1>2. PICK q \in Int : \E r \in 0..l - 1 : n = l * q + r /\ q = n \div l /\ r = n % l
  BY <1>1, Parts
<1>3. PICK r \in 0..l - 1 : n = l * q + r /\ r = n % l
  BY <1>2
<1>4. PICK p \in Int : p = l * q /\ l * (q + 1) = p + l
  OBVIOUS
<1>5. n = p + r
  BY <1>3, <1>4
<1>6. PICK x \in Int : x = n + 1
  OBVIOUS
<1>7. CASE r + 1 < l
  <2>1. PICK s \in 0..l - 1 : s = r + 1
    BY <1>7
  <2>2. x = p + s
    BY <1>5, <1>6, <2>1
  <2>3. x = l * q + s
    BY <1>4, <2>2
  <2>4. x % l = s
    BY <2>3, Remainder
  <2> QED
    BY <1>3, <1>6, <1>7, <2>1, <2>4
<1>8. CASE ~(r + 1 < l)
  <2>1. PICK t \in Int : t = q + 1
    OBVIOUS
  <2>2. PICK s \in 0..l - 1 : s = 0
    OBVIOUS
  <2>3. x = (p + l) + s
    BY <1>5, <1>6, <1>8, <2>2
  <2>4. x = l * t + s
    BY <1>4, <2>1, <2>3
  <2>5. x % l = s
    BY <2>4, Remainder
  <2> QED
    BY <1>3, <1>6, <1>8, <2>2, <2>5
<1> QED
  BY <1>7, <1>8

\* A number below m is its own remainder.
LEMMA SmallRemainder ==
    ASSUME NEW m \in Nat \ {0}, NEW r \in 0..m - 1
    PROVE  r % m = r
<1>1. PICK q \in Int : q = 0
  OBVIOUS
<1>2. m * q = 0
  BY <1>1
<1>3. r \in Int /\ r = m * q + r
  BY <1>2
<1> QED
  BY <1>3, Remainder

\* The slot of an index, of one that has been wrapped.
LEMMA SlotOfWrapped ==
    ASSUME NEW x \in Int, NEW s \in Nat \ {0}, NEW c \in Nat \ {0}, s % c = 0
    PROVE  (x % s) % c = x % c
<1>1. PICK q \in Int : \E r \in 0..s - 1 : x = s * q + r /\ q = x \div s /\ r = x % s
  BY Parts
<1>2. PICK r \in 0..s - 1 : x = s * q + r /\ r = x % s
  BY <1>1
<1>3. s \in Int /\ r \in Int
  OBVIOUS
<1>4. PICK d \in Int : \E z \in 0..c - 1 : s = c * d + z /\ d = s \div c /\ z = s % c
  BY <1>3, Parts
<1>5. s = c * d
  BY <1>4
<1>6. PICK p \in Int : \E t \in 0..c - 1 : r = c * p + t /\ p = r \div c /\ t = r % c
  BY <1>3, Parts
<1>7. PICK t \in 0..c - 1 : r = c * p + t /\ t = r % c
  BY <1>6
<1>8. PICK e \in Int : e = (d * q) + p
  OBVIOUS
<1>9. c * e = (c * d) * q + c * p
  BY <1>8
<1>10. c * e = s * q + c * p
  BY <1>5, <1>9
<1>11. PICK a \in Int, b \in Int : a = s * q /\ b = c * p
  OBVIOUS
<1>12. x = a + (b + t)
  BY <1>2, <1>7, <1>11
<1>13. x = (a + b) + t
  BY <1>12
<1>14. x = c * e + t
  BY <1>10, <1>11, <1>13
<1>15. x % c = t
  BY <1>14, Remainder
<1> QED
  BY <1>2, <1>7, <1>15

LEMMA WrappedSuccessor ==
    ASSUME NEW x \in Nat, NEW s \in Nat \ {0}
    PROVE  ((x % s) + 1) % s = (x + 1) % s
<1>1. PICK r \in 0..s - 1 : r = x % s
  BY GoesRound
<1>2. r \in Nat /\ r % s = r
  BY SmallRemainder
<1>3. (r + 1) % s = IF r + 1 < s THEN r + 1 ELSE 0
  BY <1>2, GoesRound
<1>4. (x + 1) % s = IF r + 1 < s THEN r + 1 ELSE 0
  BY <1>1, GoesRound
<1> QED
  BY <1>1, <1>3, <1>4

\* The distance of two indices is that of the counts they wrap.
LEMMA WrappedDistance ==
    ASSUME NEW x \in Nat, NEW y \in Nat, NEW s \in Nat \ {0}, x <= y, y - x < s
    PROVE  ((y % s) - (x % s)) % s = y - x
<1>1. PICK d \in 0..s - 1 : d = y - x
  OBVIOUS
<1>2. x \in Int /\ y \in Int
  OBVIOUS
<1>3. PICK p \in Int : \E r \in 0..s - 1 : x = s * p + r /\ p = x \div s /\ r = x % s
  BY <1>2, Parts
<1>4. PICK r \in 0..s - 1 : x = s * p + r /\ r = x % s
  BY <1>3
<1>5. PICK q \in Int : \E t \in 0..s - 1 : y = s * q + t /\ q = y \div s /\ t = y % s
  BY <1>2, Parts
<1>6. PICK t \in 0..s - 1 : y = s * q + t /\ t = y % s
  BY <1>5
<1>7. PICK a \in Int, b \in Int : a = s * p /\ b = s * q
  OBVIOUS
<1>8. PICK e \in Int : e = p - q
  OBVIOUS
<1>9. s * e = a - b
  BY <1>7, <1>8
<1>10. x = a + r /\ y = b + t
  BY <1>4, <1>6, <1>7
<1>11. PICK z \in Int : z = t - r
  OBVIOUS
<1>12. z = (a - b) + d
  BY <1>1, <1>10, <1>11
<1>13. z = s * e + d
  BY <1>9, <1>12
<1>14. z % s = d
  BY <1>13, Remainder
<1> QED
  BY <1>1, <1>4, <1>6, <1>11, <1>14

\* Indices less than the capacity apart have slots of their own.
LEMMA SlotsApart ==
    ASSUME NEW x \in Nat, NEW y \in Nat, NEW c \in Nat \ {0}, x < y, y - x < c
    PROVE  x % c # y % c
<1> SUFFICES ASSUME x % c = y % c PROVE FALSE
  OBVIOUS
<1>1. ((y % c) - (x % c)) % c = y - x
  <2>1. x <= y
    OBVIOUS
  <2> QED
    BY <2>1, WrappedDistance
<1>2. PICK r \in Int : r = x % c /\ r = y % c
  BY GoesRound
<1>3. (r - r) % c = y - x
  BY <1>1, <1>2
<1>4. PICK z \in 0..c - 1 : z = 0 /\ z = r - r
  OBVIOUS
<1>5. z % c = z
  BY SmallRemainder
<1> QED
  BY <1>3, <1>4, <1>5

\* A set of numbers has a least one.
LEMMA LeastNumber ==
    ASSUME NEW S \in SUBSET Nat, NEW n \in S
    PROVE  \E m \in S : \A k \in 0..m - 1 : k \notin S
<1> DEFINE R == OpToRel(<, Nat)
<1>1. IsWellFoundedOn(R, Nat)
  BY NatLessThanWellFounded
<1>2. \A x, y \in Nat : x < y => <<x, y>> \in R
  BY DEF OpToRel
<1> HIDE DEF R
<1>3. S \subseteq Nat /\ S # {}
  OBVIOUS
<1>4. PICK m \in S : \A y \in S : ~(<<y, m>> \in R)
  BY <1>1, <1>3, WFMin
<1>5. ASSUME NEW k \in 0..m - 1 PROVE k \notin S
  <2>1. k \in Nat /\ m \in Nat /\ k < m
    BY <1>3
  <2> QED
    BY <1>2, <1>4, <2>1
<1> QED
  BY <1>5

\* Every slot is probed from every home.
LEMMA ProbesReachAll ==
    ASSUME NEW m \in Nat \ {0}, NEW h \in 0..m - 1, NEW s \in 0..m - 1
    PROVE  \E n \in 0..m - 1 : (h + n) % m = s
<1>1. CASE h <= s
  <2>1. PICK n \in 0..m - 1 : n = s - h
    BY <1>1
  <2>2. h + n = s /\ s % m = s
    BY <2>1, SmallRemainder
  <2> QED
    BY <2>2
<1>2. CASE h > s
  <2>1. PICK n \in 0..m - 1 : n = s - h + m
    BY <1>2
  <2>2. h + n = m * 1 + s /\ h + n \in Int
    BY <2>1
  <2>3. (h + n) % m = s
    BY <2>2, Remainder
  <2> QED
    BY <2>3
<1> QED
  BY <1>1, <1>2
-----------------------------------------------------------------------------
(* The replay *)

\* As long as the clock does not wrap in between, a due time is not reached early.
LEMMA DueInTime ==
    ASSUME NEW from \in Nat, NEW delay \in 0..ReplaySpan - 1, NEW at \in Nat,
           MicrosAt(at) >= MicrosAt(from + delay)
    PROVE  at >= from + delay \/ Wraps(from, delay, at)
<1> SUFFICES ASSUME ~Wraps(from, delay, at) PROVE at >= from + delay
  OBVIOUS
<1>1. PICK m \in Nat \ {0} : m = ReplaySpan
  BY ReplayAssumption
<1>2. from \in Int /\ at \in Int
  OBVIOUS
<1>3. PICK q \in Int : \E r \in 0..m - 1 : from = m * q + r /\ q = from \div m /\ r = from % m
  BY <1>2, Parts
<1>4. PICK r \in 0..m - 1 : from = m * q + r /\ r = from % m
  BY <1>3
<1>5. PICK o \in Int : \E s \in 0..m - 1 : at = m * o + s /\ o = at \div m /\ s = at % m
  BY <1>2, Parts
<1>6. o = q
  BY <1>1, <1>3, <1>5 DEF Wraps
<1>7. PICK s \in 0..m - 1 : at = m * q + s /\ s = at % m
  BY <1>5, <1>6
<1>8. PICK p \in Int : p = m * q
  OBVIOUS
<1>9. PICK t \in 0..m - 1 : t = r + delay
  <2>1. r + delay < m
    BY <1>1, <1>4 DEF Wraps, MicrosAt
  <2> QED
    BY <1>1, <2>1
<1>10. PICK x \in Int : x = from + delay
  OBVIOUS
<1>11. from = p + r /\ at = p + s
  BY <1>4, <1>7, <1>8
<1>12. x = p + t
  BY <1>9, <1>10, <1>11
<1>13. x = m * q + t
  BY <1>8, <1>12
<1>14. x % m = t
  BY <1>13, Remainder
<1>15. s >= t
  BY <1>1, <1>7, <1>10, <1>14 DEF MicrosAt
<1> QED
  BY <1>10, <1>11, <1>12, <1>15

\* The frame to be sent next, and the time it is due.
OnCue ==
    engine.playing =>
        /\ engine.log # <<>>
        /\ engine.cursor = (Len(sent) % Len(engine.log)) + 1
        /\ engine.due =
             IF sent = <<>> THEN MicrosAt(start.at + start.delay)
             ELSE MicrosAt(sent[Len(sent)].at + engine.log[engine.cursor])

ReplayInv == ReplayTypeOK /\ OnCue /\ ReplayPaced

LEMMA LogFacts ==
    ASSUME NEW l \in Log
    PROVE  /\ Len(l) \in 0..MaxReplayFrames
           /\ l # <<>> => Len(l) \in Nat \ {0}
           /\ \A i \in 1..Len(l) : l[i] \in Delay /\ l[i] \in 0..ReplaySpan - 1
<1>1. PICK n \in 0..MaxReplayFrames : l \in [1..n -> Delay]
  BY DEF Log
<1>2. n \in Nat /\ Len(l) = n /\ l \in Seq(Delay)
  BY <1>1, ReplayAssumption
<1>3. l # <<>> => n # 0
  BY <1>1, <1>2
<1> QED
  BY <1>1, <1>2, <1>3, ReplayAssumption

LEMMA ReplayInitInv == ReplayInit => ReplayInv
<1> SUFFICES ASSUME ReplayInit PROVE ReplayInv
  OBVIOUS
<1> USE DEF ReplayInit
<1>1. MaxReplayFrames \in Nat \ {0} /\ MaxReplayTime \in Nat /\ MaxSent \in Nat
      /\ MaxFramesPerTick \in Nat /\ ReplaySpan \in Nat \ {0} /\ 0 \in Delay
  BY ReplayAssumption
<1>2. <<>> \in Log
  <2>1. <<>> \in [1..0 -> Delay] /\ 0 \in 0..MaxReplayFrames
    BY <1>1
  <2> QED
    BY <2>1 DEF Log
<1>3. engine \in [log: Log, cursor: 1..MaxReplayFrames, playing: BOOLEAN, loop: LoopMode,
                  due: 0..ReplaySpan - 1]
  BY <1>1, <1>2 DEF LoopMode
<1>4. /\ replayTick \in [at: {"begin", "try", "tick"}, now: 0..MaxReplayTime,
                       dispatched: 0..MaxFramesPerTick]
      /\ start \in [at: 0..MaxReplayTime, delay: Delay]
  BY <1>1 DEF BeforeTick
<1>5. ReplayTypeOK
  BY <1>1, <1>3, <1>4 DEF ReplayTypeOK
<1> QED
  BY <1>5 DEF ReplayInv, OnCue, ReplayPaced

LEMMA MicrosInRange ==
    ASSUME NEW t \in Nat PROVE MicrosAt(t) \in 0..ReplaySpan - 1
  BY Division, ReplayAssumption DEF MicrosAt

\* What neither sends nor plays.
LEMMA SilentStep ==
    ASSUME ReplayInv, ReplayTypeOK', UNCHANGED <<sent, start>>,
           engine' = engine \/ engine' = [engine EXCEPT !.playing = FALSE]
    PROVE  ReplayInv'
<1>1. engine' = engine \/ (engine'.log = engine.log /\ ~engine'.playing)
  BY DEF ReplayInv, ReplayTypeOK
<1>2. sent' = sent /\ start' = start /\ engine'.log = engine.log
  BY <1>1
<1>3. OnCue'
  BY <1>1, <1>2 DEF ReplayInv, OnCue
<1>4. ReplayPaced'
  BY <1>2 DEF ReplayInv, ReplayPaced
<1> QED
  BY <1>3, <1>4 DEF ReplayInv

LEMMA HandlingStep == ReplayInv /\ Handling => ReplayInv'
<1> SUFFICES ASSUME ReplayInv, Handling PROVE ReplayInv'
  OBVIOUS
<1>0. ReplayTypeOK /\ MaxReplayFrames \in Nat \ {0} /\ MaxSent \in Nat
  BY ReplayAssumption DEF ReplayInv
<1>1. CASE TakeReplayLock
  <2>1. ReplayTypeOK'
    BY <1>0, <1>1 DEF TakeReplayLock, ReplayTypeOK
  <2> QED
    BY <1>1, <2>1, SilentStep DEF TakeReplayLock
<1>2. CASE StopReplay
  <2>1. engine' = [engine EXCEPT !.playing = FALSE] /\ UNCHANGED <<start, sent, replayTime, replayTick>>
        /\ replayLock' = "none"
    BY <1>2 DEF StopReplay, Handler
  <2>2. engine' \in [log: Log, cursor: 1..MaxReplayFrames, playing: BOOLEAN, loop: LoopMode,
                     due: 0..ReplaySpan - 1]
    BY <1>0, <2>1 DEF ReplayTypeOK
  <2> QED
    BY <1>0, <2>1, <2>2, SilentStep DEF ReplayTypeOK
<1>3. ASSUME NEW log \in Log, LoadReplay(log) PROVE ReplayInv'
  <2>1. /\ engine' = [engine EXCEPT !.log = log, !.cursor = 1, !.playing = FALSE]
        /\ sent' = <<>> /\ UNCHANGED <<start, replayTime, replayTick>> /\ replayLock' = "none"
    BY <1>3 DEF LoadReplay, Handler
  <2>2. 1 \in 1..MaxReplayFrames
    BY <1>0
  <2>3. /\ engine' \in [log: Log, cursor: 1..MaxReplayFrames, playing: BOOLEAN, loop: LoopMode,
                        due: 0..ReplaySpan - 1]
        /\ ~engine'.playing
    BY <1>0, <2>1, <2>2 DEF ReplayTypeOK
  <2>4. Len(sent') <= MaxSent /\ sent' \in Seq([frame: 1..MaxReplayFrames, at: 0..MaxReplayTime])
    BY <1>0, <2>1
  <2>5. ReplayTypeOK'
    BY <1>0, <2>1, <2>3, <2>4 DEF ReplayTypeOK
  <2> QED
    BY <2>1, <2>3, <2>5 DEF ReplayInv, OnCue, ReplayPaced
<1>4. ASSUME NEW log \in Log, NEW mode \in LoopMode, NEW delay \in Delay, Handler, Plays(log, mode, delay)
      PROVE  ReplayInv'
  <2>1. /\ log # <<>> /\ sent' = <<>>
        /\ engine' = [log |-> log, cursor |-> 1, playing |-> TRUE, loop |-> mode,
                      due |-> MicrosAt(replayTime + delay)]
        /\ start' = [at |-> replayTime, delay |-> delay]
        /\ UNCHANGED <<replayTime, replayTick>> /\ replayLock' = "none"
    BY <1>4 DEF Plays, Handler
  <2>2. MicrosAt(replayTime + delay) \in 0..ReplaySpan - 1
    <3>1. replayTime + delay \in Nat
      BY <1>0, ReplayAssumption DEF ReplayTypeOK
    <3> QED
      BY <3>1, MicrosInRange
  <2>3. 1 \in 1..MaxReplayFrames
    BY <1>0
  <2>4. Len(sent') <= MaxSent /\ sent' \in Seq([frame: 1..MaxReplayFrames, at: 0..MaxReplayTime])
    BY <1>0, <2>1
  <2>5. ReplayTypeOK'
    BY <1>0, <2>1, <2>2, <2>3, <2>4 DEF ReplayTypeOK
  <2>6. Len(sent') = 0 /\ Len(log) \in Nat \ {0} /\ 0 % Len(log) = 0
    <3>1. Len(log) \in Nat \ {0}
      BY <2>1, LogFacts
    <3> QED
      BY <2>1, <3>1
  <2>7. OnCue'
    BY <2>1, <2>6 DEF OnCue
  <2> QED
    BY <2>1, <2>5, <2>7 DEF ReplayInv, ReplayPaced
<1>5. engine.log \in Log /\ "PLAY_ONCE" \in LoopMode
  BY <1>0 DEF ReplayTypeOK, LoopMode
<1> QED
  BY <1>1, <1>2, <1>3, <1>4, <1>5 DEF Handling, StartReplay, SendReplay

\* A frame that is due, sent.
LEMMA SentStep ==
    ASSUME ReplayInv, ReplayAt("tick"), FrameDue, Len(sent) < MaxSent, Dispatched,
           engine'.log = engine.log
    PROVE  /\ ReplayPaced'
           /\ sent' \in Seq([frame: 1..MaxReplayFrames, at: 0..MaxReplayTime])
           /\ Len(sent') = Len(sent) + 1 /\ Len(sent') <= MaxSent
           /\ sent'[Len(sent')].at = replayTick.now
<1> DEFINE n == Len(sent) + 1
           e == [frame |-> engine.cursor, at |-> replayTick.now]
<1>1. /\ ReplayTypeOK /\ engine.playing /\ engine.log \in Log /\ engine.log # <<>>
      /\ engine.cursor = (Len(sent) % Len(engine.log)) + 1
      /\ MicrosAt(replayTick.now) >= engine.due
      /\ sent' = Append(sent, e) /\ UNCHANGED start
  BY DEF ReplayInv, ReplayTypeOK, FrameDue, OnCue, Dispatched, ReplayAt
<1>2. e \in [frame: 1..MaxReplayFrames, at: 0..MaxReplayTime]
  BY <1>1 DEF ReplayTypeOK
<1>3. sent \in Seq([frame: 1..MaxReplayFrames, at: 0..MaxReplayTime]) /\ Len(sent) \in Nat
  BY <1>1 DEF ReplayTypeOK
<1> HIDE DEF e
<1>4. /\ sent' \in Seq([frame: 1..MaxReplayFrames, at: 0..MaxReplayTime])
      /\ Len(sent') = n /\ sent'[n] = e /\ DOMAIN sent' = 1..n /\ DOMAIN sent = 1..Len(sent)
      /\ \A i \in 1..Len(sent) : sent'[i] = sent[i]
  BY <1>1, <1>2, <1>3
<1>5. e.frame = engine.cursor /\ e.at = replayTick.now /\ e.at \in Nat
  BY <1>1 DEF e, ReplayTypeOK
<1>6. Len(engine.log) \in Nat \ {0}
  BY <1>1, LogFacts
<1>7. engine.cursor \in 1..Len(engine.log)
  <2>1. PICK l \in Nat \ {0} : l = Len(engine.log)
    BY <1>6
  <2>2. PICK r \in 0..l - 1 : r = Len(sent) % l
    BY <1>3, GoesRound
  <2>3. engine.cursor = r + 1
    BY <1>1, <2>1, <2>2
  <2> QED
    BY <2>1, <2>3
<1> DEFINE from == IF n = 1 THEN start.at ELSE sent[Len(sent)].at
           delay == IF n = 1 THEN start.delay ELSE engine.log[engine.cursor]
<1>8. from \in Nat /\ delay \in 0..ReplaySpan - 1
  <2>1. start.at \in Nat /\ start.delay \in 0..ReplaySpan - 1
    <3>1. start.at \in 0..MaxReplayTime /\ start.delay \in Delay
      BY <1>1 DEF ReplayTypeOK
    <3>2. start.at \in Nat
      BY <3>1, ReplayAssumption
    <3>3. Delay \subseteq 0..ReplaySpan - 1
      BY ReplayAssumption
    <3>4. start.delay \in 0..ReplaySpan - 1
      BY <3>1, <3>3
    <3> QED
      BY <3>2, <3>4
  <2>2. n # 1 => sent[Len(sent)].at \in Nat
    <3>1. n # 1 => Len(sent) \in 1..Len(sent)
      BY <1>3
    <3>2. \A i \in 1..Len(sent) : sent[i] \in [frame: 1..MaxReplayFrames, at: 0..MaxReplayTime]
      BY <1>3, ElementOfSeq
    <3>3. \A i \in 1..Len(sent) : sent[i].at \in 0..MaxReplayTime
      BY <3>2
    <3> QED
      BY <3>1, <3>3
  <2>3. engine.log[engine.cursor] \in 0..ReplaySpan - 1
    BY <1>1, <1>7, LogFacts
  <2> QED
    BY <2>1, <2>2, <2>3
<1>9. engine.due = MicrosAt(from + delay)
  <2>1. n = 1 <=> sent = <<>>
    BY <1>3
  <2> QED
    BY <1>1, <2>1 DEF ReplayInv, OnCue
<1>10. e.at >= from + delay \/ Wraps(from, delay, e.at)
  BY <1>1, <1>5, <1>8, <1>9, DueInTime
<1>11. \A i \in 1..n : i # n => i \in 1..Len(sent) /\ (i # 1 => i - 1 \in 1..Len(sent))
  BY <1>3
<1>12. n # 1 => n - 1 = Len(sent) /\ Len(sent) \in 1..Len(sent)
  BY <1>3
<1>13. ReplayPaced'
  <2> SUFFICES ASSUME NEW i \in 1..n
               PROVE  /\ sent'[i].frame = ((i - 1) % Len(engine.log)) + 1
                      /\ LET f == IF i = 1 THEN start.at ELSE sent'[i - 1].at
                             d == IF i = 1 THEN start.delay ELSE engine.log[sent'[i].frame]
                         IN  sent'[i].at >= f + d \/ Wraps(f, d, sent'[i].at)
    BY <1>1, <1>4, ZenonT(60) DEF ReplayPaced
  <2>1. CASE i = n
    <3>1. i - 1 = Len(sent)
      BY <1>3, <2>1
    <3>2. i # 1 => sent'[i - 1] = sent[Len(sent)]
      BY <1>4, <1>12, <2>1, <3>1
    <3> QED
      BY <1>1, <1>4, <1>5, <1>10, <2>1, <3>1, <3>2, ZenonT(60)
  <2>2. CASE i # n
    <3>1. sent'[i] = sent[i] /\ (i # 1 => sent'[i - 1] = sent[i - 1])
      BY <1>4, <1>11, <2>2
    <3>2. i \in DOMAIN sent
      BY <1>4, <1>11, <2>2
    <3> QED
      BY <3>1, <3>2 DEF ReplayInv, ReplayPaced
  <2> QED
    BY <2>1, <2>2
<1> QED
  BY <1>1, <1>3, <1>4, <1>5, <1>13, ReplayAssumption

LEMMA DispatchLastStep == ReplayInv /\ DispatchLast => ReplayInv'
<1> SUFFICES ASSUME ReplayInv, DispatchLast PROVE ReplayInv'
  OBVIOUS
<1>1. /\ engine' = [engine EXCEPT !.playing = FALSE] /\ replayLock' = "none" /\ replayTick' = BeforeTick
      /\ UNCHANGED <<replayTime, start>> /\ ReplayTypeOK
  BY DEF DispatchLast, EndsTick, ReplayAt, ReplayInv
<1>2. /\ engine' \in [log: Log, cursor: 1..MaxReplayFrames, playing: BOOLEAN, loop: LoopMode,
                      due: 0..ReplaySpan - 1]
      /\ ~engine'.playing /\ engine'.log = engine.log
  BY <1>1 DEF ReplayTypeOK
<1>3. /\ ReplayPaced'
      /\ sent' \in Seq([frame: 1..MaxReplayFrames, at: 0..MaxReplayTime]) /\ Len(sent') <= MaxSent
  BY <1>2, SentStep DEF DispatchLast
<1>4. replayTick' \in [at: {"begin", "try", "tick"}, now: 0..MaxReplayTime,
                       dispatched: 0..MaxFramesPerTick]
  BY <1>1, ReplayAssumption DEF BeforeTick
<1>5. ReplayTypeOK'
  BY <1>1, <1>2, <1>3, <1>4 DEF ReplayTypeOK
<1> QED
  BY <1>2, <1>3, <1>5 DEF ReplayInv, OnCue

LEMMA DispatchNextStep ==
    ASSUME ReplayInv, NEW accepted \in BOOLEAN, DispatchNext(accepted)
    PROVE  ReplayInv'
<1> DEFINE next == IF engine.cursor < Len(engine.log) THEN engine.cursor + 1 ELSE 1
           due == MicrosAt(replayTick.now + engine.log[next])
<1>1. /\ engine' = [engine EXCEPT !.cursor = next, !.due = due]
      /\ UNCHANGED <<replayTime, start>> /\ ReplayTypeOK
      /\ \/ replayLock' = "none" /\ replayTick' = BeforeTick
         \/ replayTick' = [replayTick EXCEPT !.dispatched = @ + 1] /\ UNCHANGED replayLock
      /\ replayTick.dispatched < MaxFramesPerTick /\ engine.playing
  BY DEF DispatchNext, EndsTick, GoesOn, ReplayAt, ReplayInv, FrameDue
<1>2. /\ engine.log \in Log /\ Len(engine.log) \in Nat \ {0} /\ Len(engine.log) <= MaxReplayFrames
      /\ MaxReplayFrames \in Nat
      /\ engine.cursor = (Len(sent) % Len(engine.log)) + 1 /\ Len(sent) \in Nat
  BY <1>1, LogFacts, ReplayAssumption DEF ReplayInv, OnCue, ReplayTypeOK
<1>3. next = ((Len(sent) + 1) % Len(engine.log)) + 1 /\ next \in 1..Len(engine.log)
  <2>1. PICK l \in Nat \ {0} : l = Len(engine.log)
    BY <1>2
  <2>2. PICK r \in 0..l - 1 : r = Len(sent) % l
    BY <1>2, <2>1, GoesRound
  <2>3. (Len(sent) + 1) % l = IF r + 1 < l THEN r + 1 ELSE 0
    BY <1>2, <2>1, <2>2, GoesRound
  <2>4. PICK c \in 1..l : c = engine.cursor /\ c = r + 1
    <3>1. engine.cursor = r + 1
      BY <1>2, <2>1, <2>2
    <3> QED
      BY <3>1
  <2>5. next = IF c < l THEN c + 1 ELSE 1
    BY <2>1, <2>4
  <2>6. next \in 1..l
    BY <2>4, <2>5
  <2>7. next = (IF r + 1 < l THEN r + 1 ELSE 0) + 1
    BY <2>4, <2>5
  <2> QED
    BY <2>1, <2>3, <2>6, <2>7
<1>4. replayTick.now \in Nat /\ engine.log[next] \in Nat
  BY <1>1, <1>2, <1>3, LogFacts, ReplayAssumption, SMTT(30) DEF ReplayTypeOK
<1>5. due \in 0..ReplaySpan - 1
  <2>1. replayTick.now + engine.log[next] \in Nat
    BY <1>4
  <2> QED
    BY <2>1, MicrosInRange
<1> HIDE DEF next, due
<1>6. next \in 1..MaxReplayFrames
  <2>1. PICK l \in Nat \ {0} : l = Len(engine.log) /\ l <= MaxReplayFrames
    BY <1>2
  <2>2. next \in 1..l
    BY <1>3, <2>1
  <2> QED
    BY <1>2, <2>1, <2>2
<1>7. /\ engine' \in [log: Log, cursor: 1..MaxReplayFrames, playing: BOOLEAN, loop: LoopMode,
                      due: 0..ReplaySpan - 1]
      /\ engine'.log = engine.log /\ engine'.cursor = next /\ engine'.due = due
  BY <1>1, <1>5, <1>6 DEF ReplayTypeOK
<1>8. /\ ReplayPaced'
      /\ sent' \in Seq([frame: 1..MaxReplayFrames, at: 0..MaxReplayTime]) /\ Len(sent') <= MaxSent
      /\ Len(sent') = Len(sent) + 1 /\ sent'[Len(sent')].at = replayTick.now
  BY <1>7, SentStep DEF DispatchNext
<1>9. replayTick' \in [at: {"begin", "try", "tick"}, now: 0..MaxReplayTime,
                       dispatched: 0..MaxFramesPerTick]
  <2>1. CASE replayTick' = BeforeTick
    BY <2>1, ReplayAssumption DEF BeforeTick
  <2>2. CASE replayTick' = [replayTick EXCEPT !.dispatched = @ + 1]
    <3>1. PICK d \in 0..MaxFramesPerTick : d = replayTick.dispatched + 1
      BY <1>1, ReplayAssumption, SMTT(30) DEF ReplayTypeOK
    <3>2. replayTick' = [replayTick EXCEPT !.dispatched = d]
      BY <2>2, <3>1
    <3> QED
      BY <1>1, <3>1, <3>2 DEF ReplayTypeOK
  <2> QED
    BY <1>1, <2>1, <2>2
<1>10. ReplayTypeOK'
  BY <1>1, <1>7, <1>8, <1>9 DEF ReplayTypeOK
<1>11. OnCue'
  <2>1. sent' # <<>>
    BY <1>2, <1>8
  <2>2. engine'.log # <<>>
    BY <1>2, <1>7
  <2> QED
    BY <1>3, <1>7, <1>8, <2>1, <2>2 DEF OnCue, due
<1> QED
  BY <1>8, <1>10, <1>11 DEF ReplayInv

LEMMA ReplayNextInv == ReplayInv /\ [ReplayNext]_replayVars => ReplayInv'
<1> SUFFICES ASSUME ReplayInv, [ReplayNext]_replayVars PROVE ReplayInv'
  OBVIOUS
<1>0. ReplayTypeOK /\ MaxReplayTime \in Nat /\ MaxFramesPerTick \in Nat
  BY ReplayAssumption DEF ReplayInv
<1>1. CASE ReplayTimePasses
  <2>1. replayTime' \in 0..MaxReplayTime /\ UNCHANGED <<replayLock, engine, replayTick, start, sent>>
    BY <1>0, <1>1 DEF ReplayTimePasses, ReplayTypeOK
  <2>2. ReplayTypeOK'
    BY <1>0, <2>1 DEF ReplayTypeOK
  <2> QED
    BY <2>1, <2>2, SilentStep
<1>2. CASE Handling
  BY <1>2, HandlingStep
<1>3. CASE BeginReplayLoop
  <2>1. /\ replayTick' = [at |-> "try", now |-> replayTime, dispatched |-> 0]
        /\ UNCHANGED <<replayTime, start, replayLock, engine, sent>>
    BY <1>3 DEF BeginReplayLoop, ReplayAt
  <2>2. ReplayTypeOK'
    BY <1>0, <2>1 DEF ReplayTypeOK
  <2> QED
    BY <2>1, <2>2, SilentStep
<1>4. CASE TryReplayLock
  <2>1. /\ replayLock' \in {replayLock, "ss_can"}
        /\ replayTick' \in {BeforeTick, [replayTick EXCEPT !.at = "tick"]}
        /\ UNCHANGED <<replayTime, start, engine, sent>>
    BY <1>4 DEF TryReplayLock, ReplayAt
  <2>2. ReplayTypeOK'
    BY <1>0, <2>1 DEF ReplayTypeOK, BeforeTick
  <2> QED
    BY <2>1, <2>2, SilentStep
<1>5. CASE DispatchLast
  BY <1>5, DispatchLastStep
<1>6. CASE NothingDue
  <2>1. replayLock' = "none" /\ replayTick' = BeforeTick /\ UNCHANGED <<replayTime, start, engine, sent>>
    BY <1>6 DEF NothingDue, EndsTick, ReplayAt
  <2>2. ReplayTypeOK'
    BY <1>0, <2>1 DEF ReplayTypeOK, BeforeTick
  <2> QED
    BY <2>1, <2>2, SilentStep
<1>7. CASE \E accepted \in BOOLEAN : DispatchNext(accepted)
  BY <1>7, DispatchNextStep
<1>8. CASE UNCHANGED replayVars
  <2>1. UNCHANGED <<replayTime, replayLock, engine, replayTick, start, sent>>
    BY <1>8 DEF replayVars
  <2>2. ReplayTypeOK'
    BY <1>0, <2>1 DEF ReplayTypeOK
  <2> QED
    BY <2>1, <2>2, SilentStep
<1> QED
  BY <1>1, <1>2, <1>3, <1>4, <1>5, <1>6, <1>7, <1>8 DEF ReplayNext, Replaying

\* A replay sends the frames of the log in turn, none twice and none left out, and
\* none before its delay has passed, but where the clock wraps in between.
THEOREM ReplayKeepsPace == ReplaySpec => [](ReplayTypeOK /\ ReplayPaced)
<1>1. ReplayInv => ReplayTypeOK /\ ReplayPaced
  BY DEF ReplayInv
<1> QED
  BY <1>1, ReplayInitInv, ReplayNextInv, PTL DEF ReplaySpec

-----------------------------------------------------------------------------
(* The trace queue. Read and written indices are counts that wrap; what the    *)
(* slots between them hold, and in whose hands every number handed out is,     *)
(* is said of the counts, which do not.                                        *)

\* An event that has been given its number, and one that is past the look at
\* trace_active and will be given one.
Numbered == push.at \in {"look", "drop", "store", "publish"}
Pushing == push.at = "sequence" \/ Numbered
Unnumbered == push.at \in {"offered", "counted", "sequence"}
One(b) == IF b THEN 1 ELSE 0

\* What the recorder has taken from the queue since the capture started.
Taken == Len(capture) + rec.recordDrops
\* The index of the next event to take, of the one at r.
NextRead(r) == IF rec.at = "advance" THEN r + 1 ELSE r

\* What each place knows of the capture, and the event in hand.
CaptureStates ==
    /\ active <=> rec.state = "recording"
    /\ rec.state = "idle" => rec.at \in {"none", "idleCheck", "reset", "open"} /\ ~Pushing
    /\ rec.state # "idle" =>
         /\ rec.at \in {"none", "pop", "copy", "advance", "account", "stop", "pending", "finish"}
         /\ captures > 0
    /\ rec.at \in {"pending", "finish"} => rec.state = "stopping"
    /\ rec.at = "stop" => rec.state = "recording"
    /\ rec.at = "open" => captures > 0
    /\ rec.at \in {"idleCheck", "reset"} => captures < MaxCaptures
Shares ==
    /\ rec.at = "copy" => rec.drained # MaxDrain
    /\ rec.recordDrops > 0 \/ rec.drained > MaxDrain \/ rec.at = "stop" => Used >= MaxRecords
    /\ rec.state = "recording" /\ rec.recordDrops > 0 => rec.drained > MaxDrain
    /\ rec.state = "recording" /\ rec.drained > MaxDrain => rec.at \in {"advance", "stop"}
    /\ rec.at = "open" => rec.recordDrops = 0 /\ ~(rec.drained > MaxDrain)
    /\ rec.queueDrops <= dropped
    /\ nextSequence + One(Unnumbered) <= frames
EventInHand ==
    /\ push.at # "idle" => push.event \in Event
    /\ Numbered => push.event.seq = nextSequence /\ push.event.lost = dropped
\* An event offered to an earlier capture is the first of this one, or none of it.
OldIsFirst ==
    /\ Unnumbered /\ push.event.of # captures => nextSequence = 0
    /\ Numbered /\ push.event.of # captures => push.event.seq = 1
    /\ \A i \in DOMAIN capture : capture[i].of # captures => capture[i].seq = 1

\* r events have been read and w published since the start: the indices are these
\* counts, wrapped.
Indices(r, w) ==
    /\ r <= w /\ w - r <= Capacity
    /\ read = r % Span /\ write = w % Span
    /\ rec.at \in {"copy", "advance"} => r < w
    /\ push.at \in {"store", "publish"} => w - r < Capacity
\* What is in the slots between them.
Slots(r, w) ==
    /\ push.at = "publish" => ring[w % Capacity] = push.event
    /\ \A k \in NextRead(r)..w - 1 :
         LET e == ring[k % Capacity]
         IN  /\ e \in Event
             /\ e.seq = Taken + (k - NextRead(r)) + 1 + e.lost
             /\ e.of # captures => e.seq = 1
\* Where the numbers handed out are. A tick that ends the capture, and one that has
\* ended it, can have missed a drop, counted after it looked, of an event that found
\* the ring full before, and an event published after it looked; both only if it
\* stopped the capture itself between the two looks.
Late == dropped - rec.queueDrops
Dropping == push.at = "drop"
StoppedFull == Used = MaxRecords /\ rec.recordDrops = 0
Settled(r, w) ==
    /\ (rec.at = "stop" /\ ~Discarding) \/ rec.at = "pending" => r < w \/ Late + One(Dropping) <= 1
    /\ rec.at = "pending" /\ ~StoppedFull => Late + One(Pushing) <= 1
    /\ rec.at = "finish" => Late + One(Dropping) <= 1 /\ (w - r) + One(Pushing) <= 1
    /\ rec.at = "finish" /\ ~StoppedFull => Late + (w - r) + One(Pushing) <= 1
    /\ rec.state = "idle" => Late <= 1 /\ w - r <= 1
    /\ rec.state = "idle" /\ ~StoppedFull => Late + (w - r) <= 1
Counts(r, w) ==
    /\ nextSequence = Taken + (w - NextRead(r)) + dropped + One(Numbered)
    /\ Settled(r, w)

TraceInv ==
    /\ TraceTypeOK /\ CaptureStates /\ Shares /\ EventInHand /\ OldIsFirst /\ GapsAreDrops
    /\ \E r, w \in Nat : Indices(r, w) /\ Slots(r, w) /\ Counts(r, w)

\* The indices of the ring are the counts, whatever they wrap at.
LEMMA IndexFacts ==
    ASSUME NEW r \in Nat, NEW w \in Nat, Indices(r, w)
    PROVE  /\ Pending = w - r
           /\ read = write <=> r = w
           /\ read % Capacity = r % Capacity /\ write % Capacity = w % Capacity
           /\ Wrap(read + 1) = (r + 1) % Span /\ Wrap(write + 1) = (w + 1) % Span
           /\ r % Span \in 0..Span - 1 /\ w % Span \in 0..Span - 1
           /\ r % Capacity \in 0..Capacity - 1 /\ w % Capacity \in 0..Capacity - 1
<1>1. /\ r <= w /\ w - r < Span /\ Span \in Nat \ {0} /\ Capacity \in Nat \ {0} /\ Span % Capacity = 0
      /\ r \in Int /\ w \in Int /\ read = r % Span /\ write = w % Span
  BY TraceAssumption DEF Indices
<1>2. ((w % Span) - (r % Span)) % Span = w - r
  BY <1>1, WrappedDistance
<1>3. Pending = w - r
  BY <1>1, <1>2 DEF Pending, Wrap
<1>4. r % Span \in 0..Span - 1 /\ w % Span \in 0..Span - 1
  BY <1>1, GoesRound
<1>5. r % Capacity \in 0..Capacity - 1 /\ w % Capacity \in 0..Capacity - 1
  BY <1>1, GoesRound
<1>6. read = write => r = w
  <2> SUFFICES ASSUME read = write PROVE r = w
    OBVIOUS
  <2>1. PICK n \in 0..Span - 1 : n = r % Span /\ n = w % Span
    BY <1>1, <1>4
  <2>2. (n - n) % Span = w - r
    BY <1>2, <2>1
  <2>3. PICK z \in 0..Span - 1 : z = 0 /\ z = n - n
    BY <1>1
  <2>4. z % Span = z
    BY <1>1, SmallRemainder
  <2> QED
    BY <1>1, <2>2, <2>3, <2>4
<1>7. read % Capacity = r % Capacity /\ write % Capacity = w % Capacity
  BY <1>1, SlotOfWrapped
<1>8. Wrap(read + 1) = (r + 1) % Span /\ Wrap(write + 1) = (w + 1) % Span
  BY <1>1, WrappedSuccessor DEF Wrap
<1> QED
  BY <1>1, <1>3, <1>4, <1>5, <1>6, <1>7, <1>8

\* The numbers of the model are numbers.
LEMMA TraceNumbers ==
    ASSUME TraceTypeOK
    PROVE  /\ nextSequence \in Nat /\ dropped \in Nat /\ frames \in Nat /\ captures \in Nat
           /\ rec.drained \in Nat /\ rec.notes \in Nat /\ rec.queueDrops \in Nat
           /\ rec.recordDrops \in Nat
           /\ Len(capture) \in Nat /\ Used \in Nat /\ Taken \in Nat
           /\ MaxFrames \in Nat /\ MaxRecords \in Nat /\ MaxCaptures \in Nat /\ MaxDrain \in Nat
           /\ Capacity \in Nat /\ Span \in Nat
<1>1. capture \in Seq(Event)
  BY DEF TraceTypeOK
<1>2. Len(capture) \in Nat
  BY <1>1
<1>3. /\ rec.drained \in 0..MaxDrain + 1 /\ rec.notes \in 0..MaxRecords
      /\ rec.queueDrops \in 0..MaxFrames /\ rec.recordDrops \in 0..MaxFrames
  BY DEF TraceTypeOK
<1>4. /\ rec.drained \in Nat /\ rec.notes \in Nat /\ rec.queueDrops \in Nat
      /\ rec.recordDrops \in Nat
  BY <1>3
<1>5. /\ nextSequence \in Nat /\ dropped \in Nat /\ frames \in Nat /\ captures \in Nat
  BY DEF TraceTypeOK
<1> QED
  BY <1>2, <1>4, <1>5, TraceAssumption DEF Used, Taken

LEMMA TraceInitInv == TraceInit => TraceInv
<1> SUFFICES ASSUME TraceInit PROVE TraceInv
  OBVIOUS
<1> USE DEF TraceInit
<1>1. /\ Capacity \in Nat \ {0} /\ MaxDrain \in Nat \ {0} /\ Span \in Nat \ {0}
      /\ MaxRecords \in Nat /\ MaxFrames \in Nat /\ MaxCaptures \in Nat
  BY TraceAssumption
<1>2. capture \in Seq(Event) /\ Len(capture) = 0
  OBVIOUS
<1>3. rec \in [state: {"idle", "recording", "stopping"}, at: TickPlaces,
               drained: 0..MaxDrain + 1, notes: 0..MaxRecords,
               queueDrops: 0..MaxFrames, recordDrops: 0..MaxFrames]
  BY <1>1 DEF TickPlaces
<1>4. PICK z \in 0..Span - 1 : z = 0
  BY <1>1
<1>5. z % Span = z
  BY <1>1, SmallRemainder
<1>6. Indices(z, z)
  BY <1>1, <1>4, <1>5 DEF Indices
<1>7. Pending = 0
  BY <1>4, <1>6, IndexFacts
<1>8. Slots(z, z) /\ Counts(z, z)
  BY <1>2, <1>4 DEF Slots, Counts, Settled, NextRead, Taken, One, Numbered, Pushing, Late
<1>9. TraceTypeOK
  <2>1. push \in [at: Places, event: Event \cup {NoEvent}]
    BY DEF Places
  <2>2. ring \in [0..Capacity - 1 -> Event \cup {NoEvent}]
    OBVIOUS
  <2>3. Used = 0 /\ 0 \in 0..Span - 1 /\ 0 \in 0..Capacity
    BY <1>1, <1>2 DEF Used
  <2>4. /\ write \in 0..Span - 1 /\ read \in 0..Span - 1 /\ Pending \in 0..Capacity
        /\ nextSequence \in 0..MaxFrames /\ dropped \in 0..MaxFrames
        /\ frames \in 0..MaxFrames /\ captures \in 0..MaxCaptures
    BY <1>1, <1>7, <2>3
  <2>5. active \in BOOLEAN /\ inflight = (IF push.at \in {"idle", "offered"} THEN 0 ELSE 1)
    OBVIOUS
  <2> HIDE DEF TraceInit
  <2>6. capture \in Seq(Event) /\ Used <= MaxRecords
    BY <1>1, <1>2, <2>3
  <2> QED
    BY <1>3, <2>1, <2>2, <2>4, <2>5, <2>6 DEF TraceTypeOK
<1>10. CaptureStates /\ Shares /\ EventInHand /\ OldIsFirst /\ GapsAreDrops
  BY <1>1, <1>2 DEF CaptureStates, Shares, EventInHand, OldIsFirst, GapsAreDrops, Numbered, Pushing,
        Unnumbered, One, Used
<1> QED
  BY <1>4, <1>6, <1>8, <1>9, <1>10 DEF TraceInv
-----------------------------------------------------------------------------
\* What a tick may have missed stays the same while drops, indices, recorder and the
\* kind of place the producer is at do.
LEMMA SettledKept ==
    ASSUME NEW r, NEW w, Settled(r, w), UNCHANGED <<rec, capture, dropped>>,
           Dropping' <=> Dropping, Pushing' <=> Pushing
    PROVE  Settled(r, w)'
<1>1. Late' = Late /\ (StoppedFull' <=> StoppedFull) /\ (Discarding' <=> Discarding)
  BY DEF Late, StoppedFull, Used, Discarding
<1>2. One(Dropping') = One(Dropping) /\ One(Pushing') = One(Pushing)
  BY DEF One
<1> QED
  BY <1>1, <1>2 DEF Settled

\* A step of the producer that leaves the indices, the ring and the numbers alone.
LEMMA PushMoves ==
    ASSUME TraceInv, UNCHANGED <<rec, capture, captures>>,
           UNCHANGED <<ring, write, read, nextSequence, dropped, active, frames>>,
           push' \in [at: Places, event: Event \cup {NoEvent}],
           inflight' = (IF push'.at \in {"idle", "offered"} THEN 0 ELSE 1),
           push'.at # "idle" => push'.event = push.event /\ push.at # "idle",
           push'.at # "publish", Numbered' <=> Numbered,
           Unnumbered' => Unnumbered, Pushing' => Pushing \/ active,
           push'.at = "store" => \A r, w \in Nat : Indices(r, w) => w - r < Capacity,
           push'.at = "drop" => \A r, w \in Nat : Indices(r, w) => r < w
    PROVE  TraceInv'
<1>1. PICK r \in Nat, w \in Nat : Indices(r, w) /\ Slots(r, w) /\ Counts(r, w)
  BY DEF TraceInv
<1>2. TraceTypeOK /\ CaptureStates /\ Shares /\ EventInHand /\ OldIsFirst /\ GapsAreDrops
  BY DEF TraceInv
<1>3. TraceTypeOK'
  BY <1>2 DEF TraceTypeOK, Pending, Used
<1>4. CaptureStates' /\ Shares' /\ GapsAreDrops'
  BY <1>2, TraceNumbers, SMTT(30) DEF CaptureStates, Shares, GapsAreDrops, One, Used, Unnumbered
<1>5. EventInHand' /\ OldIsFirst'
  BY <1>2 DEF EventInHand, OldIsFirst, Numbered, Unnumbered
<1>6. Indices(r, w)' /\ Slots(r, w)'
  BY <1>1 DEF Indices, Slots, NextRead, Taken
<1>7. Counts(r, w)'
  <2>1. One(Numbered') = One(Numbered)
    BY DEF One
  <2>2. rec.at \in {"pending", "finish"} => ~active
    BY <1>2 DEF CaptureStates
  <2>3. rec.at \in {"pending", "finish"} => One(Pushing') = One(Pushing) \/ (One(Pushing') = 0 /\ One(Pushing) = 1)
    BY <2>2 DEF One
  <2>4. One(Numbered') = One(Numbered) /\ rec' = rec /\ dropped' = dropped /\ nextSequence' = nextSequence
        /\ Taken' = Taken /\ NextRead(r)' = NextRead(r)
    BY <2>1 DEF Taken, NextRead
  <2>5. One(Pushing) \in 0..1 /\ One(Pushing') \in 0..1
    BY DEF One
  <2>6. Late' = Late /\ (StoppedFull' <=> StoppedFull) /\ (Discarding' <=> Discarding) /\ Late \in Int
    <3>1. dropped \in Nat /\ rec.queueDrops \in Nat
      BY <1>2, TraceNumbers
    <3> QED
      BY <3>1 DEF Late, StoppedFull, Discarding, Used
  <2>7. One(Dropping') = 0 \/ r < w
    BY <1>1 DEF One, Dropping
  <2>8. One(Dropping) \in 0..1
    BY DEF One
  <2>9. rec.at = "finish" => ~(r < w) \/ One(Dropping') = 0
    <3>1. rec.at = "finish" /\ One(Dropping') = 1 => One(Pushing) = 1
      BY <2>2, <2>3 DEF One, Dropping, Pushing, Numbered
    <3>2. rec.at = "finish" /\ One(Pushing) = 1 => ~(r < w)
      BY <1>1 DEF Counts, Settled
    <3>3. One(Dropping') \in 0..1
      BY DEF One
    <3> QED
      BY <3>1, <3>2, <3>3
  <2>10. Settled(r, w)'
    <3>1. /\ rec' = rec
          /\ (rec.at = "stop" /\ ~Discarding) \/ rec.at = "pending" => r < w \/ Late + One(Dropping) <= 1
          /\ rec.at = "pending" /\ ~StoppedFull => Late + One(Pushing) <= 1
          /\ rec.at = "finish" => Late + One(Dropping) <= 1 /\ (w - r) + One(Pushing) <= 1
          /\ rec.at = "finish" /\ ~StoppedFull => Late + (w - r) + One(Pushing) <= 1
          /\ rec.state = "idle" => Late <= 1 /\ w - r <= 1
          /\ rec.state = "idle" /\ ~StoppedFull => Late + (w - r) <= 1
      BY <1>1 DEF Counts, Settled
    <3>2. (rec.at = "stop" /\ ~Discarding) \/ rec.at = "pending" => r < w \/ Late + One(Dropping') <= 1
      BY <2>6, <2>7, <2>8, <3>1
    <3>3. rec.at = "pending" /\ ~StoppedFull => Late + One(Pushing') <= 1
      BY <2>3, <2>5, <2>6, <3>1
    <3>4. rec.at = "finish" => Late + One(Dropping') <= 1 /\ (w - r) + One(Pushing') <= 1
      BY <2>3, <2>5, <2>6, <2>7, <2>8, <2>9, <3>1
    <3>5. rec.at = "finish" /\ ~StoppedFull => Late + (w - r) + One(Pushing') <= 1
      BY <2>3, <2>5, <2>6, <3>1
    <3> QED
      BY <2>6, <3>1, <3>2, <3>3, <3>4, <3>5 DEF Settled
  <2> QED
    BY <1>1, <2>4, <2>10 DEF Counts
<1> QED
  BY <1>3, <1>4, <1>5, <1>6, <1>7 DEF TraceInv

LEMMA EnterStep == TraceInv /\ Enter => TraceInv'
<1> SUFFICES ASSUME TraceInv, Enter PROVE TraceInv'
  OBVIOUS
<1>1. /\ push.at = "offered" /\ push' = [push EXCEPT !.at = "counted"] /\ inflight' = inflight + 1
      /\ UNCHANGED <<rec, capture, captures>>
      /\ UNCHANGED <<ring, write, read, nextSequence, dropped, active, frames>>
      /\ push \in [at: Places, event: Event \cup {NoEvent}] /\ inflight = 0
  BY DEF Enter, ProducerAt, MovesTo, TraceInv, TraceTypeOK
<1>2. /\ push' \in [at: Places, event: Event \cup {NoEvent}]
      /\ push'.at = "counted" /\ push'.event = push.event
  BY <1>1 DEF Places
<1> QED
  BY <1>1, <1>2, PushMoves DEF Numbered, Unnumbered, Pushing

LEMMA CheckActiveStep == TraceInv /\ CheckActive => TraceInv'
<1> SUFFICES ASSUME TraceInv, CheckActive PROVE TraceInv'
  OBVIOUS
<1>1. /\ push.at = "counted" /\ UNCHANGED <<rec, capture, captures, inflight>>
      /\ UNCHANGED <<ring, write, read, nextSequence, dropped, active, frames>>
      /\ push \in [at: Places, event: Event \cup {NoEvent}] /\ inflight = 1
  BY DEF CheckActive, ProducerAt, MovesTo, TraceInv, TraceTypeOK, queueVars
<1>2. \/ active /\ push' = [push EXCEPT !.at = "sequence"]
      \/ push' = [push EXCEPT !.at = "leave"]
  BY DEF CheckActive, MovesTo
<1>3. /\ push' \in [at: Places, event: Event \cup {NoEvent}]
      /\ (push'.at = "sequence" /\ active) \/ push'.at = "leave"
      /\ push'.event = push.event
  BY <1>1, <1>2 DEF Places
<1> QED
  BY <1>1, <1>3, PushMoves DEF Numbered, Unnumbered, Pushing

LEMMA LookStep == TraceInv /\ Look => TraceInv'
<1> SUFFICES ASSUME TraceInv, Look PROVE TraceInv'
  OBVIOUS
<1>1. /\ push.at = "look" /\ UNCHANGED <<rec, capture, captures, inflight>>
      /\ UNCHANGED <<ring, write, read, nextSequence, dropped, active, frames>>
      /\ push \in [at: Places, event: Event \cup {NoEvent}] /\ inflight = 1
  BY DEF Look, ProducerAt, MovesTo, TraceInv, TraceTypeOK, queueVars
<1>2. \/ ~Full /\ push' = [push EXCEPT !.at = "store"]
      \/ Full /\ push' = [push EXCEPT !.at = "drop"]
  BY DEF Look, MovesTo
<1>3. /\ push' \in [at: Places, event: Event \cup {NoEvent}]
      /\ (push'.at = "store" /\ ~Full) \/ (push'.at = "drop" /\ Full)
      /\ push'.event = push.event
  BY <1>1, <1>2 DEF Places
<1>4. ASSUME ~Full, NEW r \in Nat, NEW w \in Nat, Indices(r, w) PROVE w - r < Capacity
  BY <1>4, IndexFacts, TraceAssumption DEF Full
<1>5. ASSUME Full, NEW r \in Nat, NEW w \in Nat, Indices(r, w) PROVE r < w
  BY <1>5, IndexFacts, TraceAssumption DEF Full
<1> QED
  BY <1>1, <1>3, <1>4, <1>5, PushMoves DEF Numbered, Unnumbered, Pushing

LEMMA LeaveStep == TraceInv /\ Leave => TraceInv'
<1> SUFFICES ASSUME TraceInv, Leave PROVE TraceInv'
  OBVIOUS
<1>1. /\ push.at = "leave" /\ UNCHANGED <<rec, capture, captures>> /\ inflight' = inflight - 1
      /\ UNCHANGED <<ring, write, read, nextSequence, dropped, active, frames>>
      /\ push' = [at |-> "idle", event |-> NoEvent] /\ inflight = 1
  BY DEF Leave, ProducerAt, TraceInv, TraceTypeOK
<1>2. push' \in [at: Places, event: Event \cup {NoEvent}] /\ push'.at = "idle"
  BY <1>1 DEF Places
<1> QED
  BY <1>1, <1>2, PushMoves DEF Numbered, Unnumbered, Pushing

LEMMA OfferStep == TraceInv /\ Offer => TraceInv'
<1> SUFFICES ASSUME TraceInv, Offer PROVE TraceInv'
  OBVIOUS
<1>1. PICK r \in Nat, w \in Nat : Indices(r, w) /\ Slots(r, w) /\ Counts(r, w)
  BY DEF TraceInv
<1>2. TraceTypeOK /\ CaptureStates /\ Shares /\ EventInHand /\ OldIsFirst /\ GapsAreDrops
  BY DEF TraceInv
<1>3. /\ push.at = "idle" /\ UNCHANGED <<rec, capture, captures>>
      /\ UNCHANGED <<ring, write, read, nextSequence, dropped, active, inflight>>
      /\ active /\ frames < MaxFrames /\ frames' = frames + 1
      /\ push' = [at |-> "offered", event |-> [NoEvent EXCEPT !.of = captures]]
  BY DEF Offer, ProducerAt, queueVars
<1>4. captures \in 1..MaxCaptures
  <2>1. captures > 0
    BY <1>2, <1>3 DEF CaptureStates
  <2>2. captures \in 0..MaxCaptures
    BY <1>2 DEF TraceTypeOK
  <2> QED
    BY <2>1, <2>2
<1>5. [NoEvent EXCEPT !.of = captures] = [of |-> captures, seq |-> 0, lost |-> 0]
  BY DEF NoEvent
<1>6. [of |-> captures, seq |-> 0, lost |-> 0] \in Event
  BY <1>2, <1>4, TraceNumbers DEF Event
<1>7. push'.at = "offered" /\ push'.event \in Event /\ push'.event.of = captures
      /\ push' \in [at: Places, event: Event \cup {NoEvent}]
  BY <1>3, <1>5, <1>6 DEF Places
<1>8. TraceTypeOK'
  <2>1. frames' \in 0..MaxFrames
    BY <1>2, <1>3, TraceNumbers, SMTT(30)
  <2>2. inflight' = 0
    BY <1>2, <1>3 DEF TraceTypeOK
  <2> QED
    BY <1>2, <1>3, <1>7, <2>1, <2>2 DEF TraceTypeOK, Pending, Used
<1>9. CaptureStates' /\ GapsAreDrops'
  BY <1>2, <1>3, <1>7 DEF CaptureStates, GapsAreDrops, Pushing, Numbered
<1>10. Shares'
  BY <1>2, <1>3, <1>7, TraceNumbers, SMTT(30) DEF Shares, One, Unnumbered, Used
<1>11. EventInHand' /\ OldIsFirst'
  BY <1>2, <1>3, <1>7 DEF EventInHand, OldIsFirst, Numbered, Unnumbered
<1>12. Indices(r, w)' /\ Slots(r, w)'
  BY <1>1, <1>3, <1>7 DEF Indices, Slots, NextRead, Taken
<1>13. Counts(r, w)'
  <2>1. Settled(r, w)'
    BY <1>1, <1>3, <1>7, SettledKept DEF Counts, Dropping, Pushing, Numbered
  <2> QED
    BY <1>1, <1>3, <1>7, <2>1 DEF Counts, NextRead, Taken, One, Numbered
<1> QED
  BY <1>8, <1>9, <1>10, <1>11, <1>12, <1>13 DEF TraceInv

LEMMA TakeSequenceStep == TraceInv /\ TakeSequence => TraceInv'
<1> SUFFICES ASSUME TraceInv, TakeSequence PROVE TraceInv'
  OBVIOUS
<1>1. PICK r \in Nat, w \in Nat : Indices(r, w) /\ Slots(r, w) /\ Counts(r, w)
  BY DEF TraceInv
<1>2. TraceTypeOK /\ CaptureStates /\ Shares /\ EventInHand /\ OldIsFirst /\ GapsAreDrops
  BY DEF TraceInv
<1>3. /\ push.at = "sequence" /\ UNCHANGED <<rec, capture, captures>>
      /\ UNCHANGED <<ring, write, read, dropped, active, inflight, frames>>
      /\ nextSequence' = nextSequence + 1
      /\ push' = [push EXCEPT !.at = "look", !.event.seq = nextSequence + 1, !.event.lost = dropped]
  BY DEF TakeSequence, ProducerAt
<1>4. PICK n \in 0..MaxFrames : n = nextSequence + 1
  <2>1. One(Unnumbered) = 1
    BY <1>3 DEF One, Unnumbered
  <2>2. nextSequence + 1 <= frames
    BY <1>2, <2>1 DEF Shares
  <2>3. frames \in 0..MaxFrames
    BY <1>2 DEF TraceTypeOK
  <2> QED
    BY <1>2, <2>2, <2>3, TraceNumbers, SMTT(30)
<1>5. PICK e \in Event : e = push.event
  BY <1>2, <1>3 DEF EventInHand
<1>6. push' = [push EXCEPT !.at = "look", !.event.seq = n, !.event.lost = dropped]
  BY <1>3, <1>4
<1>7. /\ push'.at = "look" /\ push'.event = [e EXCEPT !.seq = n, !.lost = dropped]
      /\ push' = [at |-> "look", event |-> [e EXCEPT !.seq = n, !.lost = dropped]]
  BY <1>2, <1>5, <1>6 DEF TraceTypeOK
<1>8. /\ push'.event \in Event /\ push'.event.seq = n /\ push'.event.lost = dropped
      /\ push'.event.of = e.of
  BY <1>2, <1>5, <1>7 DEF Event, TraceTypeOK
<1>9. push' \in [at: Places, event: Event \cup {NoEvent}]
  BY <1>7, <1>8 DEF Places
<1>10. TraceTypeOK'
  BY <1>2, <1>3, <1>4, <1>7, <1>9 DEF TraceTypeOK, Pending, Used
<1>11. CaptureStates' /\ GapsAreDrops'
  BY <1>2, <1>3, <1>7 DEF CaptureStates, GapsAreDrops, Pushing, Numbered
<1>12. Shares'
  BY <1>2, <1>3, <1>4, <1>7, TraceNumbers DEF Shares, One, Unnumbered, Used
<1>13. EventInHand' /\ OldIsFirst'
  BY <1>2, <1>3, <1>4, <1>5, <1>7, <1>8, TraceNumbers, SMTT(30) DEF EventInHand, OldIsFirst, Numbered, Unnumbered
<1>14. Indices(r, w)' /\ Slots(r, w)'
  BY <1>1, <1>3, <1>7 DEF Indices, Slots, NextRead, Taken
<1>15. Counts(r, w)'
  <2>1. NextRead(r) \in Nat /\ Taken \in Nat
    BY <1>2, TraceNumbers DEF NextRead
  <2>2. One(Numbered) = 0 /\ One(Numbered') = 1 /\ One(Pushing) = 1 /\ One(Pushing') = 1
    BY <1>3, <1>7 DEF One, Numbered, Pushing
  <2>3. Taken' = Taken /\ NextRead(r)' = NextRead(r)
    BY <1>3 DEF Taken, NextRead
  <2>4. nextSequence' = Taken + (w - NextRead(r)) + dropped + 1
    BY <1>1, <1>2, <1>3, <2>1, <2>2, TraceNumbers, SMTT(30) DEF Counts
  <2>5. Settled(r, w)'
    BY <1>1, <1>3, <1>7, SettledKept DEF Counts, Dropping, Pushing, Numbered
  <2> QED
    BY <1>1, <1>3, <2>2, <2>3, <2>4, <2>5 DEF Counts
<1> QED
  BY <1>10, <1>11, <1>12, <1>13, <1>14, <1>15 DEF TraceInv

LEMMA NextReadFacts ==
    ASSUME NEW r \in Nat, NEW w \in Nat, Indices(r, w)
    PROVE  NextRead(r) \in Nat /\ NextRead(r) <= w /\ w - NextRead(r) \in Nat
           /\ r <= NextRead(r) /\ NextRead(r) \in r..r + 1
  BY DEF Indices, NextRead

LEMMA DropStep == TraceInv /\ Drop => TraceInv'
<1> SUFFICES ASSUME TraceInv, Drop PROVE TraceInv'
  OBVIOUS
<1>1. PICK r \in Nat, w \in Nat : Indices(r, w) /\ Slots(r, w) /\ Counts(r, w)
  BY DEF TraceInv
<1>2. TraceTypeOK /\ CaptureStates /\ Shares /\ EventInHand /\ OldIsFirst /\ GapsAreDrops
  BY DEF TraceInv
<1>3. /\ push.at = "drop" /\ UNCHANGED <<rec, capture, captures>>
      /\ UNCHANGED <<ring, write, read, nextSequence, active, inflight, frames>>
      /\ dropped' = dropped + 1 /\ push' = [push EXCEPT !.at = "leave"]
  BY DEF Drop, ProducerAt, MovesTo
<1>4. /\ push'.at = "leave" /\ push'.event = push.event
      /\ push' \in [at: Places, event: Event \cup {NoEvent}]
  BY <1>2, <1>3 DEF TraceTypeOK, Places
<1>5. /\ One(Numbered) = 1 /\ One(Numbered') = 0 /\ One(Pushing) = 1 /\ One(Pushing') = 0
      /\ One(Unnumbered) = 0 /\ One(Unnumbered') = 0
  BY <1>3, <1>4 DEF One, Numbered, Pushing, Unnumbered
<1>6. nextSequence = Taken + (w - NextRead(r)) + dropped + 1
  BY <1>1, <1>5 DEF Counts
<1>7. dropped + 1 \in 0..MaxFrames
  <2>1. nextSequence \in 0..MaxFrames
    BY <1>2 DEF TraceTypeOK
  <2>2. PICK d \in Nat : d = Taken + (w - NextRead(r))
    BY <1>1, <1>2, TraceNumbers, NextReadFacts, SMTT(30)
  <2>3. nextSequence = d + dropped + 1
    BY <1>6, <2>2
  <2>4. dropped \in Nat /\ MaxFrames \in Nat
    BY <1>2, TraceNumbers
  <2> QED
    BY <2>1, <2>2, <2>3, <2>4
<1>8. TraceTypeOK'
  BY <1>2, <1>3, <1>4, <1>7 DEF TraceTypeOK, Pending, Used
<1>9. CaptureStates' /\ GapsAreDrops'
  BY <1>2, <1>3, <1>4 DEF CaptureStates, GapsAreDrops, Pushing, Numbered
<1>10. Shares'
  BY <1>2, <1>3, <1>4, <1>5, TraceNumbers, SMTT(30) DEF Shares, Used
<1>11. EventInHand' /\ OldIsFirst'
  BY <1>2, <1>3, <1>4 DEF EventInHand, OldIsFirst, Numbered, Unnumbered
<1>12. Indices(r, w)' /\ Slots(r, w)'
  BY <1>1, <1>3, <1>4 DEF Indices, Slots, NextRead, Taken
<1>13. Counts(r, w)'
  <2>1. NextRead(r) \in Nat /\ Taken' = Taken /\ NextRead(r)' = NextRead(r)
    BY <1>1, <1>3, NextReadFacts DEF Taken, NextRead
  <2>2. nextSequence' = Taken' + (w - NextRead(r)') + dropped' + One(Numbered')
    BY <1>2, <1>3, <1>5, <1>6, <2>1, TraceNumbers, SMTT(30)
  <2>3. Late \in Int /\ Late' = Late + 1
    <3>1. dropped \in Nat /\ rec.queueDrops \in Nat /\ rec'.queueDrops = rec.queueDrops
      BY <1>2, <1>3, TraceNumbers
    <3> QED
      BY <1>3, <3>1 DEF Late
  <2>4. (StoppedFull' <=> StoppedFull) /\ (Discarding' <=> Discarding) /\ rec.state # "idle"
    BY <1>2, <1>3 DEF StoppedFull, Discarding, Used, CaptureStates, Pushing, Numbered
  <2>5. One(Dropping) = 1 /\ One(Dropping') = 0
    BY <1>3, <1>4 DEF One, Dropping
  <2>6. /\ rec' = rec
        /\ (rec.at = "stop" /\ ~Discarding) \/ rec.at = "pending" => r < w \/ Late + 1 <= 1
        /\ rec.at = "pending" /\ ~StoppedFull => Late + 1 <= 1
        /\ rec.at = "finish" => Late + 1 <= 1 /\ (w - r) + 1 <= 1
        /\ rec.at = "finish" /\ ~StoppedFull => Late + (w - r) + 1 <= 1
    BY <1>1, <1>3, <1>5, <2>5 DEF Counts, Settled
  <2>7. Settled(r, w)'
    BY <1>5, <2>3, <2>4, <2>5, <2>6 DEF Settled
  <2> QED
    BY <2>2, <2>7 DEF Counts
<1> QED
  BY <1>8, <1>9, <1>10, <1>11, <1>12, <1>13 DEF TraceInv

LEMMA StoreEventStep == TraceInv /\ StoreEvent => TraceInv'
<1> SUFFICES ASSUME TraceInv, StoreEvent PROVE TraceInv'
  OBVIOUS
<1>1. PICK r \in Nat, w \in Nat : Indices(r, w) /\ Slots(r, w) /\ Counts(r, w)
  BY DEF TraceInv
<1>2. TraceTypeOK /\ CaptureStates /\ Shares /\ EventInHand /\ OldIsFirst /\ GapsAreDrops
  BY DEF TraceInv
<1>3. /\ push.at = "store" /\ UNCHANGED <<rec, capture, captures>>
      /\ UNCHANGED <<write, read, nextSequence, dropped, active, inflight, frames>>
      /\ ring' = [ring EXCEPT ![write % Capacity] = push.event]
      /\ push' = [push EXCEPT !.at = "publish"]
  BY DEF StoreEvent, ProducerAt, MovesTo
<1>4. /\ push'.at = "publish" /\ push'.event = push.event
      /\ push' \in [at: Places, event: Event \cup {NoEvent}]
  BY <1>2, <1>3 DEF TraceTypeOK, Places
<1>5. push.event \in Event
  BY <1>2, <1>3 DEF EventInHand
<1>6. /\ write % Capacity = w % Capacity /\ w % Capacity \in 0..Capacity - 1
      /\ r <= w /\ w - r < Capacity /\ Capacity \in Nat \ {0}
      /\ NextRead(r) \in Nat /\ r <= NextRead(r)
  BY <1>1, <1>3, IndexFacts, NextReadFacts, TraceAssumption DEF Indices
<1>7. PICK s \in 0..Capacity - 1 : s = w % Capacity /\ ring' = [ring EXCEPT ![s] = push.event]
  BY <1>3, <1>6
<1>8. /\ ring \in [0..Capacity - 1 -> Event \cup {NoEvent}]
      /\ ring' \in [0..Capacity - 1 -> Event \cup {NoEvent}] /\ ring'[s] = push.event
      /\ \A t \in 0..Capacity - 1 : t # s => ring'[t] = ring[t]
  BY <1>2, <1>5, <1>7 DEF TraceTypeOK
<1>9. ASSUME NEW k \in NextRead(r)..w - 1
      PROVE  ring'[k % Capacity] = ring[k % Capacity]
  <2>1. k \in Nat /\ k < w /\ w - k < Capacity
    BY <1>6
  <2>2. k % Capacity # s
    BY <1>6, <1>7, <2>1, SlotsApart
  <2>3. k % Capacity \in 0..Capacity - 1
    BY <1>6, <2>1, GoesRound
  <2> QED
    BY <1>8, <2>2, <2>3
<1>10. TraceTypeOK'
  BY <1>2, <1>3, <1>4, <1>8 DEF TraceTypeOK, Pending, Used
<1>11. CaptureStates' /\ GapsAreDrops'
  BY <1>2, <1>3, <1>4 DEF CaptureStates, GapsAreDrops, Pushing, Numbered
<1>12. /\ One(Numbered) = 1 /\ One(Numbered') = 1 /\ One(Pushing) = 1 /\ One(Pushing') = 1
       /\ One(Unnumbered) = 0 /\ One(Unnumbered') = 0
  BY <1>3, <1>4 DEF One, Numbered, Pushing, Unnumbered
<1>13. Shares'
  BY <1>2, <1>3, <1>4, <1>12 DEF Shares, Used
<1>14. EventInHand' /\ OldIsFirst'
  BY <1>2, <1>3, <1>4, <1>5 DEF EventInHand, OldIsFirst, Numbered, Unnumbered
<1>15. Indices(r, w)'
  BY <1>1, <1>3, <1>4 DEF Indices
<1>16. Slots(r, w)'
  <2>1. NextRead(r)' = NextRead(r) /\ Taken' = Taken /\ captures' = captures
    BY <1>3 DEF NextRead, Taken
  <2>2. ring'[w % Capacity] = push'.event
    BY <1>4, <1>7, <1>8
  <2> QED
    BY <1>1, <1>9, <2>1, <2>2 DEF Slots
<1>17. Counts(r, w)'
  <2>1. NextRead(r)' = NextRead(r) /\ Taken' = Taken
    BY <1>3 DEF NextRead, Taken
  <2>2. Settled(r, w)'
    BY <1>1, <1>3, <1>4, SettledKept DEF Counts, Dropping, Pushing, Numbered
  <2> QED
    BY <1>1, <1>3, <1>12, <2>1, <2>2 DEF Counts
<1> QED
  BY <1>10, <1>11, <1>13, <1>14, <1>15, <1>16, <1>17 DEF TraceInv

LEMMA PublishStep == TraceInv /\ Publish => TraceInv'
<1> SUFFICES ASSUME TraceInv, Publish PROVE TraceInv'
  OBVIOUS
<1>1. PICK r \in Nat, w \in Nat : Indices(r, w) /\ Slots(r, w) /\ Counts(r, w)
  BY DEF TraceInv
<1>2. TraceTypeOK /\ CaptureStates /\ Shares /\ EventInHand /\ OldIsFirst /\ GapsAreDrops
  BY DEF TraceInv
<1>3. /\ push.at = "publish" /\ UNCHANGED <<rec, capture, captures>>
      /\ UNCHANGED <<ring, read, nextSequence, dropped, active, inflight, frames>>
      /\ write' = Wrap(write + 1) /\ push' = [push EXCEPT !.at = "leave"]
  BY DEF Publish, ProducerAt, MovesTo
<1>4. /\ push'.at = "leave" /\ push'.event = push.event
      /\ push' \in [at: Places, event: Event \cup {NoEvent}]
  BY <1>2, <1>3 DEF TraceTypeOK, Places
<1>5. /\ One(Numbered) = 1 /\ One(Numbered') = 0 /\ One(Pushing) = 1 /\ One(Pushing') = 0
      /\ One(Unnumbered) = 0 /\ One(Unnumbered') = 0
  BY <1>3, <1>4 DEF One, Numbered, Pushing, Unnumbered
<1>6. PICK v \in Nat : v = w + 1
  BY <1>1
<1>7. /\ write' = v % Span /\ w - r < Capacity /\ r <= w /\ read = r % Span
      /\ Capacity \in Nat
  BY <1>1, <1>3, <1>6, IndexFacts, TraceAssumption DEF Indices
<1>8. Indices(r, v)'
  <2>1. r <= v /\ v - r <= Capacity /\ r < v
    BY <1>6, <1>7
  <2> QED
    BY <1>3, <1>4, <1>7, <2>1 DEF Indices
<1>9. NextRead(r)' = NextRead(r) /\ Taken' = Taken /\ NextRead(r) \in Nat /\ Taken \in Nat
      /\ NextRead(r) <= w
  BY <1>1, <1>2, <1>3, NextReadFacts, TraceNumbers DEF NextRead, Taken
<1>10. nextSequence = Taken + (w - NextRead(r)) + dropped + 1
  BY <1>1, <1>5 DEF Counts
<1>11. Slots(r, v)'
  <2> SUFFICES ASSUME NEW k \in NextRead(r)..v - 1
               PROVE  /\ ring[k % Capacity] \in Event
                      /\ ring[k % Capacity].seq = Taken + (k - NextRead(r)) + 1 + ring[k % Capacity].lost
                      /\ ring[k % Capacity].of # captures => ring[k % Capacity].seq = 1
    BY <1>3, <1>4, <1>9 DEF Slots
  <2>1. CASE k = w
    <3>1. ring[k % Capacity] = push.event
      BY <1>1, <1>3, <2>1 DEF Slots
    <3>2. push.event \in Event /\ push.event.seq = nextSequence /\ push.event.lost = dropped
          /\ (push.event.of # captures => push.event.seq = 1)
      BY <1>2, <1>3 DEF EventInHand, OldIsFirst, Numbered
    <3>3. nextSequence = Taken + (w - NextRead(r)) + 1 + dropped
      BY <1>2, <1>9, <1>10, TraceNumbers, SMTT(30)
    <3> QED
      BY <2>1, <3>1, <3>2, <3>3
  <2>2. CASE k # w
    <3>1. k \in NextRead(r)..w - 1
      BY <1>6, <1>9, <2>2
    <3> QED
      BY <1>1, <3>1 DEF Slots
  <2> QED
    BY <2>1, <2>2
<1>12. Counts(r, v)'
  <2>1. nextSequence' = Taken' + (v - NextRead(r)') + dropped' + One(Numbered')
    <3>1. PICK n \in Nat : n = NextRead(r)
      BY <1>9
    <3>2. dropped \in Nat /\ Taken + (w - n) + dropped + 1 = Taken + (v - n) + dropped + 0
      BY <1>2, <1>6, <1>9, TraceNumbers, SMTT(30)
    <3>3. NextRead(r)' = n
      BY <1>9, <3>1
    <3> QED
      BY <1>3, <1>5, <1>9, <1>10, <3>1, <3>2, <3>3
  <2>2. Late \in Int /\ Late' = Late
    <3>1. dropped \in Nat /\ rec.queueDrops \in Nat
      BY <1>2, TraceNumbers
    <3> QED
      BY <1>3, <3>1 DEF Late
  <2>3. (StoppedFull' <=> StoppedFull) /\ (Discarding' <=> Discarding) /\ rec.state # "idle"
    BY <1>2, <1>3 DEF StoppedFull, Discarding, Used, CaptureStates, Pushing, Numbered
  <2>4. One(Dropping) = 0 /\ One(Dropping') = 0
    BY <1>3, <1>4 DEF One, Dropping
  <2>5. /\ rec' = rec
        /\ rec.at = "pending" /\ ~StoppedFull => Late + 1 <= 1
        /\ rec.at = "finish" => Late + 0 <= 1 /\ (w - r) + 1 <= 1
        /\ rec.at = "finish" /\ ~StoppedFull => Late + (w - r) + 1 <= 1
    BY <1>1, <1>3, <1>5, <2>4 DEF Counts, Settled
  <2>6. /\ r < v /\ (w - r) + 1 = (v - r) + 0
        /\ Late + (w - r) + 1 = Late + (v - r) + 0
    BY <1>6, <1>7, <2>2
  <2>7. rec.at = "pending" /\ ~StoppedFull => Late + 0 <= 1
    BY <2>2, <2>5
  <2>8. Settled(r, v)'
    BY <1>5, <2>2, <2>3, <2>4, <2>5, <2>6, <2>7 DEF Settled
  <2> QED
    BY <2>1, <2>8 DEF Counts
<1>13. TraceTypeOK'
  <2>1. Pending' \in 0..Capacity /\ write' \in 0..Span - 1
    <3>1. v - r \in 0..Capacity
      BY <1>6, <1>7
    <3>2. Pending' = v - r
      <4>1. r <= v /\ v - r < Span /\ Span \in Nat \ {0} /\ read' = r % Span
        BY <1>3, <1>6, <1>7, TraceAssumption
      <4>2. ((v % Span) - (r % Span)) % Span = v - r
        BY <4>1, WrappedDistance
      <4> QED
        BY <1>7, <4>1, <4>2 DEF Pending, Wrap
    <3>3. v % Span \in 0..Span - 1
      BY TraceAssumption, GoesRound
    <3> QED
      BY <1>7, <3>1, <3>2, <3>3
  <2> QED
    BY <1>2, <1>3, <1>4, <2>1 DEF TraceTypeOK, Used
<1>14. CaptureStates' /\ GapsAreDrops'
  BY <1>2, <1>3, <1>4 DEF CaptureStates, GapsAreDrops, Pushing, Numbered
<1>15. Shares'
  BY <1>2, <1>3, <1>4, <1>5 DEF Shares, Used
<1>16. EventInHand' /\ OldIsFirst'
  BY <1>2, <1>3, <1>4 DEF EventInHand, OldIsFirst, Numbered, Unnumbered
<1> QED
  BY <1>8, <1>11, <1>12, <1>13, <1>14, <1>15, <1>16 DEF TraceInv
-----------------------------------------------------------------------------
RecorderRecord ==
    [state: {"idle", "recording", "stopping"}, at: TickPlaces,
     drained: 0..MaxDrain + 1, notes: 0..MaxRecords,
     queueDrops: 0..MaxFrames, recordDrops: 0..MaxFrames]

\* A step of the recorder that takes nothing from the queue.
LEMMA RecorderMoves ==
    ASSUME TraceInv, UNCHANGED <<push, frames, ring, write, read, nextSequence, dropped>>,
           UNCHANGED <<inflight, capture, captures>>, active' \in BOOLEAN,
           rec' \in RecorderRecord, rec'.recordDrops = rec.recordDrops, Used' <= MaxRecords,
           rec.at # "advance", rec'.at # "advance", rec'.at = "copy" => read # write,
           CaptureStates', Shares',
           \A r, w \in Nat : Indices(r, w) /\ Counts(r, w) => Settled(r, w)'
    PROVE  TraceInv'
<1>1. PICK r \in Nat, w \in Nat : Indices(r, w) /\ Slots(r, w) /\ Counts(r, w)
  BY DEF TraceInv
<1>2. TraceTypeOK /\ CaptureStates /\ Shares /\ EventInHand /\ OldIsFirst /\ GapsAreDrops
  BY DEF TraceInv
<1>3. TraceTypeOK'
  BY <1>2 DEF TraceTypeOK, Pending, RecorderRecord
<1>4. EventInHand' /\ OldIsFirst' /\ GapsAreDrops'
  BY <1>2 DEF EventInHand, OldIsFirst, GapsAreDrops, Numbered, Unnumbered
<1>5. read # write => r # w
  BY <1>1 DEF Indices
<1>6. Indices(r, w)'
  <2>1. r # w => r < w
    BY <1>1 DEF Indices
  <2> QED
    BY <1>1, <1>5, <2>1 DEF Indices
<1>7. NextRead(r)' = NextRead(r) /\ Taken' = Taken /\ One(Numbered') = One(Numbered)
  BY DEF NextRead, Taken, Numbered
<1>8. Slots(r, w)'
  BY <1>1, <1>7 DEF Slots
<1>9. Counts(r, w)'
  BY <1>1, <1>7 DEF Counts
<1> QED
  BY <1>3, <1>4, <1>6, <1>8, <1>9 DEF TraceInv

LEMMA StartCaptureStep == TraceInv /\ StartCapture => TraceInv'
<1> SUFFICES ASSUME TraceInv, StartCapture PROVE TraceInv'
  OBVIOUS
<1>1. TraceTypeOK /\ CaptureStates /\ Shares
  BY DEF TraceInv
<1>2. /\ rec.at = "none" /\ rec.state = "idle" /\ active' = FALSE
      /\ rec' = [rec EXCEPT !.at = "idleCheck"]
      /\ UNCHANGED <<push, frames, ring, write, read, nextSequence, dropped, inflight, capture, captures>>
  BY DEF StartCapture, Between, RecorderAt, Resumes
<1>3. /\ rec' \in RecorderRecord /\ rec'.at = "idleCheck" /\ rec'.state = "idle"
      /\ rec'.drained = rec.drained /\ rec'.notes = rec.notes
      /\ rec'.queueDrops = rec.queueDrops /\ rec'.recordDrops = rec.recordDrops
  BY <1>1, <1>2 DEF TraceTypeOK, RecorderRecord, TickPlaces
<1>4. Used' = Used /\ Used <= MaxRecords
  BY <1>1, <1>2, <1>3 DEF Used, TraceTypeOK
<1>5. CaptureStates' /\ Shares'
  BY <1>1, <1>2, <1>3, <1>4 DEF CaptureStates, Shares, Pushing, Numbered, Unnumbered, StartCapture
<1>6. ASSUME NEW r \in Nat, NEW w \in Nat, Counts(r, w) PROVE Settled(r, w)'
  BY <1>1, <1>2, <1>3, <1>4, <1>6 DEF Counts, Settled, Late, StoppedFull
<1> QED
  BY <1>2, <1>3, <1>4, <1>5, <1>6, RecorderMoves

LEMMA StartIdleStep == TraceInv /\ StartIdle => TraceInv'
<1> SUFFICES ASSUME TraceInv, StartIdle PROVE TraceInv'
  OBVIOUS
<1>1. TraceTypeOK /\ CaptureStates /\ Shares
  BY DEF TraceInv
<1>2. /\ rec.at = "idleCheck" /\ UNCHANGED active
      /\ rec' = [rec EXCEPT !.at = "reset"] \/ rec' = [rec EXCEPT !.at = "none"]
      /\ UNCHANGED <<push, frames, ring, write, read, nextSequence, dropped, inflight, capture, captures>>
  BY DEF StartIdle, RecorderAt, Resumes, queueVars
<1>3. /\ rec' \in RecorderRecord /\ rec'.at \in {"reset", "none"} /\ rec'.state = rec.state
      /\ rec'.drained = rec.drained /\ rec'.notes = rec.notes
      /\ rec'.queueDrops = rec.queueDrops /\ rec'.recordDrops = rec.recordDrops
  BY <1>1, <1>2 DEF TraceTypeOK, RecorderRecord, TickPlaces
<1>4. Used' = Used /\ Used <= MaxRecords /\ active' \in BOOLEAN
  BY <1>1, <1>2, <1>3 DEF Used, TraceTypeOK
<1>5. CaptureStates' /\ Shares'
  BY <1>1, <1>2, <1>3, <1>4 DEF CaptureStates, Shares, Pushing, Numbered, Unnumbered
<1>6. ASSUME NEW r \in Nat, NEW w \in Nat, Counts(r, w) PROVE Settled(r, w)'
  BY <1>1, <1>2, <1>3, <1>4, <1>6 DEF Counts, Settled, Late, StoppedFull
<1> QED
  BY <1>2, <1>3, <1>4, <1>5, <1>6, RecorderMoves

LEMMA StartOpenStep == TraceInv /\ StartOpen => TraceInv'
<1> SUFFICES ASSUME TraceInv, StartOpen PROVE TraceInv'
  OBVIOUS
<1>1. TraceTypeOK /\ CaptureStates /\ Shares
  BY DEF TraceInv
<1>2. /\ rec.at = "open" /\ active' = TRUE
      /\ rec' = [rec EXCEPT !.at = "none", !.state = "recording"]
      /\ UNCHANGED <<push, frames, ring, write, read, nextSequence, dropped, inflight, capture, captures>>
  BY DEF StartOpen, RecorderAt, Resumes
<1>3. /\ rec' \in RecorderRecord /\ rec'.at = "none" /\ rec'.state = "recording"
      /\ rec'.drained = rec.drained /\ rec'.notes = rec.notes
      /\ rec'.queueDrops = rec.queueDrops /\ rec'.recordDrops = rec.recordDrops
  BY <1>1, <1>2 DEF TraceTypeOK, RecorderRecord, TickPlaces
<1>4. Used' = Used /\ Used <= MaxRecords
  BY <1>1, <1>2, <1>3 DEF Used, TraceTypeOK
<1>5. CaptureStates' /\ Shares'
  BY <1>1, <1>2, <1>3, <1>4 DEF CaptureStates, Shares, Unnumbered
<1>6. ASSUME NEW r \in Nat, NEW w \in Nat PROVE Settled(r, w)'
  BY <1>3 DEF Settled
<1> QED
  BY <1>2, <1>3, <1>4, <1>5, <1>6, RecorderMoves

LEMMA RequestStopStep == TraceInv /\ RequestStop => TraceInv'
<1> SUFFICES ASSUME TraceInv, RequestStop PROVE TraceInv'
  OBVIOUS
<1>1. TraceTypeOK /\ CaptureStates /\ Shares
  BY DEF TraceInv
<1>2. /\ rec.at = "none" /\ rec.state = "recording" /\ active' = FALSE
      /\ rec' = [rec EXCEPT !.state = "stopping"]
      /\ UNCHANGED <<push, frames, ring, write, read, nextSequence, dropped, inflight, capture, captures>>
  BY DEF RequestStop, Between, RecorderAt
<1>3. /\ rec' \in RecorderRecord /\ rec'.at = "none" /\ rec'.state = "stopping"
      /\ rec'.drained = rec.drained /\ rec'.notes = rec.notes
      /\ rec'.queueDrops = rec.queueDrops /\ rec'.recordDrops = rec.recordDrops
  BY <1>1, <1>2 DEF TraceTypeOK, RecorderRecord, TickPlaces
<1>4. Used' = Used /\ Used <= MaxRecords
  BY <1>1, <1>2, <1>3 DEF Used, TraceTypeOK
<1>5. CaptureStates' /\ Shares'
  BY <1>1, <1>2, <1>3, <1>4 DEF CaptureStates, Shares, Unnumbered
<1>6. ASSUME NEW r \in Nat, NEW w \in Nat PROVE Settled(r, w)'
  BY <1>3 DEF Settled
<1> QED
  BY <1>2, <1>3, <1>4, <1>5, <1>6, RecorderMoves

LEMMA AnnotateStep == TraceInv /\ Annotate => TraceInv'
<1> SUFFICES ASSUME TraceInv, Annotate PROVE TraceInv'
  OBVIOUS
<1>1. TraceTypeOK /\ CaptureStates /\ Shares
  BY DEF TraceInv
<1>2. /\ rec.at = "none" /\ rec.state \in {"recording", "stopping"} /\ active' = active
      /\ rec' = [rec EXCEPT !.notes = @ + 1] /\ Used < MaxRecords
      /\ UNCHANGED <<push, frames, ring, write, read, nextSequence, dropped, inflight, capture, captures>>
  BY DEF Annotate, Between, RecorderAt, queueVars
<1>3. PICK n \in 0..MaxRecords : n = rec.notes + 1
  <2>1. Len(capture) \in Nat /\ rec.notes \in Nat /\ MaxRecords \in Nat
    BY <1>1, TraceNumbers
  <2>2. Len(capture) + rec.notes < MaxRecords
    BY <1>2 DEF Used
  <2> QED
    BY <2>1, <2>2
<1>4. rec' = [rec EXCEPT !.notes = n]
  BY <1>2, <1>3
<1>5. /\ rec' \in RecorderRecord /\ rec'.at = "none" /\ rec'.state = rec.state
      /\ rec'.drained = rec.drained /\ rec'.notes = n
      /\ rec'.queueDrops = rec.queueDrops /\ rec'.recordDrops = rec.recordDrops
  BY <1>1, <1>2, <1>4 DEF TraceTypeOK, RecorderRecord, TickPlaces
<1>6. Used' = Used + 1 /\ Used' <= MaxRecords /\ Used \in Nat /\ MaxRecords \in Nat
  <2>1. Len(capture) \in Nat /\ rec.notes \in Nat /\ MaxRecords \in Nat /\ Used \in Nat
    BY <1>1, TraceNumbers
  <2>2. Used = Len(capture) + rec.notes /\ Used' = Len(capture) + n
    BY <1>2, <1>5 DEF Used
  <2> QED
    BY <1>2, <1>3, <2>1, <2>2, SMTT(30)
<1>7. CaptureStates' /\ active' \in BOOLEAN
  BY <1>1, <1>2, <1>5 DEF CaptureStates, TraceTypeOK
<1>8. Shares'
  <2>1. ~(rec.recordDrops > 0 \/ rec.drained > MaxDrain)
    BY <1>1, <1>2, <1>6 DEF Shares
  <2> QED
    BY <1>1, <1>2, <1>5, <2>1 DEF Shares, Unnumbered
<1>9. ASSUME NEW r \in Nat, NEW w \in Nat PROVE Settled(r, w)'
  BY <1>2, <1>5 DEF Settled
<1> QED
  BY <1>2, <1>5, <1>6, <1>7, <1>8, <1>9, RecorderMoves

LEMMA BeginTickStep == TraceInv /\ BeginTick => TraceInv'
<1> SUFFICES ASSUME TraceInv, BeginTick PROVE TraceInv'
  OBVIOUS
<1>1. TraceTypeOK /\ CaptureStates /\ Shares
  BY DEF TraceInv
<1>2. /\ rec.at = "none" /\ rec.state \in {"recording", "stopping"} /\ active' = active
      /\ rec' = [rec EXCEPT !.at = "pop", !.drained = 0]
      /\ UNCHANGED <<push, frames, ring, write, read, nextSequence, dropped, inflight, capture, captures>>
  BY DEF BeginTick, Between, RecorderAt, queueVars
<1>3. 0 \in 0..MaxDrain + 1 /\ ~(0 > MaxDrain)
  BY TraceAssumption
<1>4. /\ rec' \in RecorderRecord /\ rec'.at = "pop" /\ rec'.state = rec.state
      /\ rec'.drained = 0 /\ rec'.notes = rec.notes
      /\ rec'.queueDrops = rec.queueDrops /\ rec'.recordDrops = rec.recordDrops
  BY <1>1, <1>2, <1>3 DEF TraceTypeOK, RecorderRecord, TickPlaces
<1>5. Used' = Used /\ Used <= MaxRecords
  BY <1>1, <1>2, <1>4 DEF Used, TraceTypeOK
<1>6. CaptureStates' /\ active' \in BOOLEAN
  BY <1>1, <1>2, <1>4 DEF CaptureStates, TraceTypeOK
<1>7. Shares'
  BY <1>1, <1>2, <1>3, <1>4, <1>5 DEF Shares, Unnumbered
<1>8. ASSUME NEW r \in Nat, NEW w \in Nat PROVE Settled(r, w)'
  BY <1>2, <1>4 DEF Settled
<1> QED
  BY <1>2, <1>4, <1>5, <1>6, <1>7, <1>8, RecorderMoves

LEMMA PopStep == TraceInv /\ Pop => TraceInv'
<1> SUFFICES ASSUME TraceInv, Pop PROVE TraceInv'
  OBVIOUS
<1>1. TraceTypeOK /\ CaptureStates /\ Shares
  BY DEF TraceInv
<1>2. /\ rec.at = "pop" /\ active' = active
      /\ \/ rec' = [rec EXCEPT !.at = "account"]
         \/ rec' = [rec EXCEPT !.at = "copy"] /\ read # write /\ rec.drained # MaxDrain
      /\ UNCHANGED <<push, frames, ring, write, read, nextSequence, dropped, inflight, capture, captures>>
  BY DEF Pop, RecorderAt, Resumes, queueVars
<1>3. /\ rec' \in RecorderRecord /\ rec'.state = rec.state
      /\ rec'.at = "account" \/ (rec'.at = "copy" /\ read # write /\ rec.drained # MaxDrain)
      /\ rec'.drained = rec.drained /\ rec'.notes = rec.notes
      /\ rec'.queueDrops = rec.queueDrops /\ rec'.recordDrops = rec.recordDrops
  BY <1>1, <1>2 DEF TraceTypeOK, RecorderRecord, TickPlaces
<1>4. Used' = Used /\ Used <= MaxRecords
  BY <1>1, <1>2, <1>3 DEF Used, TraceTypeOK
<1>5. CaptureStates' /\ active' \in BOOLEAN
  BY <1>1, <1>2, <1>3 DEF CaptureStates, TraceTypeOK
<1>6. Shares'
  BY <1>1, <1>2, <1>3, <1>4 DEF Shares, Unnumbered
<1>7. ASSUME NEW r \in Nat, NEW w \in Nat PROVE Settled(r, w)'
  BY <1>1, <1>2, <1>3 DEF Settled, CaptureStates
<1> QED
  BY <1>2, <1>3, <1>4, <1>5, <1>6, <1>7, RecorderMoves

LEMMA AccountStep == TraceInv /\ Account => TraceInv'
<1> SUFFICES ASSUME TraceInv, Account PROVE TraceInv'
  OBVIOUS
<1>1. TraceTypeOK /\ CaptureStates /\ Shares
  BY DEF TraceInv
<1>2. /\ rec.at = "account"
      /\ UNCHANGED <<push, frames, ring, write, read, nextSequence, dropped, inflight, capture, captures>>
      /\ active' = active /\ rec \in RecorderRecord /\ dropped \in 0..MaxFrames
      /\ rec.state \in {"recording", "stopping"} /\ captures > 0
  BY <1>1 DEF Account, RecorderAt, queueVars, CaptureStates, TraceTypeOK, RecorderRecord
<1>3. PICK place \in TickPlaces :
        /\ rec' = [rec EXCEPT !.queueDrops = dropped, !.at = place]
        /\ \/ rec.state = "stopping" /\ place = "pending"
           \/ rec.state = "recording" /\ Used >= MaxRecords /\ place = "stop"
           \/ rec.state = "recording" /\ place = "none"
  <2>1. Used \in Nat /\ MaxRecords \in Nat
    BY <1>1, TraceNumbers
  <2> DEFINE next == CASE rec.state = "stopping" -> "pending"
                       [] rec.state # "stopping" /\ Used >= MaxRecords -> "stop"
                       [] rec.state # "stopping" /\ Used < MaxRecords -> "none"
  <2>2. rec' = [rec EXCEPT !.queueDrops = dropped, !.at = next]
    BY DEF Account
  <2>3. rec.state = "stopping" => next = "pending"
    BY <2>1
  <2>4. rec.state = "recording" /\ Used >= MaxRecords => next = "stop"
    BY <2>1
  <2>5. rec.state = "recording" /\ ~(Used >= MaxRecords) => next = "none"
    BY <2>1
  <2> HIDE DEF next
  <2>6. next \in TickPlaces
    BY <1>2, <2>3, <2>4, <2>5 DEF TickPlaces
  <2> QED
    BY <1>2, <2>2, <2>3, <2>4, <2>5, <2>6
<1>4. /\ rec' \in RecorderRecord /\ rec'.at = place /\ rec'.state = rec.state
      /\ rec'.drained = rec.drained /\ rec'.notes = rec.notes
      /\ rec'.queueDrops = dropped /\ rec'.recordDrops = rec.recordDrops
  BY <1>2, <1>3 DEF RecorderRecord
<1>5. Used' = Used /\ Used <= MaxRecords
  BY <1>1, <1>2, <1>4 DEF Used, TraceTypeOK
<1>6. CaptureStates' /\ active' \in BOOLEAN
  BY <1>1, <1>2, <1>3, <1>4 DEF CaptureStates, TraceTypeOK
<1>7. Shares'
  <2>1. dropped <= dropped
    BY <1>2
  <2>2. (nextSequence + One(Unnumbered) <= frames)'
    BY <1>1, <1>2 DEF Shares, Unnumbered
  <2> QED
    BY <1>1, <1>2, <1>3, <1>4, <1>5, <2>1, <2>2 DEF Shares
<1>8. ASSUME NEW r \in Nat, NEW w \in Nat PROVE Settled(r, w)'
  <2>1. Late' = 0 /\ One(Pushing') \in 0..1 /\ One(Dropping') \in 0..1
    BY <1>2, <1>4 DEF One, Late
  <2>2. rec'.state # "idle" /\ rec'.at # "finish"
    BY <1>2, <1>3, <1>4
  <2> QED
    BY <2>1, <2>2 DEF Settled
<1> QED
  BY <1>2, <1>3, <1>4, <1>5, <1>6, <1>7, <1>8, RecorderMoves

LEMMA StopFullStep == TraceInv /\ StopFull => TraceInv'
<1> SUFFICES ASSUME TraceInv, StopFull PROVE TraceInv'
  OBVIOUS
<1>1. TraceTypeOK /\ CaptureStates /\ Shares
  BY DEF TraceInv
<1>2. /\ rec.at = "stop" /\ active' = FALSE
      /\ rec' = [rec EXCEPT !.state = "stopping", !.at = IF Discarding THEN "pop" ELSE "pending"]
      /\ UNCHANGED <<push, frames, ring, write, read, nextSequence, dropped, inflight, capture, captures>>
  BY DEF StopFull, RecorderAt
<1>3. rec.state = "recording" /\ Used >= MaxRecords /\ rec \in RecorderRecord /\ captures > 0
  BY <1>1, <1>2 DEF CaptureStates, Shares, TraceTypeOK, RecorderRecord
<1>4. /\ rec' \in RecorderRecord /\ rec'.state = "stopping"
      /\ (Discarding /\ rec'.at = "pop") \/ (~Discarding /\ rec'.at = "pending")
      /\ rec'.drained = rec.drained /\ rec'.notes = rec.notes
      /\ rec'.queueDrops = rec.queueDrops /\ rec'.recordDrops = rec.recordDrops
  BY <1>2, <1>3 DEF RecorderRecord, TickPlaces
<1>5. Used' = Used /\ Used <= MaxRecords
  BY <1>1, <1>2, <1>4 DEF Used, TraceTypeOK
<1>6. CaptureStates'
  BY <1>2, <1>3, <1>4 DEF CaptureStates
<1>7. Shares'
  <2>1. (nextSequence + One(Unnumbered) <= frames)'
    BY <1>1, <1>2 DEF Shares, Unnumbered
  <2> QED
    BY <1>1, <1>2, <1>3, <1>4, <1>5, <2>1 DEF Shares
<1>8. ASSUME NEW r \in Nat, NEW w \in Nat, Counts(r, w) PROVE Settled(r, w)'
  <2>1. Late' = Late /\ One(Dropping') = One(Dropping) /\ rec'.state # "idle"
    BY <1>2, <1>4 DEF Late, Dropping
  <2>2. ~Discarding => StoppedFull'
    <3>1. Used \in Nat /\ MaxRecords \in Nat /\ rec.recordDrops \in Nat
      BY <1>1, TraceNumbers
    <3>2. ~Discarding => ~(rec.recordDrops > 0)
      BY <1>1, <1>3 DEF Shares, Discarding
    <3>3. Used = MaxRecords
      BY <1>3, <1>5, <3>1
    <3>4. ~Discarding => rec.recordDrops = 0
      BY <3>1, <3>2
    <3> QED
      BY <1>4, <1>5, <3>3, <3>4 DEF StoppedFull
  <2>3. ~Discarding => r < w \/ Late + One(Dropping) <= 1
    BY <1>2, <1>8 DEF Counts, Settled
  <2> QED
    BY <1>4, <2>1, <2>2, <2>3 DEF Settled
<1> QED
  BY <1>2, <1>4, <1>5, <1>6, <1>7, <1>8, RecorderMoves

LEMMA CheckPendingStep == TraceInv /\ CheckPending => TraceInv'
<1> SUFFICES ASSUME TraceInv, CheckPending PROVE TraceInv'
  OBVIOUS
<1>1. TraceTypeOK /\ CaptureStates /\ Shares
  BY DEF TraceInv
<1>2. /\ rec.at = "pending" /\ active' = active
      /\ \/ rec' = [rec EXCEPT !.at = "finish"] /\ Pending = 0
         \/ rec' = [rec EXCEPT !.at = "none"]
      /\ UNCHANGED <<push, frames, ring, write, read, nextSequence, dropped, inflight, capture, captures>>
  BY DEF CheckPending, RecorderAt, Resumes, queueVars
<1>3. /\ rec' \in RecorderRecord /\ rec'.state = rec.state
      /\ rec'.at = "none" \/ (rec'.at = "finish" /\ Pending = 0)
      /\ rec'.drained = rec.drained /\ rec'.notes = rec.notes
      /\ rec'.queueDrops = rec.queueDrops /\ rec'.recordDrops = rec.recordDrops
  BY <1>1, <1>2 DEF TraceTypeOK, RecorderRecord, TickPlaces
<1>4. Used' = Used /\ Used <= MaxRecords
  BY <1>1, <1>2, <1>3 DEF Used, TraceTypeOK
<1>5. CaptureStates' /\ active' \in BOOLEAN
  BY <1>1, <1>2, <1>3 DEF CaptureStates, TraceTypeOK
<1>6. Shares'
  BY <1>1, <1>2, <1>3, <1>4 DEF Shares, Unnumbered
<1>7. ASSUME NEW r \in Nat, NEW w \in Nat, Indices(r, w), Counts(r, w) PROVE Settled(r, w)'
  <2>1. rec.state # "idle"
    BY <1>1, <1>2 DEF CaptureStates
  <2>2. rec'.at = "finish" => w - r = 0
    BY <1>3, <1>7, IndexFacts
  <2>3. Late \in Int /\ Late' = Late /\ (StoppedFull' <=> StoppedFull)
    <3>1. dropped \in Nat /\ rec.queueDrops \in Nat
      BY <1>1, TraceNumbers
    <3> QED
      BY <1>2, <1>3, <1>4, <3>1 DEF Late, StoppedFull
  <2>4. /\ One(Pushing) \in 0..1 /\ One(Pushing') = One(Pushing)
        /\ One(Dropping) \in 0..1 /\ One(Dropping') = One(Dropping)
    BY <1>2 DEF One, Pushing, Numbered, Dropping
  <2>5. /\ r < w \/ Late + One(Dropping) <= 1
        /\ ~StoppedFull => Late + One(Pushing) <= 1
    BY <1>2, <1>7 DEF Counts, Settled
  <2>6. rec'.at = "finish" => Late + One(Dropping) <= 1 /\ (w - r) + One(Pushing) <= 1
    BY <2>2, <2>4, <2>5
  <2>7. rec'.at = "finish" /\ ~StoppedFull => Late + (w - r) + One(Pushing) <= 1
    BY <2>2, <2>3, <2>4, <2>5
  <2> QED
    BY <1>2, <1>3, <2>1, <2>3, <2>4, <2>6, <2>7 DEF Settled
<1> QED
  BY <1>2, <1>3, <1>4, <1>5, <1>6, <1>7, RecorderMoves

LEMMA CheckIdleStep == TraceInv /\ CheckIdle => TraceInv'
<1> SUFFICES ASSUME TraceInv, CheckIdle PROVE TraceInv'
  OBVIOUS
<1>1. TraceTypeOK /\ CaptureStates /\ Shares
  BY DEF TraceInv
<1>2. /\ rec.at = "finish" /\ active' = active
      /\ rec' = [rec EXCEPT !.at = "none", !.state = IF inflight = 0 THEN "idle" ELSE @]
      /\ UNCHANGED <<push, frames, ring, write, read, nextSequence, dropped, inflight, capture, captures>>
  BY DEF CheckIdle, RecorderAt, queueVars
<1>3. rec.state = "stopping" /\ ~active
  BY <1>1, <1>2 DEF CaptureStates
<1>4. /\ rec' \in RecorderRecord /\ rec'.at = "none"
      /\ rec'.state = "stopping" \/ (rec'.state = "idle" /\ inflight = 0)
      /\ rec'.drained = rec.drained /\ rec'.notes = rec.notes
      /\ rec'.queueDrops = rec.queueDrops /\ rec'.recordDrops = rec.recordDrops
  <2>1. CASE inflight = 0
    BY <1>1, <1>2, <2>1 DEF TraceTypeOK, RecorderRecord, TickPlaces
  <2>2. CASE inflight # 0
    BY <1>1, <1>2, <1>3, <2>2 DEF TraceTypeOK, RecorderRecord, TickPlaces
  <2> QED
    BY <2>1, <2>2
<1>5. Used' = Used /\ Used <= MaxRecords
  BY <1>1, <1>2, <1>4 DEF Used, TraceTypeOK
<1>6. inflight = 0 => ~Pushing
  BY <1>1 DEF TraceTypeOK, Pushing, Numbered
<1>7. CaptureStates' /\ active' \in BOOLEAN
  <2>1. Pushing' <=> Pushing
    BY <1>2 DEF Pushing, Numbered
  <2> QED
    BY <1>1, <1>2, <1>3, <1>4, <1>6, <2>1 DEF CaptureStates, TraceTypeOK
<1>8. Shares'
  BY <1>1, <1>2, <1>4, <1>5 DEF Shares, Unnumbered
<1>9. ASSUME NEW r \in Nat, NEW w \in Nat, Indices(r, w), Counts(r, w) PROVE Settled(r, w)'
  <2>1. Late \in Int /\ Late' = Late /\ (StoppedFull' <=> StoppedFull)
    <3>1. dropped \in Nat /\ rec.queueDrops \in Nat
      BY <1>1, TraceNumbers
    <3> QED
      BY <1>2, <1>4, <1>5, <3>1 DEF Late, StoppedFull
  <2>2. One(Pushing) \in 0..1 /\ One(Dropping) \in 0..1
    BY DEF One
  <2>3. /\ Late + One(Dropping) <= 1 /\ (w - r) + One(Pushing) <= 1
        /\ ~StoppedFull => Late + (w - r) + One(Pushing) <= 1
    BY <1>2, <1>9 DEF Counts, Settled
  <2>4. /\ Late <= 1 /\ w - r <= 1
        /\ ~StoppedFull => Late + (w - r) <= 1
    BY <2>1, <2>2, <2>3
  <2> QED
    BY <1>2, <1>4, <2>1, <2>4 DEF Settled
<1> QED
  BY <1>2, <1>4, <1>5, <1>7, <1>8, <1>9, RecorderMoves

LEMMA StartResetStep == TraceInv /\ StartReset => TraceInv'
<1> SUFFICES ASSUME TraceInv, StartReset PROVE TraceInv'
  OBVIOUS
<1>1. PICK r \in Nat, w \in Nat : Indices(r, w) /\ Slots(r, w) /\ Counts(r, w)
  BY DEF TraceInv
<1>2. TraceTypeOK /\ CaptureStates /\ Shares /\ EventInHand /\ OldIsFirst /\ GapsAreDrops
  BY DEF TraceInv
<1>3. /\ rec.at = "reset" /\ read' = write /\ nextSequence' = 0 /\ dropped' = 0
      /\ capture' = <<>> /\ captures' = captures + 1
      /\ rec' = [state |-> "idle", at |-> "open", drained |-> 0, notes |-> 0,
                 queueDrops |-> 0, recordDrops |-> 0]
      /\ UNCHANGED <<ring, write, active, inflight, push, frames>>
  BY DEF StartReset, RecorderAt
<1>4. rec' \in RecorderRecord
  BY <1>3, TraceAssumption DEF RecorderRecord, TickPlaces
<1>5. rec.state = "idle" /\ ~Pushing /\ captures < MaxCaptures /\ active = FALSE
  BY <1>2, <1>3 DEF CaptureStates, TraceTypeOK
<1>6. captures' \in 0..MaxCaptures /\ captures' > 0
  BY <1>2, <1>3, <1>5, TraceNumbers, SMTT(30)
<1>7. capture' \in Seq(Event) /\ Len(capture') = 0 /\ Used' = 0 /\ Taken' = 0
  BY <1>3 DEF Used, Taken
<1>8. /\ w \in Int /\ w % Span \in 0..Span - 1 /\ write = w % Span
      /\ Span \in Nat \ {0} /\ Capacity \in Nat /\ MaxFrames \in Nat /\ MaxRecords \in Nat
  BY <1>1, IndexFacts, TraceAssumption DEF Indices
<1>9. Pending' = 0
  <2>1. PICK n \in 0..Span - 1 : n = write
    BY <1>8
  <2>2. PICK z \in 0..Span - 1 : z = 0 /\ z = n - n
    BY <1>8
  <2>3. z % Span = z
    BY <1>8, SmallRemainder
  <2>4. write' - read' = z
    BY <1>3, <2>1, <2>2
  <2> QED
    BY <2>2, <2>3, <2>4 DEF Pending, Wrap
<1>10. TraceTypeOK'
  <2>1. Pending' \in 0..Capacity /\ 0 \in 0..MaxFrames /\ 0 <= MaxRecords
    BY <1>8, <1>9
  <2> QED
    BY <1>2, <1>3, <1>4, <1>6, <1>7, <2>1 DEF TraceTypeOK, RecorderRecord
<1>11. CaptureStates'
  BY <1>3, <1>5, <1>6 DEF CaptureStates, Pushing, Numbered
<1>12. Shares'
  <2>1. One(Unnumbered') = One(Unnumbered) /\ One(Unnumbered) \in 0..1
    BY <1>3 DEF One, Unnumbered
  <2>2. 0 + One(Unnumbered') <= frames
    BY <1>2, <2>1, TraceNumbers, SMTT(30) DEF Shares
  <2>3. ~(0 > MaxDrain)
    BY TraceAssumption
  <2> QED
    BY <1>3, <2>2, <2>3 DEF Shares
<1>13. EventInHand' /\ OldIsFirst' /\ GapsAreDrops'
  BY <1>2, <1>3, <1>5 DEF EventInHand, OldIsFirst, GapsAreDrops, Numbered, Unnumbered, Pushing
<1>14. Indices(w, w)'
  <2>1. w <= w /\ w - w <= Capacity
    BY <1>8
  <2> QED
    BY <1>3, <1>5, <1>8, <2>1 DEF Indices, Pushing, Numbered
<1>15. Slots(w, w)'
  <2>1. NextRead(w)' = w /\ w..w - 1 = {}
    BY <1>3 DEF NextRead
  <2> QED
    BY <1>3, <1>5, <2>1 DEF Slots, Pushing, Numbered
<1>16. Counts(w, w)'
  <2>1. NextRead(w)' = w /\ One(Numbered') = 0 /\ w - w = 0
    BY <1>3, <1>5, <1>8 DEF NextRead, One, Pushing, Numbered
  <2>2. Late' = 0
    BY <1>3 DEF Late
  <2> QED
    BY <1>3, <1>7, <2>1, <2>2 DEF Counts, Settled
<1> QED
  BY <1>10, <1>11, <1>12, <1>13, <1>14, <1>15, <1>16 DEF TraceInv

LEMMA AdvanceStep == TraceInv /\ Advance => TraceInv'
<1> SUFFICES ASSUME TraceInv, Advance PROVE TraceInv'
  OBVIOUS
<1>1. PICK r \in Nat, w \in Nat : Indices(r, w) /\ Slots(r, w) /\ Counts(r, w)
  BY DEF TraceInv
<1>2. TraceTypeOK /\ CaptureStates /\ Shares /\ EventInHand /\ OldIsFirst /\ GapsAreDrops
  BY DEF TraceInv
<1>3. /\ rec.at = "advance" /\ read' = Wrap(read + 1)
      /\ \/ rec' = [rec EXCEPT !.at = "pop"] /\ ~(rec.state = "recording" /\ Discarding)
         \/ rec' = [rec EXCEPT !.at = "stop"] /\ rec.state = "recording" /\ Discarding
      /\ UNCHANGED <<ring, write, nextSequence, dropped, active, inflight, capture, captures, push, frames>>
  BY DEF Advance, RecorderAt, Resumes
<1>4. /\ rec' \in RecorderRecord /\ rec'.state = rec.state
      /\ \/ rec'.at = "pop" /\ ~(rec.state = "recording" /\ Discarding)
         \/ rec'.at = "stop" /\ rec.state = "recording" /\ Discarding
      /\ rec'.drained = rec.drained /\ rec'.notes = rec.notes
      /\ rec'.queueDrops = rec.queueDrops /\ rec'.recordDrops = rec.recordDrops
  BY <1>2, <1>3 DEF TraceTypeOK, RecorderRecord, TickPlaces
<1>5. PICK q \in Nat : q = r + 1
  BY <1>1
<1>6. /\ r < w /\ q <= w /\ w - q <= Capacity /\ w - r <= Capacity /\ read' = q % Span
      /\ write = w % Span /\ Capacity \in Nat /\ Span \in Nat \ {0} /\ Capacity < Span
  BY <1>1, <1>3, <1>5, IndexFacts, TraceAssumption DEF Indices
<1>7. Used' = Used /\ Used <= MaxRecords
  BY <1>2, <1>3, <1>4 DEF Used, TraceTypeOK
<1>8. Pending' = w - q
  <2>1. ((w % Span) - (q % Span)) % Span = w - q
    <3>1. w - q < Span
      BY <1>6
    <3> QED
      BY <1>6, <3>1, WrappedDistance
  <2> QED
    BY <1>3, <1>6, <2>1 DEF Pending, Wrap
<1>9. TraceTypeOK'
  <2>1. w - q \in 0..Capacity
    BY <1>6
  <2>2. read' \in 0..Span - 1
    BY <1>6, GoesRound
  <2> QED
    BY <1>2, <1>3, <1>4, <1>7, <1>8, <2>1, <2>2 DEF TraceTypeOK, RecorderRecord
<1>10. CaptureStates'
  BY <1>2, <1>3, <1>4 DEF CaptureStates, Pushing, Numbered
<1>11. Shares'
  <2>1. (nextSequence + One(Unnumbered) <= frames)'
    BY <1>2, <1>3 DEF Shares, Unnumbered
  <2> QED
    BY <1>2, <1>3, <1>4, <1>7, <2>1 DEF Shares, Discarding
<1>12. EventInHand' /\ OldIsFirst' /\ GapsAreDrops'
  BY <1>2, <1>3 DEF EventInHand, OldIsFirst, GapsAreDrops, Numbered, Unnumbered
<1>13. Indices(q, w)'
  <2>1. w - r < Capacity => w - q < Capacity
    BY <1>5, <1>6
  <2> QED
    BY <1>1, <1>3, <1>4, <1>6, <2>1 DEF Indices
<1>14. NextRead(q)' = NextRead(r) /\ Taken' = Taken /\ One(Numbered') = One(Numbered)
  BY <1>3, <1>4, <1>5 DEF NextRead, Taken, Numbered
<1>15. Slots(q, w)'
  BY <1>1, <1>3, <1>14 DEF Slots
<1>16. Counts(q, w)'
  <2>1. rec'.state # "idle"
    BY <1>2, <1>3, <1>4 DEF CaptureStates
  <2>2. rec'.at = "stop" => Discarding'
    BY <1>4 DEF Discarding
  <2> QED
    BY <1>1, <1>3, <1>4, <1>14, <2>1, <2>2 DEF Counts, Settled
<1> QED
  BY <1>9, <1>10, <1>11, <1>12, <1>13, <1>15, <1>16 DEF TraceInv

\* An event taken over into the capture.
LEMMA CopyTakesStep ==
    ASSUME TraceInv, Copy, ~Discarding, Used < MaxRecords
    PROVE  TraceInv'
<1>1. PICK r \in Nat, w \in Nat : Indices(r, w) /\ Slots(r, w) /\ Counts(r, w)
  BY DEF TraceInv
<1>2. TraceTypeOK /\ CaptureStates /\ Shares /\ EventInHand /\ OldIsFirst /\ GapsAreDrops
  BY DEF TraceInv
<1> DEFINE e == ring[read % Capacity]
           n == Len(capture)
<1>3. Used \in Nat /\ MaxRecords \in Nat /\ n \in Nat /\ rec.notes \in Nat /\ rec.drained \in Nat
      /\ MaxDrain \in Nat /\ rec.recordDrops \in Nat
  BY <1>2, TraceNumbers
<1>4. /\ rec.at = "copy" /\ capture' = Append(capture, e) /\ active' = active
      /\ rec' = [rec EXCEPT !.at = "advance", !.drained = @ + 1]
      /\ UNCHANGED <<push, frames, ring, write, read, nextSequence, dropped, inflight, captures>>
  BY <1>3 DEF Copy, RecorderAt, queueVars
<1>5. /\ r < w /\ NextRead(r) = r /\ read % Capacity = r % Capacity
      /\ rec.recordDrops = 0 /\ Taken = n
  <2>1. ~(rec.recordDrops > 0)
    BY <1>2, <1>3 DEF Shares
  <2>2. rec.recordDrops = 0
    BY <1>3, <2>1
  <2>3. Taken = n
    BY <1>3, <2>2 DEF Taken
  <2>4. r < w /\ NextRead(r) = r
    BY <1>1, <1>4 DEF Indices, NextRead
  <2>5. read % Capacity = r % Capacity
    BY <1>1, IndexFacts
  <2> QED
    BY <2>2, <2>3, <2>4, <2>5
<1>6. /\ e \in Event /\ e.seq = n + 1 + e.lost
      /\ e.of # captures => e.seq = 1
  <2>1. r \in r..w - 1
    BY <1>5
  <2>2. e \in Event /\ e.seq = Taken + (r - r) + 1 + e.lost /\ (e.of # captures => e.seq = 1)
    BY <1>1, <1>5, <2>1 DEF Slots
  <2>3. e.lost \in Nat
    BY <2>2 DEF Event
  <2> HIDE DEF e, n
  <2> QED
    BY <1>3, <1>5, <2>2, <2>3
<1> HIDE DEF e
<1>7. /\ capture \in Seq(Event) /\ capture' \in Seq(Event) /\ Len(capture') = n + 1
      /\ DOMAIN capture' = 1..n + 1 /\ DOMAIN capture = 1..n
      /\ capture'[n + 1] = e /\ \A i \in 1..n : capture'[i] = capture[i]
  BY <1>2, <1>4, <1>6 DEF TraceTypeOK
<1>8. PICK d \in 0..MaxDrain : d = rec.drained + 1
  BY <1>2, <1>3, <1>4, SMTT(30) DEF Shares, Discarding
<1>9. /\ rec' \in RecorderRecord /\ rec'.at = "advance" /\ rec'.state = rec.state
      /\ rec'.drained = d /\ rec'.notes = rec.notes
      /\ rec'.queueDrops = rec.queueDrops /\ rec'.recordDrops = 0
  <2>1. rec' = [rec EXCEPT !.at = "advance", !.drained = d] /\ d \in 0..MaxDrain + 1
    BY <1>3, <1>4, <1>8, SMTT(30)
  <2> QED
    BY <1>2, <1>5, <2>1 DEF TraceTypeOK, RecorderRecord, TickPlaces
<1>10. Used' = Used + 1 /\ Used' <= MaxRecords /\ Taken' = n + 1
  <2>1. Used' = (n + 1) + rec.notes /\ Used = n + rec.notes /\ Taken' = (n + 1) + 0
    BY <1>7, <1>9 DEF Used, Taken
  <2> HIDE DEF n
  <2> QED
    BY <1>3, <2>1
<1>11. TraceTypeOK'
  BY <1>2, <1>4, <1>7, <1>9, <1>10 DEF TraceTypeOK, RecorderRecord, Pending
<1>12. CaptureStates'
  BY <1>2, <1>4, <1>9 DEF CaptureStates, Pushing, Numbered
<1>13. Shares'
  <2>1. ~(d > MaxDrain) /\ ~(0 > 0)
    BY <1>3
  <2>2. (nextSequence + One(Unnumbered) <= frames)'
    BY <1>2, <1>4 DEF Shares, Unnumbered
  <2> QED
    BY <1>2, <1>4, <1>9, <2>1, <2>2 DEF Shares
<1>14. EventInHand' /\ OldIsFirst'
  BY <1>2, <1>3, <1>4, <1>6, <1>7, SMTT(30) DEF EventInHand, OldIsFirst, Numbered, Unnumbered
<1>15. GapsAreDrops'
  <2> SUFFICES ASSUME NEW i \in 1..n + 1 PROVE capture'[i].seq = i + capture'[i].lost
    BY <1>7 DEF GapsAreDrops
  <2>1. CASE i = n + 1
    BY <1>6, <1>7, <2>1
  <2>2. CASE i # n + 1
    <3>1. i \in 1..n
      BY <1>3, <2>2
    <3> QED
      BY <1>2, <1>7, <3>1 DEF GapsAreDrops
  <2> QED
    BY <2>1, <2>2
<1>16. Indices(r, w)'
  BY <1>1, <1>4, <1>5, <1>9 DEF Indices
<1>17. NextRead(r)' = r + 1 /\ One(Numbered') = One(Numbered) /\ One(Numbered) \in 0..1
  BY <1>4, <1>9 DEF NextRead, Numbered, One
<1>18. Slots(r, w)'
  <2> SUFFICES ASSUME NEW k \in r + 1..w - 1
               PROVE  /\ ring[k % Capacity] \in Event
                      /\ ring[k % Capacity].seq = (n + 1) + (k - (r + 1)) + 1 + ring[k % Capacity].lost
                      /\ ring[k % Capacity].of # captures => ring[k % Capacity].seq = 1
    BY <1>1, <1>4, <1>10, <1>17 DEF Slots
  <2>1. k \in r..w - 1 /\ (n + 1) + (k - (r + 1)) + 1 = n + (k - r) + 1
    BY <1>3
  <2> HIDE DEF n
  <2>2. /\ ring[k % Capacity] \in Event
        /\ ring[k % Capacity].seq = n + (k - r) + 1 + ring[k % Capacity].lost
        /\ ring[k % Capacity].of # captures => ring[k % Capacity].seq = 1
    BY <1>1, <1>5, <2>1 DEF Slots
  <2> QED
    BY <2>1, <2>2
<1>19. Counts(r, w)'
  <2>1. nextSequence = n + (w - r) + dropped + One(Numbered)
    BY <1>1, <1>5 DEF Counts
  <2> HIDE DEF n
  <2>2. dropped \in Nat /\ n + (w - r) = (n + 1) + (w - (r + 1))
    BY <1>2, <1>3, TraceNumbers
  <2>3. nextSequence = (n + 1) + (w - (r + 1)) + dropped + One(Numbered)
    BY <2>1, <2>2
  <2>4. rec'.state # "idle"
    BY <1>2, <1>4, <1>9 DEF CaptureStates
  <2> QED
    BY <1>4, <1>9, <1>10, <1>17, <2>3, <2>4 DEF Counts, Settled
<1> QED
  BY <1>11, <1>12, <1>13, <1>14, <1>15, <1>16, <1>18, <1>19 DEF TraceInv

\* An event that does not fit.
LEMMA CopyDropsStep ==
    ASSUME TraceInv, Copy, Discarding \/ Used >= MaxRecords
    PROVE  TraceInv'
<1>1. PICK r \in Nat, w \in Nat : Indices(r, w) /\ Slots(r, w) /\ Counts(r, w)
  BY DEF TraceInv
<1>2. TraceTypeOK /\ CaptureStates /\ Shares /\ EventInHand /\ OldIsFirst /\ GapsAreDrops
  BY DEF TraceInv
<1>3. Used \in Nat /\ MaxRecords \in Nat /\ Len(capture) \in Nat /\ rec.drained \in Nat
      /\ MaxDrain \in Nat /\ rec.recordDrops \in Nat /\ dropped \in Nat /\ MaxFrames \in Nat
  BY <1>2, TraceNumbers
<1>4. /\ rec.at = "copy" /\ active' = active
      /\ rec' = [rec EXCEPT !.at = "advance", !.drained = MaxDrain + 1, !.recordDrops = @ + 1]
      /\ UNCHANGED <<push, frames, ring, write, read, nextSequence, dropped, inflight, captures, capture>>
  BY <1>3 DEF Copy, RecorderAt, queueVars
<1>5. Used >= MaxRecords
  BY <1>2 DEF Shares, Discarding
<1>6. r < w /\ NextRead(r) = r
  BY <1>1, <1>4 DEF Indices, NextRead
<1>7. One(Numbered') = One(Numbered) /\ One(Numbered) \in 0..1
  BY <1>4 DEF Numbered, One
<1>8. nextSequence = Taken + (w - r) + dropped + One(Numbered)
  BY <1>1, <1>6 DEF Counts
<1>9. PICK n \in 0..MaxFrames : n = rec.recordDrops + 1
  <2>1. nextSequence \in 0..MaxFrames
    BY <1>2 DEF TraceTypeOK
  <2>2. PICK d \in Nat : w = r + 1 + d
    <3>1. w - r - 1 \in Nat /\ w = r + 1 + (w - r - 1)
      BY <1>6
    <3> QED
      BY <3>1
  <2>3. w - r = d + 1
    BY <2>2
  <2>4. nextSequence = (Len(capture) + rec.recordDrops) + (d + 1) + dropped + One(Numbered)
    BY <1>8, <2>3 DEF Taken
  <2> QED
    BY <1>3, <1>7, <2>1, <2>4, SMTT(30)
<1>10. /\ rec' \in RecorderRecord /\ rec'.at = "advance" /\ rec'.state = rec.state
       /\ rec'.drained = MaxDrain + 1 /\ rec'.notes = rec.notes
       /\ rec'.queueDrops = rec.queueDrops /\ rec'.recordDrops = n
  <2>1. rec' = [rec EXCEPT !.at = "advance", !.drained = MaxDrain + 1, !.recordDrops = n]
    BY <1>4, <1>9
  <2>2. MaxDrain + 1 \in 0..MaxDrain + 1
    BY <1>3
  <2> QED
    BY <1>2, <2>1, <2>2 DEF TraceTypeOK, RecorderRecord, TickPlaces
<1>11. Used' = Used /\ Used <= MaxRecords
  BY <1>2, <1>4, <1>10 DEF Used, TraceTypeOK
<1>12. Taken' = Taken + 1 /\ Taken \in Nat /\ NextRead(r)' = r + 1
  <2>1. Taken' = Len(capture) + n /\ Taken = Len(capture) + rec.recordDrops /\ NextRead(r)' = r + 1
    BY <1>4, <1>10 DEF Taken, NextRead
  <2> QED
    BY <1>3, <1>9, <2>1, SMTT(30)
<1>13. TraceTypeOK'
  BY <1>2, <1>4, <1>10, <1>11 DEF TraceTypeOK, RecorderRecord, Pending
<1>14. CaptureStates'
  BY <1>2, <1>4, <1>10 DEF CaptureStates, Pushing, Numbered
<1>15. Shares'
  <2>1. MaxDrain + 1 > MaxDrain
    BY <1>3
  <2>2. (nextSequence + One(Unnumbered) <= frames)'
    BY <1>2, <1>4 DEF Shares, Unnumbered
  <2> QED
    BY <1>2, <1>4, <1>5, <1>10, <1>11, <2>1, <2>2 DEF Shares
<1>16. EventInHand' /\ OldIsFirst' /\ GapsAreDrops'
  BY <1>2, <1>4 DEF EventInHand, OldIsFirst, GapsAreDrops, Numbered, Unnumbered
<1>17. Indices(r, w)'
  BY <1>1, <1>4, <1>6, <1>10 DEF Indices
<1>18. Slots(r, w)'
  <2> SUFFICES ASSUME NEW k \in r + 1..w - 1
               PROVE  /\ ring[k % Capacity] \in Event
                      /\ ring[k % Capacity].seq = (Taken + 1) + (k - (r + 1)) + 1 + ring[k % Capacity].lost
                      /\ ring[k % Capacity].of # captures => ring[k % Capacity].seq = 1
    BY <1>1, <1>4, <1>12 DEF Slots
  <2>1. k \in r..w - 1 /\ (Taken + 1) + (k - (r + 1)) + 1 = Taken + (k - r) + 1
    BY <1>12
  <2>2. /\ ring[k % Capacity] \in Event
        /\ ring[k % Capacity].seq = Taken + (k - r) + 1 + ring[k % Capacity].lost
        /\ ring[k % Capacity].of # captures => ring[k % Capacity].seq = 1
    BY <1>1, <1>6, <2>1 DEF Slots
  <2> QED
    BY <2>1, <2>2
<1>19. Counts(r, w)'
  <2>1. Taken + (w - r) = (Taken + 1) + (w - (r + 1))
    BY <1>12
  <2>2. nextSequence = (Taken + 1) + (w - (r + 1)) + dropped + One(Numbered)
    BY <1>8, <2>1
  <2>3. rec'.state # "idle"
    BY <1>2, <1>4, <1>10 DEF CaptureStates
  <2> QED
    BY <1>4, <1>7, <1>10, <1>12, <2>2, <2>3 DEF Counts, Settled
<1> QED
  BY <1>13, <1>14, <1>15, <1>16, <1>17, <1>18, <1>19 DEF TraceInv

LEMMA TraceNextInv == TraceInv /\ [TraceNext]_traceVars => TraceInv'
<1> SUFFICES ASSUME TraceInv, [TraceNext]_traceVars PROVE TraceInv'
  OBVIOUS
<1>1. CASE Producer
  BY <1>1, OfferStep, EnterStep, CheckActiveStep, TakeSequenceStep, LookStep, DropStep, StoreEventStep,
     PublishStep, LeaveStep DEF Producer
<1>2. CASE Copy
  <2>1. TraceTypeOK /\ Used \in Nat /\ MaxRecords \in Nat
    BY TraceNumbers DEF TraceInv
  <2>2. (~Discarding /\ Used < MaxRecords) \/ (Discarding \/ Used >= MaxRecords)
    BY <2>1
  <2> QED
    BY <1>2, <2>2, CopyTakesStep, CopyDropsStep
<1>3. CASE Recorder /\ ~Copy
  BY <1>3, StartCaptureStep, StartIdleStep, StartResetStep, StartOpenStep, RequestStopStep, AnnotateStep,
     BeginTickStep, PopStep, AdvanceStep, AccountStep, StopFullStep, CheckPendingStep, CheckIdleStep
     DEF Recorder
<1>4. CASE UNCHANGED traceVars
  <2>1. /\ UNCHANGED <<ring, write, read, nextSequence, dropped, active, inflight>>
        /\ UNCHANGED <<push, rec, capture, frames, captures>>
    BY <1>4 DEF traceVars, queueVars
  <2>2. PICK r \in Nat, w \in Nat : Indices(r, w) /\ Slots(r, w) /\ Counts(r, w)
    BY DEF TraceInv
  <2>3. Settled(r, w)'
    BY <2>1, <2>2, SettledKept DEF Counts, Dropping, Pushing, Numbered
  <2>6. Indices(r, w)' /\ Slots(r, w)' /\ Counts(r, w)'
    BY <2>1, <2>2, <2>3 DEF Indices, Slots, Counts, NextRead, Taken, Numbered
  <2>4. TraceTypeOK' /\ CaptureStates' /\ Shares'
    BY <2>1 DEF TraceInv, TraceTypeOK, CaptureStates, Shares, Pending, Used, Pushing, Numbered, Unnumbered
  <2>5. EventInHand' /\ OldIsFirst' /\ GapsAreDrops'
    BY <2>1 DEF TraceInv, EventInHand, OldIsFirst, GapsAreDrops, Numbered, Unnumbered
  <2> QED
    BY <2>4, <2>5, <2>6 DEF TraceInv
<1> QED
  BY <1>1, <1>2, <1>3, <1>4 DEF TraceNext

LEMMA TraceInvImplies == TraceInv => TraceTypeOK /\ TraceAccounted
<1> SUFFICES ASSUME TraceInv PROVE TraceTypeOK /\ TraceAccounted
  OBVIOUS
<1>1. PICK r \in Nat, w \in Nat : Indices(r, w) /\ Slots(r, w) /\ Counts(r, w)
  BY DEF TraceInv
<1>2. TraceTypeOK /\ CaptureStates /\ Shares /\ EventInHand /\ OldIsFirst /\ GapsAreDrops
  BY DEF TraceInv
<1>3. ASSUME rec.state = "idle", rec.at = "none"
      PROVE  /\ nextSequence = Len(capture) + dropped + rec.recordDrops + Pending
             /\ dropped - rec.queueDrops \in {0, 1} /\ Pending \in {0, 1}
             /\ dropped > rec.queueDrops /\ Pending > 0 => Used = MaxRecords /\ rec.recordDrops = 0
  <2>1. One(Numbered) = 0 /\ NextRead(r) = r
    BY <1>2, <1>3 DEF CaptureStates, Pushing, One, NextRead
  <2>2. Pending = w - r /\ r <= w
    BY <1>1, IndexFacts DEF Indices
  <2>3. PICK p \in Nat : p = w - r
    BY <2>2
  <2>4. PICK l \in Nat : l = Late /\ l = dropped - rec.queueDrops /\ (dropped > rec.queueDrops <=> l > 0)
    <3>1. PICK d \in Nat : d = dropped
      BY <1>2, TraceNumbers
    <3>2. PICK q \in Nat : q = rec.queueDrops
      BY <1>2, TraceNumbers
    <3>3. q <= d
      BY <1>2, <3>1, <3>2 DEF Shares
    <3>4. d - q \in Nat /\ (d > q <=> d - q > 0)
      BY <3>3
    <3> QED
      BY <3>1, <3>2, <3>4 DEF Late
  <2>5. nextSequence = Len(capture) + dropped + rec.recordDrops + p
    <3>1. PICK c \in Nat : c = Len(capture)
      BY <1>2, TraceNumbers
    <3>2. PICK q \in Nat : q = rec.recordDrops
      BY <1>2, TraceNumbers
    <3>3. PICK d \in Nat : d = dropped
      BY <1>2, TraceNumbers
    <3>4. nextSequence = (c + q) + p + d + 0
      BY <1>1, <2>1, <2>3, <3>1, <3>2, <3>3 DEF Counts, Taken
    <3>5. nextSequence = c + d + q + p
      BY <3>4
    <3> QED
      BY <3>1, <3>2, <3>3, <3>5
  <2>6. l <= 1 /\ p <= 1 /\ (~StoppedFull => l + p <= 1)
    BY <1>1, <1>3, <2>3, <2>4 DEF Counts, Settled
  <2>7. l > 0 /\ p > 0 => StoppedFull
    BY <2>6
  <2>8. l \in {0, 1} /\ p \in {0, 1}
    BY <2>6
  <2> QED
    BY <2>2, <2>3, <2>4, <2>5, <2>7, <2>8 DEF StoppedFull
<1>4. ASSUME NEW i \in DOMAIN capture, capture[i].of # captures PROVE i = 1
  <2>1. capture[i] \in Event /\ i \in Nat \ {0}
    BY <1>2 DEF TraceTypeOK
  <2>2. capture[i].seq = 1 /\ capture[i].seq = i + capture[i].lost
    BY <1>2, <1>4 DEF OldIsFirst, GapsAreDrops
  <2>3. capture[i].lost \in Nat
    BY <2>1 DEF Event
  <2> QED
    BY <2>1, <2>2, <2>3
<1> QED
  BY <1>2, <1>3, <1>4 DEF TraceAccounted, Accounted

\* The number of a recorded event is its place and the drops before it; and when a
\* capture has ended every number handed out is a record, a drop or an event left in
\* the queue. The recorder counts all the drops but at most one, at most one event is
\* left, and both happen only in a capture that stopped itself, full.
THEOREM EveryTraceEventIsAccounted == TraceSpec => [](TraceTypeOK /\ TraceAccounted)
  BY TraceInitInv, TraceNextInv, TraceInvImplies, PTL DEF TraceSpec

-----------------------------------------------------------------------------
(* The frame cache. Probing finds an identity at the same slot every time, since *)
(* no slot on its path is ever freed; the lock keeps a walk of the table in one  *)
(* moment, and the ring is the end of what was stored.                           *)

EntryRecord ==
    [id: Identity \union {"none"}, data: Frame, input: Frame, mutated: BOOLEAN, physical: Frame]
StoringRecord ==
    [at: {"idle", "find", "latest", "physical", "recent"}, event: Cached, synthetic: BOOLEAN, slot: Slot]
CopyingRecord ==
    [at: {"idle", "snapshot", "mutated", "read", "physical", "recent", "return"},
     what: {"none", "snapshot", "mutated", "read", "physical", "recent"},
     id: Identity \union {"none"}, probe: Nat, out: Seq(Cached)]
StoredRecord == [event: Cached, synthetic: BOOLEAN]

FramesTyped ==
    /\ entries \in [Slot -> EntryRecord]
    /\ evictionCursor \in Slot
    /\ recent \in [0..RecentCapacity - 1 -> Cached]
    /\ recentHead \in 0..RecentCapacity - 1 /\ recentCount \in 0..RecentCapacity
    /\ cacheOwner \in CacheReader \union {"none", "ss_can"}
    /\ offered \in 0..MaxSamplesCached
    /\ storing \in StoringRecord
    /\ copying \in [CacheReader -> CopyingRecord]
    /\ stored \in Seq(StoredRecord)

\* Who has the lock is at work, and nobody else.
Owns ==
    /\ cacheOwner = "ss_can" <=> storing.at # "idle"
    /\ \A r \in CacheReader : cacheOwner = r <=> copying[r].at # "idle"

\* An entry is found by its probing: no slot on the way to it is free. An
\* identity has one.
OnPath(en, s) ==
    \E n \in Slot : /\ Probed(en[s].id, n) = s
                    /\ \A q \in 0..n - 1 : en[Probed(en[s].id, q)].id # "none"
OneEach(en) ==
    /\ \A s \in Slot : en[s].id # "none" => OnPath(en, s)
    /\ \A s, t \in Slot : en[s].id # "none" /\ en[s].id = en[t].id => s = t

\* Place n of the updates `st' is the last of an identity.
LastUpdate(st, id, physicalOnly, n) ==
    /\ n \in DOMAIN st /\ st[n].event.id = id /\ (physicalOnly => ~st[n].synthetic)
    /\ \A m \in DOMAIN st : st[m].event.id = id /\ (physicalOnly => ~st[m].synthetic) => m <= n
HasLast(st, e) == \E n \in DOMAIN st : LastUpdate(st, e.id, FALSE, n) /\ e = st[n].event
HasLastInput(st, id, f) ==
    \E n \in DOMAIN st : LastUpdate(st, id, TRUE, n) /\ f = st[n].event.input

\* What an entry holds, but where the update is about to count.
PhysicalAgrees(e, st) == e.physical = NoFrame \/ HasLastInput(st, e.id, e.physical)
AtRest(e, st) == HasLast(st, EntryEvent(e)) /\ PhysicalAgrees(e, st)
InUpdate(sg) == sg.at \in {"latest", "physical", "recent"}
Updated(e, sg, st) ==
    /\ e.id = sg.event.id
    /\ sg.at \in {"physical", "recent"} => EntryEvent(e) = sg.event
    /\ IF sg.at = "recent" /\ ~sg.synthetic
       THEN e.physical = sg.event.input
       ELSE PhysicalAgrees(e, st)
TableInv(en, sg, st) ==
    /\ OneEach(en)
    /\ sg.at # "idle" => sg.event.id \in Identity
    /\ InUpdate(sg) => Updated(en[sg.slot], sg, st)
    /\ \A s \in Slot : en[s].id # "none" /\ ~(InUpdate(sg) /\ s = sg.slot) => AtRest(en[s], st)

\* The ring of recent frames is the end of what was stored.
RingInv(kept, head, count, st) ==
    /\ count = (IF Len(st) < RecentCapacity THEN Len(st) ELSE RecentCapacity)
    /\ head = Len(st) % RecentCapacity
    /\ \A i \in 1..Len(st) :
         Len(st) - i < RecentCapacity => kept[(i - 1) % RecentCapacity] = st[i].event

\* What a reader has copied so far.
FromTable(out, en, slots) ==
    /\ \A i \in 1..Len(out) : \E s \in slots : en[s].id # "none" /\ out[i] = EntryEvent(en[s])
    /\ \A i, j \in 1..Len(out) : i # j => out[i].id # out[j].id
FromRing(out, st) == \A i \in 1..Len(out) : out[i] = st[Len(st) + 1 - i].event
FromPhysical(out, id, st) == \A i \in 1..Len(out) : HasLastInput(st, id, out[i].data)
CopyInv(c, en, count, st) ==
    /\ c.at \notin {"idle", "return"} => c.what = c.at
    /\ c.at \in {"read", "physical"} => c.id \in Identity /\ c.probe \in Slot /\ c.out = <<>>
    /\ c.at \in {"snapshot", "mutated"} => c.probe \in Slot /\ FromTable(c.out, en, 0..c.probe - 1)
    /\ c.at = "recent" => /\ c.probe < count \/ c.probe = 0
                          /\ Len(c.out) = c.probe /\ FromRing(c.out, st)
    /\ c.at = "return" =>
         /\ c.what \in {"snapshot", "mutated", "read", "recent", "physical"}
         /\ c.what \in {"snapshot", "mutated", "read"} => FromTable(c.out, en, Slot)
         /\ c.what = "recent" => Len(c.out) = count /\ FromRing(c.out, st)
         /\ c.what = "physical" => FromPhysical(c.out, c.id, st)

FrameInv ==
    /\ FramesTyped /\ Owns
    /\ TableInv(entries, storing, stored)
    /\ RingInv(recent, recentHead, recentCount, stored)
    /\ \A r \in CacheReader : CopyInv(copying[r], entries, recentCount, stored)
-----------------------------------------------------------------------------
\* The bounds, the slots and the empty records.
LEMMA FrameFacts ==
    /\ MaxEntries \in Nat \ {0} /\ RecentCapacity \in Nat \ {0} /\ MaxSamplesCached \in Nat
    /\ Slot = 0..MaxEntries - 1 /\ 0 \in Slot
    /\ "none" \notin Identity /\ "none" \notin CacheReader /\ "ss_can" \notin CacheReader
  BY FrameCacheAssumption DEF Slot

LEMMA EmptyRecords ==
    /\ NoFrame \in Frame /\ Unused \in EntryRecord /\ NoEntryEvent \in Cached
    /\ NotStoring \in StoringRecord /\ NotCopying \in CopyingRecord
<1>1. NoFrame \in Frame
  BY FrameFacts DEF NoFrame, Frame
<1>2. Unused \in EntryRecord /\ NoEntryEvent \in Cached
  BY <1>1 DEF Unused, EntryRecord, NoEntryEvent, Cached
<1>3. NotStoring \in StoringRecord
  BY <1>2, FrameFacts DEF NotStoring, StoringRecord
<1>4. <<>> \in Seq(Cached)
  BY EmptySeq
<1>5. NotCopying \in CopyingRecord
  BY <1>4 DEF NotCopying, CopyingRecord
<1> QED
  BY <1>1, <1>2, <1>3, <1>5

LEMMA EventOfEntry ==
    ASSUME NEW e \in EntryRecord
    PROVE  EntryEvent(e) \in Cached /\ EntryEvent(e).id = e.id /\ e.physical \in Frame
  BY DEF EntryRecord, EntryEvent, Cached

LEMMA ProbedSlot == \A id \in Identity : \A n \in Nat : Probed(id, n) \in Slot
<1> SUFFICES ASSUME NEW id \in Identity, NEW n \in Nat PROVE Probed(id, n) \in Slot
  OBVIOUS
<1>1. PICK h \in Nat : h = Home(id)
  BY FrameCacheAssumption
<1>2. h + n \in Nat /\ (h + n) % MaxEntries \in 0..MaxEntries - 1
  BY FrameFacts, GoesRound
<1> QED
  BY <1>1, <1>2, FrameFacts DEF Probed

\* Two probes of an identity go to two slots, and some probe goes to each slot.
LEMMA ProbesApart ==
    ASSUME NEW id \in Identity, NEW n \in Slot, NEW q \in 0..n - 1
    PROVE  Probed(id, q) # Probed(id, n)
<1>1. PICK h \in Nat : h = Home(id)
  BY FrameCacheAssumption
<1>2. h + q \in Nat /\ h + n \in Nat /\ h + q < h + n /\ (h + n) - (h + q) < MaxEntries
  BY FrameFacts
<1>3. (h + q) % MaxEntries # (h + n) % MaxEntries
  BY <1>2, FrameFacts, SlotsApart
<1> QED
  BY <1>1, <1>3 DEF Probed

LEMMA ProbesReach == \A id \in Identity : \A s \in Slot : \E n \in Slot : Probed(id, n) = s
<1> SUFFICES ASSUME NEW id \in Identity, NEW s \in Slot PROVE \E n \in Slot : Probed(id, n) = s
  OBVIOUS
<1>1. PICK h \in 0..MaxEntries - 1 : h = Home(id)
  BY FrameCacheAssumption
<1>2. s \in 0..MaxEntries - 1
  BY FrameFacts
<1>3. \E n \in 0..MaxEntries - 1 : (h + n) % MaxEntries = s
  BY <1>2, FrameFacts, ProbesReachAll
<1> QED
  BY <1>1, <1>3, FrameFacts DEF Probed
-----------------------------------------------------------------------------
\* An update of another identity leaves the last of an identity where it was,
\* and its own becomes the last.
LEMMA LastStays ==
    ASSUME NEW st \in Seq(StoredRecord), NEW u \in StoredRecord, NEW id, NEW p \in BOOLEAN,
           NEW n \in DOMAIN st, LastUpdate(st, id, p, n), u.event.id # id \/ (p /\ u.synthetic)
    PROVE  n \in DOMAIN Append(st, u) /\ Append(st, u)[n] = st[n] /\ LastUpdate(Append(st, u), id, p, n)
<1>1. DOMAIN st = 1..Len(st) /\ Len(st) \in Nat
  OBVIOUS
<1>2. /\ DOMAIN Append(st, u) = 1..Len(st) + 1
      /\ \A i \in 1..Len(st) : Append(st, u)[i] = st[i]
      /\ Append(st, u)[Len(st) + 1] = u
  BY AppendProperties
<1>3. \A m \in DOMAIN Append(st, u) :
        Append(st, u)[m].event.id = id /\ (p => ~Append(st, u)[m].synthetic) => m \in 1..Len(st)
  BY <1>1, <1>2
<1> QED
  BY <1>1, <1>2, <1>3, SMTT(30) DEF LastUpdate

LEMMA LastIsNew ==
    ASSUME NEW st \in Seq(StoredRecord), NEW u \in StoredRecord, NEW p \in BOOLEAN, p => ~u.synthetic
    PROVE  /\ Len(st) + 1 \in DOMAIN Append(st, u) /\ Append(st, u)[Len(st) + 1] = u
           /\ LastUpdate(Append(st, u), u.event.id, p, Len(st) + 1)
<1>1. /\ DOMAIN Append(st, u) = 1..Len(st) + 1 /\ Len(st) \in Nat
      /\ Append(st, u)[Len(st) + 1] = u
  BY AppendProperties
<1> QED
  BY <1>1 DEF LastUpdate

LEMMA RestStays ==
    ASSUME NEW st \in Seq(StoredRecord), NEW u \in StoredRecord, NEW e \in EntryRecord,
           u.event.id # e.id
    PROVE  /\ AtRest(e, st) => AtRest(e, Append(st, u))
           /\ PhysicalAgrees(e, st) => PhysicalAgrees(e, Append(st, u))
<1>1. ASSUME PhysicalAgrees(e, st), e.physical # NoFrame PROVE PhysicalAgrees(e, Append(st, u))
  <2>1. PICK n \in DOMAIN st : LastUpdate(st, e.id, TRUE, n) /\ e.physical = st[n].event.input
    BY <1>1 DEF PhysicalAgrees, HasLastInput
  <2>2. n \in DOMAIN Append(st, u) /\ Append(st, u)[n] = st[n] /\ LastUpdate(Append(st, u), e.id, TRUE, n)
    BY <2>1, LastStays
  <2> QED
    BY <2>1, <2>2 DEF PhysicalAgrees, HasLastInput
<1>2. PhysicalAgrees(e, st) => PhysicalAgrees(e, Append(st, u))
  BY <1>1 DEF PhysicalAgrees
<1>3. ASSUME HasLast(st, EntryEvent(e)) PROVE HasLast(Append(st, u), EntryEvent(e))
  <2>1. PICK n \in DOMAIN st : LastUpdate(st, e.id, FALSE, n) /\ EntryEvent(e) = st[n].event
    BY <1>3, EventOfEntry DEF HasLast
  <2>2. n \in DOMAIN Append(st, u) /\ Append(st, u)[n] = st[n] /\ LastUpdate(Append(st, u), e.id, FALSE, n)
    BY <2>1, LastStays
  <2> QED
    BY <2>1, <2>2, EventOfEntry DEF HasLast
<1> QED
  BY <1>2, <1>3 DEF AtRest
-----------------------------------------------------------------------------
LEMMA IdleCopies ==
    ASSUME NEW c, c.at = "idle", NEW en, NEW count, NEW st
    PROVE  CopyInv(c, en, count, st)
  BY DEF CopyInv

LEMMA UpdateAlone ==
    ASSUME FrameInv, storing.at # "idle"
    PROVE  cacheOwner = "ss_can" /\ \A r \in CacheReader : copying[r].at = "idle"
  BY FrameFacts DEF FrameInv, Owns

\* While the update has the lock the readers stay idle.
LEMMA UpdateKeepsCopies ==
    ASSUME FrameInv, storing.at # "idle", copying' = copying
    PROVE  \A r \in CacheReader : CopyInv(copying'[r], entries', recentCount', stored')
<1>1. \A r \in CacheReader : copying'[r].at = "idle"
  BY UpdateAlone
<1> QED
  BY <1>1, IdleCopies

LEMMA UpdateOwns ==
    ASSUME FrameInv, storing.at # "idle", copying' = copying
    PROVE  /\ cacheOwner' = "ss_can" /\ storing'.at # "idle" => Owns'
           /\ cacheOwner' = "none" /\ storing'.at = "idle" => Owns'
<1>1. \A r \in CacheReader : copying'[r].at = "idle"
  BY UpdateAlone
<1> QED
  BY <1>1, FrameFacts DEF Owns

LEMMA FrameInitInv == FrameCacheInit => FrameInv
<1> SUFFICES ASSUME FrameCacheInit PROVE FrameInv
  OBVIOUS
<1> USE DEF FrameCacheInit
<1>1. /\ \A s \in Slot : entries[s] = Unused
      /\ \A r \in CacheReader : copying[r] = NotCopying
      /\ stored = <<>> /\ Len(stored) = 0 /\ storing = NotStoring
  OBVIOUS
<1>2. /\ \A s \in Slot : entries[s].id = "none"
      /\ \A r \in CacheReader : copying[r].at = "idle"
      /\ storing.at = "idle"
  BY <1>1 DEF Unused, NotCopying, NotStoring
<1>3. FramesTyped
  <2>1. stored \in Seq(StoredRecord)
    BY EmptySeq
  <2>2. entries \in [Slot -> EntryRecord] /\ copying \in [CacheReader -> CopyingRecord]
    BY EmptyRecords
  <2>3. recent \in [0..RecentCapacity - 1 -> Cached]
    BY EmptyRecords
  <2>4. recentHead \in 0..RecentCapacity - 1 /\ recentCount \in 0..RecentCapacity /\ evictionCursor \in Slot
    BY FrameFacts
  <2>5. offered \in 0..MaxSamplesCached
    BY FrameFacts
  <2> QED
    BY <2>1, <2>2, <2>3, <2>4, <2>5, EmptyRecords DEF FramesTyped
<1>4. Owns
  BY <1>2, FrameFacts DEF Owns
<1>5. TableInv(entries, storing, stored)
  BY <1>2 DEF TableInv, OneEach, InUpdate
<1>6. RingInv(recent, recentHead, recentCount, stored)
  <2>1. 0 % RecentCapacity = 0
    BY FrameFacts, SmallRemainder
  <2> QED
    BY <1>1, <2>1, FrameFacts DEF RingInv
<1>7. \A r \in CacheReader : CopyInv(copying[r], entries, recentCount, stored)
  BY <1>2, IdleCopies
<1> QED
  BY <1>3, <1>4, <1>5, <1>6, <1>7 DEF FrameInv

\* A new update reaches no entry yet.
LEMMA TableStarts ==
    ASSUME NEW en, NEW sg, NEW sh, NEW st, TableInv(en, sg, st), sg.at = "idle",
           sh.at = "find", sh.event.id \in Identity
    PROVE  TableInv(en, sh, st)
  BY DEF TableInv, InUpdate

LEMMA OfferFrameStep ==
    FrameInv /\ (\E id \in Identity, mutated, synthetic \in BOOLEAN : OfferFrame(id, mutated, synthetic))
        => FrameInv'
<1> SUFFICES ASSUME FrameInv, NEW id \in Identity, NEW mutated \in BOOLEAN, NEW synthetic \in BOOLEAN,
                    OfferFrame(id, mutated, synthetic)
             PROVE  FrameInv'
  OBVIOUS
<1>1. /\ storing.at = "idle" /\ offered < MaxSamplesCached /\ offered' = offered + 1
      /\ UNCHANGED <<entries, evictionCursor, recent, recentHead, recentCount, copying, stored>>
  BY DEF OfferFrame
<1>2. FramesTyped
  BY DEF FrameInv
<1>3. offered \in Nat /\ offered + 1 \in 0..MaxSamplesCached
  BY <1>1, <1>2, FrameFacts DEF FramesTyped
<1>4. /\ RingInv(recent', recentHead', recentCount', stored')
      /\ \A r \in CacheReader : CopyInv(copying'[r], entries', recentCount', stored')
  BY <1>1 DEF FrameInv
<1>5. CASE cacheOwner = "none"
  <2> DEFINE f == Received(offered + 1)
             ev == [id |-> id, input |-> f, mutated |-> mutated, data |-> [f EXCEPT !.changed = mutated]]
  <2>1. /\ cacheOwner' = "ss_can"
        /\ storing' = [at |-> "find", synthetic |-> synthetic, slot |-> 0, event |-> ev]
    BY <1>5 DEF OfferFrame
  <2>2. f \in Frame /\ [f EXCEPT !.changed = mutated] \in Frame
    BY <1>3 DEF Received, Frame
  <2> HIDE DEF f
  <2>3. ev \in Cached /\ ev.id = id
    BY <2>2 DEF Cached
  <2> HIDE DEF ev
  <2>4. storing' \in StoringRecord
    BY <2>1, <2>3, FrameFacts DEF StoringRecord
  <2>5. FramesTyped'
    BY <1>1, <1>2, <1>3, <2>1, <2>4 DEF FramesTyped
  <2>6. Owns'
    <3>1. \A r \in CacheReader : copying[r].at = "idle"
      BY <1>5, FrameFacts DEF FrameInv, Owns
    <3> QED
      BY <1>1, <2>1, <3>1, FrameFacts DEF Owns
  <2>7. TableInv(entries, storing, stored) /\ storing'.at = "find" /\ storing'.event.id \in Identity
    BY <2>1, <2>3 DEF FrameInv
  <2>8. TableInv(entries', storing', stored')
    BY <1>1, <2>7, TableStarts
  <2> QED
    BY <1>4, <2>5, <2>6, <2>8 DEF FrameInv
<1>6. CASE cacheOwner # "none"
  <2>1. cacheOwner' = cacheOwner /\ storing' = storing
    BY <1>6 DEF OfferFrame
  <2>2. FramesTyped'
    BY <1>1, <1>2, <1>3, <2>1 DEF FramesTyped
  <2>3. Owns'
    BY <1>1, <2>1 DEF FrameInv, Owns
  <2>4. TableInv(entries', storing', stored')
    BY <1>1, <2>1 DEF FrameInv
  <2> QED
    BY <1>4, <2>2, <2>3, <2>4 DEF FrameInv
<1> QED
  BY <1>5, <1>6
-----------------------------------------------------------------------------
(* What probing finds: the entry of the identity, or the first free slot, or a *)
(* full table.                                                                 *)
LEMMA FirstSuitingFacts ==
    ASSUME NEW id \in Identity, NEW s \in FirstSuiting(id)
    PROVE  \E n \in Slot : /\ Probed(id, n) = s /\ s \in Slot /\ Suits(id, n)
                           /\ \A q \in 0..n - 1 : ~Suits(id, q)
<1>1. PICK n \in Slot : /\ s = Probed(id, n) /\ Suits(id, n)
                        /\ \A q \in 0..n - 1 : ~Suits(id, q)
  BY DEF FirstSuiting
<1>2. n \in Nat
  BY FrameFacts
<1>3. s \in Slot
  BY <1>1, <1>2, ProbedSlot
<1> QED
  BY <1>1, <1>3

LEMMA OneFirstSuiting ==
    ASSUME NEW id \in Identity, NEW s \in FirstSuiting(id), NEW t \in FirstSuiting(id)
    PROVE  s = t
<1>1. PICK n \in Slot : /\ Probed(id, n) = s /\ Suits(id, n) /\ \A q \in 0..n - 1 : ~Suits(id, q)
  BY FirstSuitingFacts
<1>2. PICK m \in Slot : /\ Probed(id, m) = t /\ Suits(id, m) /\ \A q \in 0..m - 1 : ~Suits(id, q)
  BY FirstSuitingFacts
<1>3. n \in Nat /\ m \in Nat
  BY FrameFacts
<1>4. ~(n < m) /\ ~(m < n)
  BY <1>1, <1>2, <1>3
<1>5. n = m
  BY <1>3, <1>4
<1> QED
  BY <1>1, <1>2, <1>5

LEMMA EntryIsFound ==
    ASSUME FramesTyped, OneEach(entries), NEW id \in Identity, NEW t \in Slot, entries[t].id = id
    PROVE  t \in FirstSuiting(id)
<1>1. entries[t].id # "none"
  BY FrameFacts
<1>2. PICK n \in Slot : Probed(id, n) = t /\ \A q \in 0..n - 1 : entries[Probed(id, q)].id # "none"
  BY <1>1 DEF OneEach, OnPath
<1>3. ASSUME NEW q \in 0..n - 1 PROVE ~Suits(id, q)
  <2>1. Probed(id, q) # t
    BY <1>2, ProbesApart
  <2>2. q \in Nat
    BY FrameFacts
  <2>3. Probed(id, q) \in Slot
    BY <2>2, ProbedSlot
  <2>4. entries[Probed(id, q)].id # id
    BY <1>1, <2>1, <2>3 DEF OneEach
  <2> QED
    BY <1>2, <2>4 DEF Suits
<1>4. Suits(id, n)
  BY <1>2 DEF Suits
<1> QED
  BY <1>2, <1>3, <1>4 DEF FirstSuiting

LEMMA NoneSuitsWhenFull ==
    ASSUME FramesTyped, NEW id \in Identity, FirstSuiting(id) = {}, NEW s \in Slot
    PROVE  entries[s].id # "none"
<1> SUFFICES ASSUME entries[s].id = "none" PROVE FALSE
  OBVIOUS
<1> DEFINE S == {p \in Slot : Suits(id, p)}
<1>1. PICK n \in Slot : Probed(id, n) = s
  BY ProbesReach
<1>2. n \in S
  BY <1>1 DEF Suits
<1>3. S \in SUBSET Nat
  BY FrameFacts
<1>4. PICK m \in S : \A k \in 0..m - 1 : k \notin S
  BY <1>2, <1>3, LeastNumber
<1>5. ASSUME NEW q \in 0..m - 1 PROVE ~Suits(id, q)
  <2>1. q \in Slot
    BY FrameFacts
  <2> QED
    BY <1>4, <2>1
<1>6. Probed(id, m) \in FirstSuiting(id)
  BY <1>5 DEF FirstSuiting
<1> QED
  BY <1>6

\* An entry given to an identity that had none keeps every other on its path.
LEMMA OneEachCreates ==
    ASSUME NEW en \in [Slot -> EntryRecord], OneEach(en), NEW id \in Identity, NEW s \in Slot,
           \A t \in Slot : en[t].id # id,
           NEW n \in Slot, Probed(id, n) = s, \A q \in 0..n - 1 : en[Probed(id, q)].id # "none",
           NEW fresh \in EntryRecord, fresh.id = id
    PROVE  OneEach([en EXCEPT ![s] = fresh])
<1> DEFINE em == [en EXCEPT ![s] = fresh]
<1>1. /\ em[s].id = id /\ id # "none"
      /\ \A t \in Slot \ {s} : em[t] = en[t]
      /\ \A t \in Slot : en[t].id # "none" => em[t].id # "none"
  BY FrameFacts
<1>2. \A t, u \in Slot : em[t].id # "none" /\ em[t].id = em[u].id => t = u
  BY <1>1 DEF OneEach
<1>3. ASSUME NEW t \in Slot, em[t].id # "none" PROVE OnPath(em, t)
  <2>1. CASE t = s
    <3>1. ASSUME NEW q \in 0..n - 1 PROVE em[Probed(id, q)].id # "none"
      <4>1. q \in Nat
        BY FrameFacts
      <4>2. Probed(id, q) \in Slot
        BY <4>1, ProbedSlot
      <4> QED
        BY <1>1, <4>2
    <3> QED
      BY <1>1, <2>1, <3>1 DEF OnPath
  <2>2. CASE t # s
    <3>1. em[t].id = en[t].id /\ en[t].id \in Identity
      BY <1>1, <1>3, <2>2 DEF EntryRecord
    <3>2. PICK p \in Slot : /\ Probed(en[t].id, p) = t
                            /\ \A q \in 0..p - 1 : en[Probed(en[t].id, q)].id # "none"
      BY <1>3, <3>1 DEF OneEach, OnPath
    <3>3. ASSUME NEW q \in 0..p - 1 PROVE em[Probed(en[t].id, q)].id # "none"
      <4>1. q \in Nat
        BY FrameFacts
      <4>2. Probed(en[t].id, q) \in Slot
        BY <3>1, <4>1, ProbedSlot
      <4> QED
        BY <1>1, <3>2, <4>2
    <3> QED
      BY <3>1, <3>2, <3>3 DEF OnPath
  <2> QED
    BY <2>1, <2>2
<1> HIDE DEF em
<1>4. OneEach(em)
  BY <1>2, <1>3 DEF OneEach
<1> QED
  BY <1>4 DEF em

\* The slot the update goes on in, and the table it leaves.
LEMMA CreatedTable ==
    ASSUME NEW en, NEW em, NEW sg, NEW sh, NEW st,
           TableInv(en, sg, st), sg.at = "find", sh.at = "latest", sh.event = sg.event,
           OneEach(em), em[sh.slot].id = sh.event.id,
           em[sh.slot].physical = NoFrame \/ PhysicalAgrees(em[sh.slot], st),
           \A t \in Slot : t # sh.slot => em[t] = en[t]
    PROVE  TableInv(em, sh, st)
<1>1. sh.event.id \in Identity /\ ~InUpdate(sg)
  BY DEF TableInv, InUpdate
<1>2. Updated(em[sh.slot], sh, st)
  BY DEF Updated, PhysicalAgrees
<1>3. \A s \in Slot : em[s].id # "none" /\ ~(InUpdate(sh) /\ s = sh.slot) => AtRest(em[s], st)
  BY <1>1 DEF TableInv, InUpdate
<1> QED
  BY <1>1, <1>2, <1>3 DEF TableInv

LEMMA FindOrCreateStep == FrameInv /\ FindOrCreate => FrameInv'
<1> SUFFICES ASSUME FrameInv, FindOrCreate PROVE FrameInv'
  OBVIOUS
<1> DEFINE id == storing.event.id
           full == FirstSuiting(id) = {}
           slot == IF full THEN evictionCursor ELSE CHOOSE s \in FirstSuiting(id) : TRUE
           fresh == [Unused EXCEPT !.id = id]
<1>1. /\ storing.at = "find"
      /\ storing' = [storing EXCEPT !.at = "latest", !.slot = slot]
      /\ entries' = IF entries[slot].id = id THEN entries ELSE [entries EXCEPT ![slot] = fresh]
      /\ evictionCursor' = IF full THEN (evictionCursor + 1) % MaxEntries ELSE evictionCursor
      /\ UNCHANGED <<recent, recentHead, recentCount, cacheOwner, offered, copying, stored>>
  BY DEF FindOrCreate
<1>2. FramesTyped /\ TableInv(entries, storing, stored) /\ OneEach(entries)
  BY DEF FrameInv, TableInv
<1>3. id \in Identity /\ id # "none"
  BY <1>1, <1>2, FrameFacts DEF TableInv
<1>4. slot \in Slot /\ (~full => slot \in FirstSuiting(id))
  <2>1. CASE full
    BY <1>2, <2>1 DEF FramesTyped
  <2>2. CASE ~full
    <3>1. slot \in FirstSuiting(id)
      BY <2>2
    <3> QED
      BY <1>3, <2>2, <3>1, FirstSuitingFacts
  <2> QED
    BY <2>1, <2>2
<1>5. fresh \in EntryRecord /\ fresh.id = id /\ fresh.physical = NoFrame
  BY <1>3, EmptyRecords DEF Unused, EntryRecord
<1>6. storing' \in StoringRecord /\ storing'.at = "latest" /\ storing'.slot = slot
      /\ storing'.event = storing.event
  BY <1>1, <1>2, <1>4 DEF FramesTyped, StoringRecord
<1>7. evictionCursor' \in Slot
  <2>1. evictionCursor \in Slot
    BY <1>2 DEF FramesTyped
  <2>2. evictionCursor + 1 \in Nat
    BY <2>1, FrameFacts
  <2>3. (evictionCursor + 1) % MaxEntries \in Slot
    BY <2>2, FrameFacts, GoesRound
  <2> QED
    BY <1>1, <2>1, <2>3
<1>8. entries \in [Slot -> EntryRecord]
  BY <1>2 DEF FramesTyped
<1> HIDE DEF slot, full, fresh, id
<1>9. entries' \in [Slot -> EntryRecord]
  BY <1>1, <1>4, <1>5, <1>8
<1>10. FramesTyped'
  BY <1>1, <1>2, <1>6, <1>7, <1>9 DEF FramesTyped
<1>11. Owns'
  <2>1. cacheOwner' = "ss_can"
    BY <1>1, UpdateAlone
  <2> QED
    BY <1>1, <1>6, <2>1, UpdateOwns
<1>12. /\ OneEach(entries')
       /\ entries'[slot].id = id
       /\ entries'[slot].physical = NoFrame \/ PhysicalAgrees(entries'[slot], stored)
       /\ \A t \in Slot : t # slot => entries'[t] = entries[t]
  <2>1. CASE entries[slot].id = id
    <3>1. entries' = entries
      BY <1>1, <2>1
    <3>2. AtRest(entries[slot], stored)
      BY <1>1, <1>2, <1>3, <1>4, <2>1 DEF TableInv, InUpdate
    <3> QED
      BY <1>2, <2>1, <3>1, <3>2 DEF AtRest
  <2>2. CASE entries[slot].id # id
    <3>1. entries' = [entries EXCEPT ![slot] = fresh]
      BY <1>1, <2>2
    <3>2. ASSUME NEW t \in Slot PROVE entries[t].id # id
      <4>1. SUFFICES ASSUME entries[t].id = id PROVE FALSE
        OBVIOUS
      <4>2. t \in FirstSuiting(id)
        BY <1>2, <1>3, <4>1, EntryIsFound
      <4>3. ~full
        BY <4>2 DEF full
      <4>4. t = slot
        BY <1>3, <1>4, <4>2, <4>3, OneFirstSuiting
      <4> QED
        BY <2>2, <4>1, <4>4
    <3>3. PICK n \in Slot : /\ Probed(id, n) = slot
                            /\ \A q \in 0..n - 1 : entries[Probed(id, q)].id # "none"
      <4>1. CASE full
        <5>1. PICK n \in Slot : Probed(id, n) = slot
          BY <1>3, <1>4, ProbesReach
        <5>2. ASSUME NEW q \in 0..n - 1 PROVE entries[Probed(id, q)].id # "none"
          <6>1. q \in Nat
            BY FrameFacts
          <6>2. Probed(id, q) \in Slot
            BY <1>3, <6>1, ProbedSlot
          <6>3. FirstSuiting(id) = {}
            BY <4>1 DEF full
          <6> QED
            BY <1>2, <1>3, <6>2, <6>3, NoneSuitsWhenFull
        <5> QED
          BY <5>1, <5>2
      <4>2. CASE ~full
        BY <1>3, <1>4, <4>2, FirstSuitingFacts DEF Suits
      <4> QED
        BY <4>1, <4>2
    <3>4. OneEach([entries EXCEPT ![slot] = fresh])
      BY <1>2, <1>3, <1>4, <1>5, <1>8, <3>2, <3>3, OneEachCreates
    <3>5. entries'[slot] = fresh
      BY <1>4, <1>8, <3>1
    <3>6. \A t \in Slot : t # slot => entries'[t] = entries[t]
      BY <1>8, <3>1
    <3> QED
      BY <1>5, <3>1, <3>4, <3>5, <3>6
  <2> QED
    BY <2>1, <2>2
<1>13. storing'.event.id = id
  BY <1>6 DEF id
<1>14. TableInv(entries', storing', stored)
  <2>1. storing.at = "find" /\ storing'.at = "latest" /\ storing'.event = storing.event
    BY <1>1, <1>6
  <2>2. /\ entries'[storing'.slot].id = storing'.event.id
        /\ \/ entries'[storing'.slot].physical = NoFrame
           \/ PhysicalAgrees(entries'[storing'.slot], stored)
        /\ \A t \in Slot : t # storing'.slot => entries'[t] = entries[t]
    BY <1>6, <1>12, <1>13
  <2> QED
    BY <1>2, <1>12, <2>1, <2>2, CreatedTable
<1>15. RingInv(recent', recentHead', recentCount', stored')
  BY <1>1 DEF FrameInv
<1>16. \A r \in CacheReader : CopyInv(copying'[r], entries', recentCount', stored')
  BY <1>1, UpdateKeepsCopies
<1> QED
  BY <1>1, <1>10, <1>11, <1>14, <1>15, <1>16 DEF FrameInv
-----------------------------------------------------------------------------
\* A change of the entry under update, which keeps its identity.
LEMMA OneEachUpdates ==
    ASSUME NEW en \in [Slot -> EntryRecord], OneEach(en), NEW s \in Slot,
           NEW e \in EntryRecord, e.id = en[s].id
    PROVE  OneEach([en EXCEPT ![s] = e])
<1> DEFINE em == [en EXCEPT ![s] = e]
<1>1. \A t \in Slot : em[t].id = en[t].id
  OBVIOUS
<1> HIDE DEF em
<1>2. \A t, u \in Slot : em[t].id # "none" /\ em[t].id = em[u].id => t = u
  BY <1>1 DEF OneEach
<1>3. ASSUME NEW t \in Slot, em[t].id # "none" PROVE OnPath(em, t)
  <2>1. em[t].id = en[t].id /\ en[t].id \in Identity
    BY <1>1, <1>3 DEF EntryRecord
  <2>2. PICK p \in Slot : /\ Probed(en[t].id, p) = t
                          /\ \A q \in 0..p - 1 : en[Probed(en[t].id, q)].id # "none"
    BY <1>3, <2>1 DEF OneEach, OnPath
  <2>3. ASSUME NEW q \in 0..p - 1 PROVE em[Probed(en[t].id, q)].id # "none"
    <3>1. q \in Nat
      BY FrameFacts
    <3>2. Probed(en[t].id, q) \in Slot
      BY <2>1, <3>1, ProbedSlot
    <3> QED
      BY <1>1, <2>2, <3>2
  <2> QED
    BY <2>1, <2>2, <2>3 DEF OnPath
<1>4. OneEach(em)
  BY <1>2, <1>3 DEF OneEach
<1> QED
  BY <1>4 DEF em

LEMMA UpdatedTable ==
    ASSUME NEW en, NEW em, NEW sg, NEW sh, NEW st,
           TableInv(en, sg, st), InUpdate(sg), InUpdate(sh), sh.slot = sg.slot, sh.event = sg.event,
           OneEach(em), Updated(em[sg.slot], sh, st),
           \A t \in Slot : t # sg.slot => em[t] = en[t]
    PROVE  TableInv(em, sh, st)
<1>1. sh.event.id \in Identity
  BY DEF TableInv, InUpdate
<1>2. \A s \in Slot : em[s].id # "none" /\ ~(InUpdate(sh) /\ s = sh.slot) => AtRest(em[s], st)
  BY DEF TableInv
<1> QED
  BY <1>1, <1>2 DEF TableInv

LEMMA StoreLatestStep == FrameInv /\ StoreLatest => FrameInv'
<1> SUFFICES ASSUME FrameInv, StoreLatest PROVE FrameInv'
  OBVIOUS
<1> DEFINE s == storing.slot
           ev == storing.event
           e == [entries[s] EXCEPT !.data = ev.data, !.input = ev.input, !.mutated = ev.mutated]
<1>1. /\ storing.at = "latest"
      /\ entries' = [entries EXCEPT ![s] = e]
      /\ storing' = [storing EXCEPT !.at = "physical"]
      /\ UNCHANGED <<evictionCursor, recent, recentHead, recentCount, cacheOwner, offered, copying, stored>>
  BY DEF StoreLatest
<1>2. FramesTyped /\ TableInv(entries, storing, stored) /\ OneEach(entries) /\ InUpdate(storing)
  BY <1>1 DEF FrameInv, TableInv, InUpdate
<1>3. /\ entries \in [Slot -> EntryRecord] /\ s \in Slot /\ ev \in Cached /\ storing \in StoringRecord
      /\ entries[s] \in EntryRecord
  BY <1>2 DEF FramesTyped, StoringRecord
<1>4. /\ storing' \in StoringRecord /\ storing'.at = "physical" /\ storing'.slot = s
      /\ storing'.event = ev
  BY <1>1, <1>3 DEF StoringRecord
<1>5. /\ e \in EntryRecord /\ e.id = entries[s].id /\ e.physical = entries[s].physical
      /\ e.data = ev.data /\ e.input = ev.input /\ e.mutated = ev.mutated
  BY <1>3 DEF EntryRecord, Cached
<1>6. Updated(entries[s], storing, stored)
  BY <1>2 DEF TableInv
<1> HIDE DEF e
<1>7. Updated(e, storing', stored)
  <2>1. e.id = ev.id /\ PhysicalAgrees(entries[s], stored)
    BY <1>1, <1>5, <1>6 DEF Updated
  <2>2. EntryEvent(e) = ev
    BY <1>3, <1>5, <2>1 DEF EntryEvent, Cached
  <2>3. PhysicalAgrees(e, stored)
    BY <1>5, <2>1 DEF PhysicalAgrees
  <2> QED
    BY <1>4, <2>1, <2>2, <2>3 DEF Updated
<1>8. entries' \in [Slot -> EntryRecord] /\ entries'[s] = e
      /\ \A t \in Slot : t # s => entries'[t] = entries[t]
  BY <1>1, <1>3, <1>5
<1>9. OneEach(entries')
  BY <1>1, <1>2, <1>3, <1>5, OneEachUpdates
<1>10. FramesTyped'
  BY <1>1, <1>2, <1>4, <1>8 DEF FramesTyped
<1>11. Owns'
  <2>1. cacheOwner' = "ss_can"
    BY <1>1, UpdateAlone
  <2> QED
    BY <1>1, <1>4, <2>1, UpdateOwns
<1>12. TableInv(entries', storing', stored)
  <2>1. InUpdate(storing')
    BY <1>4 DEF InUpdate
  <2> QED
    BY <1>2, <1>4, <1>7, <1>8, <1>9, <2>1, UpdatedTable
<1>13. RingInv(recent', recentHead', recentCount', stored')
  BY <1>1 DEF FrameInv
<1>14. \A r \in CacheReader : CopyInv(copying'[r], entries', recentCount', stored')
  BY <1>1, UpdateKeepsCopies
<1> QED
  BY <1>1, <1>10, <1>11, <1>12, <1>13, <1>14 DEF FrameInv

LEMMA StorePhysicalStep == FrameInv /\ StorePhysical => FrameInv'
<1> SUFFICES ASSUME FrameInv, StorePhysical PROVE FrameInv'
  OBVIOUS
<1> DEFINE s == storing.slot
           ev == storing.event
           e == IF storing.synthetic THEN entries[s] ELSE [entries[s] EXCEPT !.physical = ev.input]
<1>1. /\ storing.at = "physical"
      /\ storing' = [storing EXCEPT !.at = "recent"]
      /\ UNCHANGED <<evictionCursor, recent, recentHead, recentCount, cacheOwner, offered, copying, stored>>
  BY DEF StorePhysical
<1>2. FramesTyped /\ TableInv(entries, storing, stored) /\ OneEach(entries) /\ InUpdate(storing)
  BY <1>1 DEF FrameInv, TableInv, InUpdate
<1>3. /\ entries \in [Slot -> EntryRecord] /\ s \in Slot /\ ev \in Cached /\ storing \in StoringRecord
      /\ entries[s] \in EntryRecord
  BY <1>2 DEF FramesTyped, StoringRecord
<1>4. entries' = [entries EXCEPT ![s] = e]
  BY <1>3 DEF StorePhysical
<1>5. /\ storing' \in StoringRecord /\ storing'.at = "recent" /\ storing'.slot = s
      /\ storing'.event = ev /\ storing'.synthetic = storing.synthetic
  BY <1>1, <1>3 DEF StoringRecord
<1>6. /\ e \in EntryRecord /\ e.id = entries[s].id /\ EntryEvent(e) = EntryEvent(entries[s])
      /\ e.physical = IF storing.synthetic THEN entries[s].physical ELSE ev.input
  BY <1>3 DEF EntryRecord, Cached, EntryEvent
<1>7. Updated(entries[s], storing, stored)
  BY <1>2 DEF TableInv
<1> HIDE DEF e
<1>8. Updated(e, storing', stored)
  <2>1. e.id = ev.id /\ PhysicalAgrees(entries[s], stored) /\ EntryEvent(e) = ev
    BY <1>1, <1>6, <1>7 DEF Updated
  <2>2. storing.synthetic => PhysicalAgrees(e, stored)
    BY <1>6, <2>1 DEF PhysicalAgrees
  <2> QED
    BY <1>5, <1>6, <2>1, <2>2 DEF Updated
<1>9. entries' \in [Slot -> EntryRecord] /\ entries'[s] = e
      /\ \A t \in Slot : t # s => entries'[t] = entries[t]
  BY <1>3, <1>4, <1>6
<1>10. OneEach(entries')
  BY <1>2, <1>3, <1>4, <1>6, OneEachUpdates
<1>11. FramesTyped'
  BY <1>1, <1>2, <1>5, <1>9 DEF FramesTyped
<1>12. Owns'
  <2>1. cacheOwner' = "ss_can"
    BY <1>1, UpdateAlone
  <2> QED
    BY <1>1, <1>5, <2>1, UpdateOwns
<1>13. TableInv(entries', storing', stored)
  <2>1. InUpdate(storing')
    BY <1>5 DEF InUpdate
  <2> QED
    BY <1>2, <1>5, <1>8, <1>9, <1>10, <2>1, UpdatedTable
<1>14. RingInv(recent', recentHead', recentCount', stored')
  BY <1>1 DEF FrameInv
<1>15. \A r \in CacheReader : CopyInv(copying'[r], entries', recentCount', stored')
  BY <1>1, UpdateKeepsCopies
<1> QED
  BY <1>1, <1>11, <1>12, <1>13, <1>14, <1>15 DEF FrameInv

LEMMA RingAppends ==
    ASSUME NEW st \in Seq(StoredRecord), NEW u \in StoredRecord,
           NEW kept \in [0..RecentCapacity - 1 -> Cached], NEW head, NEW count,
           RingInv(kept, head, count, st)
    PROVE  RingInv([kept EXCEPT ![head] = u.event], (head + 1) % RecentCapacity,
                   IF count < RecentCapacity THEN count + 1 ELSE count, Append(st, u))
<1> DEFINE n == Len(st)
           sv == Append(st, u)
           rev == [kept EXCEPT ![head] = u.event]
<1>1. /\ n \in Nat /\ Len(sv) = n + 1 /\ \A i \in 1..n : sv[i] = st[i]
      /\ sv[n + 1] = u
  BY AppendProperties
<1>2. /\ head = n % RecentCapacity /\ head \in 0..RecentCapacity - 1
      /\ (head + 1) % RecentCapacity = (n + 1) % RecentCapacity
  <2>1. head = n % RecentCapacity
    BY DEF RingInv
  <2>2. n % RecentCapacity \in 0..RecentCapacity - 1
    BY <1>1, FrameFacts, GoesRound
  <2>3. ((n % RecentCapacity) + 1) % RecentCapacity = (n + 1) % RecentCapacity
    BY <1>1, FrameFacts, WrappedSuccessor
  <2> QED
    BY <2>1, <2>2, <2>3
<1>3. (IF count < RecentCapacity THEN count + 1 ELSE count)
         = (IF n + 1 < RecentCapacity THEN n + 1 ELSE RecentCapacity)
  BY <1>1, FrameFacts DEF RingInv
<1>4. /\ rev[head] = u.event
      /\ \A k \in 0..RecentCapacity - 1 : k # head => rev[k] = kept[k]
  BY <1>2
<1> HIDE DEF n, sv, rev
<1>5. ASSUME NEW i \in 1..n + 1, n + 1 - i < RecentCapacity
      PROVE  rev[(i - 1) % RecentCapacity] = sv[i].event
  <2>1. CASE i = n + 1
    <3>1. i - 1 = n
      BY <1>1, <2>1
    <3> QED
      BY <1>1, <1>2, <1>4, <2>1, <3>1
  <2>2. CASE i # n + 1
    <3>1. i \in 1..n /\ i - 1 \in Nat /\ i - 1 < n /\ n - (i - 1) < RecentCapacity /\ n - i < RecentCapacity
      BY <1>1, <1>5, <2>2, FrameFacts
    <3>2. PICK j \in Nat : j = i - 1
      BY <3>1
    <3>3. j < n /\ n - j < RecentCapacity
      BY <3>1, <3>2
    <3>4. j % RecentCapacity # n % RecentCapacity
      BY <1>1, <3>3, FrameFacts, SlotsApart
    <3>5. j % RecentCapacity \in 0..RecentCapacity - 1
      BY FrameFacts, GoesRound
    <3>6. kept[(i - 1) % RecentCapacity] = st[i].event
      BY <3>1 DEF RingInv, n
    <3> QED
      BY <1>1, <1>2, <1>4, <3>1, <3>2, <3>4, <3>5, <3>6
  <2> QED
    BY <2>1, <2>2
<1>6. RingInv(rev, (head + 1) % RecentCapacity,
              IF count < RecentCapacity THEN count + 1 ELSE count, sv)
  BY <1>1, <1>2, <1>3, <1>5 DEF RingInv
<1> QED
  BY <1>6 DEF rev, sv

\* The update counted, its entry is the last of its identity.
LEMMA StoredTable ==
    ASSUME NEW en \in [Slot -> EntryRecord], NEW sg \in StoringRecord, NEW sh,
           NEW st \in Seq(StoredRecord), NEW u \in StoredRecord,
           TableInv(en, sg, st), sg.at = "recent", sh.at = "idle",
           u.event = sg.event, u.synthetic = sg.synthetic
    PROVE  TableInv(en, sh, Append(st, u))
<1>1. /\ InUpdate(sg) /\ ~InUpdate(sh) /\ OneEach(en) /\ sg.event.id \in Identity
      /\ Updated(en[sg.slot], sg, st) /\ sg.slot \in Slot
  BY DEF TableInv, InUpdate, StoringRecord
<1> DEFINE e == en[sg.slot]
           n == Len(st) + 1
           sv == Append(st, u)
<1>2. e \in EntryRecord /\ e.id = sg.event.id /\ EntryEvent(e) = sg.event
  BY <1>1 DEF Updated
<1>3. AtRest(e, sv)
  <2>1. HasLast(sv, EntryEvent(e))
    <3>1. n \in DOMAIN sv /\ sv[n] = u /\ LastUpdate(sv, u.event.id, FALSE, n)
      BY LastIsNew
    <3> QED
      BY <1>2, <3>1 DEF HasLast
  <2>2. CASE sg.synthetic
    <3>1. PhysicalAgrees(e, st)
      BY <1>1, <2>2 DEF Updated
    <3>2. CASE e.physical = NoFrame
      BY <2>1, <3>2 DEF AtRest, PhysicalAgrees
    <3>3. CASE e.physical # NoFrame
      <4>1. PICK k \in DOMAIN st : LastUpdate(st, e.id, TRUE, k) /\ e.physical = st[k].event.input
        BY <3>1, <3>3 DEF PhysicalAgrees, HasLastInput
      <4>2. k \in DOMAIN sv /\ sv[k] = st[k] /\ LastUpdate(sv, e.id, TRUE, k)
        BY <2>2, <4>1, LastStays
      <4> QED
        BY <2>1, <4>1, <4>2 DEF AtRest, PhysicalAgrees, HasLastInput
    <3> QED
      BY <3>2, <3>3
  <2>3. CASE ~sg.synthetic
    <3>1. e.physical = u.event.input
      BY <1>1, <2>3 DEF Updated
    <3>2. n \in DOMAIN sv /\ sv[n] = u /\ LastUpdate(sv, u.event.id, TRUE, n)
      BY <2>3, LastIsNew
    <3> QED
      BY <1>2, <2>1, <3>1, <3>2 DEF AtRest, PhysicalAgrees, HasLastInput
  <2> QED
    BY <2>2, <2>3
<1>4. ASSUME NEW s \in Slot, en[s].id # "none", s # sg.slot PROVE AtRest(en[s], sv)
  <2>1. AtRest(en[s], st)
    BY <1>4 DEF TableInv
  <2>2. en[s].id # u.event.id /\ en[s] \in EntryRecord
    BY <1>1, <1>2, <1>4 DEF OneEach
  <2> QED
    BY <2>1, <2>2, RestStays
<1>5. \A s \in Slot : en[s].id # "none" => AtRest(en[s], sv)
  BY <1>3, <1>4
<1> HIDE DEF sv
<1>6. TableInv(en, sh, sv)
  BY <1>1, <1>5 DEF TableInv
<1> QED
  BY <1>6 DEF sv

LEMMA StoreRecentStep == FrameInv /\ StoreRecent => FrameInv'
<1> SUFFICES ASSUME FrameInv, StoreRecent PROVE FrameInv'
  OBVIOUS
<1> DEFINE u == [event |-> storing.event, synthetic |-> storing.synthetic]
<1>1. /\ storing.at = "recent"
      /\ recent' = [recent EXCEPT ![recentHead] = EntryEvent(entries[storing.slot])]
      /\ recentHead' = (recentHead + 1) % RecentCapacity
      /\ recentCount' = IF recentCount < RecentCapacity THEN recentCount + 1 ELSE recentCount
      /\ stored' = Append(stored, u) /\ cacheOwner' = "none" /\ storing' = NotStoring
      /\ UNCHANGED <<entries, evictionCursor, offered, copying>>
  BY DEF StoreRecent
<1>2. FramesTyped /\ TableInv(entries, storing, stored) /\ RingInv(recent, recentHead, recentCount, stored)
  BY DEF FrameInv
<1>3. /\ entries \in [Slot -> EntryRecord] /\ storing \in StoringRecord
      /\ stored \in Seq(StoredRecord) /\ recent \in [0..RecentCapacity - 1 -> Cached]
      /\ u \in StoredRecord /\ u.event = storing.event /\ u.synthetic = storing.synthetic
  BY <1>2 DEF FramesTyped, StoringRecord, StoredRecord
<1>4. storing'.at = "idle"
  BY <1>1 DEF NotStoring
<1> HIDE DEF u
<1>5. EntryEvent(entries[storing.slot]) = u.event
  BY <1>1, <1>2, <1>3 DEF TableInv, InUpdate, Updated
<1>6. RingInv(recent', recentHead', recentCount', stored')
  BY <1>1, <1>2, <1>3, <1>5, RingAppends
<1>7. TableInv(entries', storing', stored')
  <2>1. TableInv(entries, storing', Append(stored, u))
    BY <1>1, <1>2, <1>3, <1>4, StoredTable
  <2> QED
    BY <1>1, <2>1
<1>8. FramesTyped'
  <2>1. stored' \in Seq(StoredRecord)
    BY <1>1, <1>3, AppendProperties
  <2>2. recent' \in [0..RecentCapacity - 1 -> Cached]
    <3>1. u.event \in Cached
      BY <1>3 DEF StoredRecord
    <3> QED
      BY <1>1, <1>3, <1>5, <3>1
  <2>3. recentHead' \in 0..RecentCapacity - 1 /\ recentCount' \in 0..RecentCapacity
    <3>1. recentHead + 1 \in Nat /\ recentCount \in 0..RecentCapacity
      BY <1>2, FrameFacts DEF FramesTyped
    <3>2. recentHead' \in 0..RecentCapacity - 1
      BY <1>1, <3>1, FrameFacts, GoesRound
    <3>3. recentCount' \in 0..RecentCapacity
      BY <1>1, <3>1, FrameFacts
    <3> QED
      BY <3>2, <3>3
  <2> QED
    BY <1>1, <1>2, <2>1, <2>2, <2>3, EmptyRecords DEF FramesTyped
<1>9. Owns'
  BY <1>1, <1>4, UpdateOwns
<1>10. \A r \in CacheReader : CopyInv(copying'[r], entries', recentCount', stored')
  BY <1>1, UpdateKeepsCopies
<1> QED
  BY <1>6, <1>7, <1>8, <1>9, <1>10 DEF FrameInv
-----------------------------------------------------------------------------
\* A reader with the lock moves on; nothing else changes.
LEMMA ReaderMoves ==
    ASSUME FrameInv, NEW r \in CacheReader, NEW c \in CopyingRecord,
           UNCHANGED <<entries, evictionCursor, recent, recentHead, recentCount, offered, storing, stored>>,
           copying' = [copying EXCEPT ![r] = c], CopyInv(c, entries, recentCount, stored),
           cacheOwner \in {"none", r}, cacheOwner' = IF c.at = "idle" THEN "none" ELSE r
    PROVE  FrameInv'
<1>1. FramesTyped /\ Owns
  BY DEF FrameInv
<1>2. /\ copying'[r] = c
      /\ \A t \in CacheReader \ {r} : copying'[t] = copying[t] /\ copying[t].at = "idle"
  BY <1>1, FrameFacts DEF FramesTyped, Owns
<1>3. FramesTyped'
  BY <1>1 DEF FramesTyped
<1>4. Owns'
  <2>1. storing'.at = "idle"
    BY <1>1, FrameFacts DEF Owns
  <2>2. cacheOwner' # "ss_can"
    BY FrameFacts
  <2>3. \A t \in CacheReader : cacheOwner' = t <=> copying'[t].at # "idle"
    BY <1>2, FrameFacts
  <2> QED
    BY <2>1, <2>2, <2>3 DEF Owns
<1>5. /\ TableInv(entries', storing', stored')
      /\ RingInv(recent', recentHead', recentCount', stored')
  BY DEF FrameInv
<1>6. \A t \in CacheReader : CopyInv(copying'[t], entries', recentCount', stored')
  <2>1. \A t \in CacheReader \ {r} : CopyInv(copying'[t], entries', recentCount', stored')
    BY <1>2, IdleCopies
  <2> QED
    BY <1>2, <2>1
<1> QED
  BY <1>3, <1>4, <1>5, <1>6 DEF FrameInv

LEMMA BeginCopyStep ==
    ASSUME FrameInv, NEW r \in CacheReader,
           NEW what \in {"snapshot", "mutated", "read", "physical", "recent"},
           NEW id \in Identity \union {"none"}, what \in {"read", "physical"} => id \in Identity,
           BeginCopy(r, what, id)
    PROVE  FrameInv'
<1> DEFINE c == [NotCopying EXCEPT !.at = what, !.what = what, !.id = id]
<1>1. /\ cacheOwner = "none" /\ cacheOwner' = r /\ copying' = [copying EXCEPT ![r] = c]
      /\ UNCHANGED <<entries, evictionCursor, recent, recentHead, recentCount, offered, storing, stored>>
  BY DEF BeginCopy, CopyAt
<1>2. c \in CopyingRecord
  BY EmptyRecords DEF NotCopying, CopyingRecord
<1>3. c.at = what /\ c.what = what /\ c.id = id /\ c.probe = 0 /\ c.out = <<>> /\ Len(c.out) = 0
  BY DEF NotCopying
<1> HIDE DEF c
<1>4. FromTable(c.out, entries, 0..c.probe - 1) /\ FromRing(c.out, stored)
  BY <1>3 DEF FromTable, FromRing
<1>5. CopyInv(c, entries, recentCount, stored)
  BY <1>3, <1>4, FrameFacts DEF CopyInv
<1>6. cacheOwner' = IF c.at = "idle" THEN "none" ELSE r
  BY <1>1, <1>3
<1> QED
  BY <1>1, <1>2, <1>5, <1>6, ReaderMoves

\* What a copying reader knows: the lock is its own and no update is under way.
LEMMA CopyingFacts ==
    ASSUME FrameInv, NEW r \in CacheReader, copying[r].at # "idle"
    PROVE  /\ cacheOwner = r /\ storing.at = "idle"
           /\ copying[r] \in CopyingRecord /\ copying[r].out \in Seq(Cached) /\ copying[r].probe \in Nat
           /\ entries \in [Slot -> EntryRecord] /\ OneEach(entries)
           /\ \A s \in Slot : entries[s].id # "none" => AtRest(entries[s], stored)
           /\ CopyInv(copying[r], entries, recentCount, stored)
<1>1. FramesTyped /\ Owns /\ TableInv(entries, storing, stored)
  BY DEF FrameInv
<1>2. cacheOwner = r /\ storing.at = "idle"
  BY <1>1, FrameFacts DEF Owns
<1>3. copying[r] \in CopyingRecord /\ entries \in [Slot -> EntryRecord]
  BY <1>1 DEF FramesTyped
<1>4. copying[r].out \in Seq(Cached) /\ copying[r].probe \in Nat
  BY <1>3 DEF CopyingRecord
<1>5. OneEach(entries) /\ \A s \in Slot : entries[s].id # "none" => AtRest(entries[s], stored)
  BY <1>1, <1>2 DEF TableInv, InUpdate
<1> QED
  BY <1>2, <1>3, <1>4, <1>5 DEF FrameInv

\* One step of copying.
LEMMA CopiesMove ==
    ASSUME FrameInv, NEW r \in CacheReader, NEW place \in {"snapshot", "mutated", "read", "physical", "recent"},
           CopyAt(r, place), NEW more \in Seq(Cached), NEW last \in BOOLEAN, Copies(r, more, last),
           \A c \in CopyingRecord :
             /\ c.out = copying[r].out \o more /\ c.probe = copying[r].probe + 1
             /\ c.at = (IF last THEN "return" ELSE place)
             /\ c.what = copying[r].what /\ c.id = copying[r].id
             => CopyInv(c, entries, recentCount, stored)
    PROVE  FrameInv'
<1> DEFINE o == copying[r]
           c == [o EXCEPT !.out = o.out \o more, !.probe = o.probe + 1,
                          !.at = IF last THEN "return" ELSE o.at]
<1>1. /\ o.at = place
      /\ UNCHANGED <<entries, evictionCursor, recent, recentHead, recentCount, offered, storing, stored>>
      /\ UNCHANGED cacheOwner
  BY DEF CopyAt, Copies
<1>2. cacheOwner = r /\ o \in CopyingRecord /\ o.out \in Seq(Cached) /\ o.probe \in Nat
  BY <1>1, CopyingFacts
<1>3. copying \in [CacheReader -> CopyingRecord]
  BY DEF FrameInv, FramesTyped
<1>4. copying' = [copying EXCEPT ![r] = c]
  BY <1>3 DEF Copies
<1>5. PICK w \in Seq(Cached) : w = o.out \o more
  BY <1>2, ConcatProperties
<1>6. /\ c \in CopyingRecord /\ c.out = o.out \o more /\ c.probe = o.probe + 1
      /\ c.at = (IF last THEN "return" ELSE place) /\ c.what = o.what /\ c.id = o.id
  <2>1. PICK n \in Nat : n = o.probe + 1
    BY <1>2
  <2>2. PICK x \in {place, "return"} : x = IF last THEN "return" ELSE place
    OBVIOUS
  <2>3. c = [o EXCEPT !.out = w, !.probe = n, !.at = x]
    BY <1>1, <1>5, <2>1, <2>2
  <2>4. /\ [o EXCEPT !.out = w, !.probe = n, !.at = x] \in CopyingRecord
        /\ [o EXCEPT !.out = w, !.probe = n, !.at = x].out = w
        /\ [o EXCEPT !.out = w, !.probe = n, !.at = x].probe = n
        /\ [o EXCEPT !.out = w, !.probe = n, !.at = x].at = x
        /\ [o EXCEPT !.out = w, !.probe = n, !.at = x].what = o.what
        /\ [o EXCEPT !.out = w, !.probe = n, !.at = x].id = o.id
    BY <1>2 DEF CopyingRecord
  <2> HIDE DEF c
  <2> QED
    BY <1>5, <2>1, <2>2, <2>3, <2>4
<1> HIDE DEF c
<1>7. CopyInv(c, entries, recentCount, stored)
  BY <1>6
<1>8. cacheOwner' = IF c.at = "idle" THEN "none" ELSE r
  BY <1>1, <1>2, <1>6
<1> QED
  BY <1>1, <1>2, <1>4, <1>6, <1>7, <1>8, ReaderMoves

LEMMA ReturnCopyStep ==
    ASSUME FrameInv, NEW r \in CacheReader, ReturnCopy(r)
    PROVE  FrameInv'
<1>1. /\ copying[r].at = "return" /\ cacheOwner' = "none"
      /\ copying' = [copying EXCEPT ![r] = NotCopying]
      /\ UNCHANGED <<entries, evictionCursor, recent, recentHead, recentCount, offered, storing, stored>>
  BY DEF ReturnCopy, CopyAt
<1>2. cacheOwner = r
  BY <1>1, CopyingFacts
<1>3. NotCopying \in CopyingRecord /\ NotCopying.at = "idle"
  BY EmptyRecords DEF NotCopying
<1>4. CopyInv(NotCopying, entries, recentCount, stored)
  BY <1>3, IdleCopies
<1> QED
  BY <1>1, <1>2, <1>3, <1>4, ReaderMoves
-----------------------------------------------------------------------------
\* A table walk that has one more slot behind it.
LEMMA TableWalks ==
    ASSUME NEW en \in [Slot -> EntryRecord], OneEach(en), NEW out \in Seq(Cached), NEW n \in Slot,
           FromTable(out, en, 0..n - 1)
    PROVE  /\ FromTable(out, en, 0..n)
           /\ en[n].id # "none" => FromTable(out \o <<EntryEvent(en[n])>>, en, 0..n)
<1>1. n \in Nat /\ n \in 0..n /\ 0..n \subseteq Slot /\ 0..n - 1 \subseteq Slot /\ n \notin 0..n - 1
      /\ 0..n - 1 \subseteq 0..n
  BY FrameFacts
<1>2. FromTable(out, en, 0..n)
  BY <1>1 DEF FromTable
<1>3. ASSUME en[n].id # "none" PROVE FromTable(out \o <<EntryEvent(en[n])>>, en, 0..n)
  <2> DEFINE ev == EntryEvent(en[n])
             new == out \o <<ev>>
  <2>1. ev \in Cached /\ ev.id = en[n].id /\ <<ev>> \in Seq(Cached) /\ Len(<<ev>>) = 1 /\ <<ev>>[1] = ev
    BY EventOfEntry
  <2>2. PICK l \in Nat : l = Len(out)
    OBVIOUS
  <2>3. /\ Len(new) = l + 1
        /\ \A i \in 1..l + 1 : new[i] = IF i <= l THEN out[i] ELSE <<ev>>[i - l]
    BY <2>1, <2>2, ConcatProperties
  <2> HIDE DEF ev, new
  <2>4. /\ \A i \in 1..l : new[i] = out[i]
        /\ new[l + 1] = ev
    BY <2>1, <2>2, <2>3
  <2>5. \A i \in 1..l : \E s \in 0..n - 1 : en[s].id # "none" /\ out[i] = EntryEvent(en[s])
    BY <2>2 DEF FromTable
  <2>6. ASSUME NEW i \in 1..l PROVE new[i].id # ev.id
    <3>1. PICK s \in 0..n - 1 : en[s].id # "none" /\ out[i] = EntryEvent(en[s])
      BY <2>5
    <3>2. s \in Slot /\ s # n
      BY <1>1
    <3>3. en[s] \in EntryRecord /\ EntryEvent(en[s]).id = en[s].id
      BY <3>2, EventOfEntry
    <3>4. en[s].id # en[n].id
      BY <3>1, <3>2 DEF OneEach
    <3> QED
      BY <2>1, <2>4, <3>1, <3>3, <3>4
  <2>7. \A i \in 1..Len(new) : \E s \in 0..n : en[s].id # "none" /\ new[i] = EntryEvent(en[s])
    <3>1. SUFFICES ASSUME NEW i \in 1..Len(new)
                   PROVE  \E s \in 0..n : en[s].id # "none" /\ new[i] = EntryEvent(en[s])
      OBVIOUS
    <3>2. CASE i \in 1..l
      BY <1>1, <2>4, <2>5, <3>2
    <3>3. CASE i = l + 1
      BY <1>1, <1>3, <2>4, <3>3 DEF ev
    <3> QED
      BY <2>2, <2>3, <3>2, <3>3
  <2>8. \A i, j \in 1..l : i # j => out[i].id # out[j].id
    BY <2>2 DEF FromTable
  <2>9. \A i, j \in 1..Len(new) : i # j => new[i].id # new[j].id
    <3>1. SUFFICES ASSUME NEW i \in 1..Len(new), NEW j \in 1..Len(new), i # j
                   PROVE  new[i].id # new[j].id
      OBVIOUS
    <3>2. (i \in 1..l \/ i = l + 1) /\ (j \in 1..l \/ j = l + 1)
      BY <2>2, <2>3
    <3> QED
      BY <2>4, <2>6, <2>8, <3>1, <3>2
  <2>10. FromTable(new, en, 0..n)
    BY <2>7, <2>9 DEF FromTable
  <2> QED
    BY <2>10 DEF new, ev
<1> QED
  BY <1>2, <1>3

LEMMA OneFromTable ==
    ASSUME NEW en \in [Slot -> EntryRecord], NEW s \in Slot, en[s].id # "none"
    PROVE  FromTable(<<EntryEvent(en[s])>>, en, Slot)
<1>1. Len(<<EntryEvent(en[s])>>) = 1 /\ <<EntryEvent(en[s])>>[1] = EntryEvent(en[s])
  OBVIOUS
<1>2. \A i \in 1..1 : i = 1
  OBVIOUS
<1> QED
  BY <1>1, <1>2 DEF FromTable

LEMMA CopySlotStep ==
    ASSUME FrameInv, NEW r \in CacheReader, CopySlot(r)
    PROVE  FrameInv'
<1> DEFINE o == copying[r]
           n == o.probe
           e == entries[n]
           wanted == e.id # "none" /\ (o.what = "mutated" => e.mutated)
           more == IF wanted THEN <<EntryEvent(e)>> ELSE <<>>
           last == n + 1 = MaxEntries
<1>1. PICK place \in {"snapshot", "mutated"} : CopyAt(r, place)
  BY DEF CopySlot
<1>2. o.at = place /\ Copies(r, more, last)
  BY <1>1 DEF CopySlot, CopyAt
<1>3. /\ o \in CopyingRecord /\ o.out \in Seq(Cached)
      /\ entries \in [Slot -> EntryRecord] /\ OneEach(entries)
      /\ CopyInv(o, entries, recentCount, stored)
  BY <1>2, CopyingFacts
<1>4. n \in Slot /\ FromTable(o.out, entries, 0..n - 1) /\ o.what = place
  BY <1>2, <1>3 DEF CopyInv
<1>5. n \in Nat /\ (last => 0..n = Slot) /\ (~last => n + 1 \in Slot)
  BY <1>4, FrameFacts
<1>6. more \in Seq(Cached) /\ FromTable(o.out \o more, entries, 0..n)
  <2>1. CASE wanted
    <3>1. e \in EntryRecord
      BY <1>3, <1>4
    <3>2. EntryEvent(e) \in Cached
      BY <3>1, EventOfEntry
    <3>3. FromTable(o.out \o <<EntryEvent(e)>>, entries, 0..n)
      BY <1>3, <1>4, <2>1, TableWalks
    <3> QED
      BY <2>1, <3>2, <3>3
  <2>2. CASE ~wanted
    <3>1. o.out \o <<>> = o.out /\ <<>> \in Seq(Cached)
      BY <1>3, ConcatEmptySeq, EmptySeq
    <3>2. FromTable(o.out, entries, 0..n)
      BY <1>3, <1>4, TableWalks
    <3> QED
      BY <2>2, <3>1, <3>2
  <2> QED
    BY <2>1, <2>2
<1> HIDE DEF more, wanted
<1>7. ASSUME NEW c \in CopyingRecord, c.out = o.out \o more, c.probe = n + 1,
             c.at = (IF last THEN "return" ELSE place), c.what = o.what, c.id = o.id
      PROVE  CopyInv(c, entries, recentCount, stored)
  <2>1. CASE last
    <3>1. FromTable(c.out, entries, Slot)
      BY <1>5, <1>6, <1>7, <2>1
    <3> QED
      BY <1>4, <1>7, <2>1, <3>1 DEF CopyInv
  <2>2. CASE ~last
    <3>1. c.probe - 1 = n
      BY <1>5, <1>7
    <3>2. c.at = place /\ c.probe \in Slot /\ FromTable(c.out, entries, 0..c.probe - 1)
      BY <1>5, <1>6, <1>7, <2>2, <3>1
    <3> QED
      BY <1>4, <1>7, <3>2 DEF CopyInv
  <2> QED
    BY <2>1, <2>2
<1>8. last \in BOOLEAN
  OBVIOUS
<1> HIDE DEF last
<1>9. place \in {"snapshot", "mutated", "read", "physical", "recent"}
  OBVIOUS
<1>10. \A c \in CopyingRecord :
         /\ c.out = o.out \o more /\ c.probe = o.probe + 1
         /\ c.at = (IF last THEN "return" ELSE place)
         /\ c.what = o.what /\ c.id = o.id
         => CopyInv(c, entries, recentCount, stored)
  BY <1>7
<1>11. Copies(r, more, last) /\ more \in Seq(Cached)
  BY <1>2, <1>6
<1> QED
  BY <1>1, <1>8, <1>9, <1>10, <1>11, CopiesMove

LEMMA CopyEntryStep ==
    ASSUME FrameInv, NEW r \in CacheReader, CopyEntry(r)
    PROVE  FrameInv'
<1> DEFINE o == copying[r]
           n == o.probe
           s == Probed(o.id, n)
           e == entries[s]
           own == e.id = o.id
           more == IF own THEN <<EntryEvent(e)>> ELSE <<>>
           last == own \/ n + 1 = MaxEntries
<1>1. CopyAt(r, "read") /\ o.at = "read" /\ Copies(r, more, last)
  BY DEF CopyEntry, CopyAt
<1>2. /\ o \in CopyingRecord /\ o.out \in Seq(Cached)
      /\ entries \in [Slot -> EntryRecord]
      /\ CopyInv(o, entries, recentCount, stored)
  BY <1>1, CopyingFacts
<1>3. o.id \in Identity /\ n \in Slot /\ o.out = <<>> /\ o.what = "read"
  BY <1>1, <1>2 DEF CopyInv
<1>4. n \in Nat /\ (~last => n + 1 \in Slot) /\ o.id # "none"
  BY <1>3, FrameFacts
<1>5. s \in Slot /\ e \in EntryRecord
  BY <1>2, <1>3, <1>4, ProbedSlot
<1>6. more \in Seq(Cached) /\ FromTable(more, entries, Slot) /\ (~own => more = <<>>)
  <2>1. CASE own
    <3>1. EntryEvent(e) \in Cached
      BY <1>5, EventOfEntry
    <3>2. FromTable(<<EntryEvent(e)>>, entries, Slot)
      BY <1>2, <1>4, <1>5, <2>1, OneFromTable
    <3> QED
      BY <2>1, <3>1, <3>2
  <2>2. CASE ~own
    <3>1. <<>> \in Seq(Cached) /\ Len(<<>>) = 0
      BY EmptySeq
    <3>2. FromTable(<<>>, entries, Slot)
      BY <3>1 DEF FromTable
    <3> QED
      BY <2>2, <3>1, <3>2
  <2> QED
    BY <2>1, <2>2
<1>7. o.out \o more = more
  BY <1>3, <1>6, ConcatEmptySeq
<1>8. last \in BOOLEAN /\ (own => last)
  OBVIOUS
<1> HIDE DEF more, last, own
<1>9. ASSUME NEW c \in CopyingRecord, c.out = o.out \o more, c.probe = o.probe + 1,
             c.at = (IF last THEN "return" ELSE "read"), c.what = o.what, c.id = o.id
      PROVE  CopyInv(c, entries, recentCount, stored)
  <2>1. CASE last
    <3>1. FromTable(c.out, entries, Slot)
      BY <1>6, <1>7, <1>9
    <3> QED
      BY <1>3, <1>9, <2>1, <3>1 DEF CopyInv
  <2>2. CASE ~last
    <3>1. c.at = "read" /\ c.probe \in Slot /\ c.out = <<>>
      BY <1>4, <1>6, <1>7, <1>8, <1>9, <2>2
    <3> QED
      BY <1>3, <1>9, <3>1 DEF CopyInv
  <2> QED
    BY <2>1, <2>2
<1> QED
  BY <1>1, <1>6, <1>8, <1>9, CopiesMove

LEMMA CopyPhysicalStep ==
    ASSUME FrameInv, NEW r \in CacheReader, CopyPhysical(r)
    PROVE  FrameInv'
<1> DEFINE o == copying[r]
           n == o.probe
           s == Probed(o.id, n)
           e == entries[s]
           own == e.id = o.id
           seen == [id |-> e.id, data |-> e.physical, input |-> e.physical, mutated |-> FALSE]
           more == IF own /\ e.physical # NoFrame THEN <<seen>> ELSE <<>>
           last == own \/ n + 1 = MaxEntries
<1>1. CopyAt(r, "physical") /\ o.at = "physical" /\ Copies(r, more, last)
  BY DEF CopyPhysical, CopyAt
<1>2. /\ o \in CopyingRecord /\ o.out \in Seq(Cached)
      /\ entries \in [Slot -> EntryRecord]
      /\ \A t \in Slot : entries[t].id # "none" => AtRest(entries[t], stored)
      /\ CopyInv(o, entries, recentCount, stored)
  BY <1>1, CopyingFacts
<1>3. o.id \in Identity /\ n \in Slot /\ o.out = <<>> /\ o.what = "physical"
  BY <1>1, <1>2 DEF CopyInv
<1>4. n \in Nat /\ (~last => n + 1 \in Slot) /\ o.id # "none"
  BY <1>3, FrameFacts
<1>5. s \in Slot /\ e \in EntryRecord
  BY <1>2, <1>3, <1>4, ProbedSlot, SMTT(30)
<1>6. more \in Seq(Cached) /\ FromPhysical(more, o.id, stored) /\ (~own => more = <<>>)
  <2>1. CASE own /\ e.physical # NoFrame
    <3>1. seen \in Cached /\ seen.data = e.physical
      BY <1>5 DEF EntryRecord, Cached
    <3>2. HasLastInput(stored, o.id, e.physical)
      BY <1>2, <1>4, <1>5, <2>1 DEF AtRest, PhysicalAgrees
    <3> HIDE DEF seen
    <3>3. <<seen>> \in Seq(Cached) /\ Len(<<seen>>) = 1 /\ <<seen>>[1] = seen /\ \A i \in 1..1 : i = 1
      BY <3>1
    <3>4. FromPhysical(<<seen>>, o.id, stored)
      BY <3>1, <3>2, <3>3 DEF FromPhysical
    <3> QED
      BY <2>1, <3>3, <3>4
  <2>2. CASE ~(own /\ e.physical # NoFrame)
    <3>1. <<>> \in Seq(Cached) /\ Len(<<>>) = 0
      BY EmptySeq
    <3>2. FromPhysical(<<>>, o.id, stored)
      BY <3>1 DEF FromPhysical
    <3> QED
      BY <2>2, <3>1, <3>2
  <2> QED
    BY <2>1, <2>2
<1>7. o.out \o more = more
  BY <1>3, <1>6, ConcatEmptySeq
<1>8. last \in BOOLEAN /\ (own => last)
  OBVIOUS
<1> HIDE DEF more, last, own, seen
<1>9. ASSUME NEW c \in CopyingRecord, c.out = o.out \o more, c.probe = o.probe + 1,
             c.at = (IF last THEN "return" ELSE "physical"), c.what = o.what, c.id = o.id
      PROVE  CopyInv(c, entries, recentCount, stored)
  <2>1. CASE last
    <3>1. FromPhysical(c.out, c.id, stored)
      BY <1>6, <1>7, <1>9
    <3> QED
      BY <1>3, <1>9, <2>1, <3>1 DEF CopyInv
  <2>2. CASE ~last
    <3>1. c.at = "physical" /\ c.probe \in Slot /\ c.out = <<>>
      BY <1>4, <1>6, <1>7, <1>8, <1>9, <2>2
    <3> QED
      BY <1>3, <1>9, <3>1 DEF CopyInv
  <2> QED
    BY <2>1, <2>2
<1> QED
  BY <1>1, <1>6, <1>8, <1>9, CopiesMove

\* The slot n behind the newest holds the update n before the last.
LEMMA BehindTheHead ==
    ASSUME NEW kept, NEW head, NEW count, NEW st \in Seq(StoredRecord), RingInv(kept, head, count, st),
           NEW n \in Nat, n < count
    PROVE  kept[(head - 1 - n) % RecentCapacity] = st[Len(st) - n].event /\ Len(st) - n \in 1..Len(st)
<1> DEFINE l == Len(st)
           c == RecentCapacity
<1>1. l \in Nat /\ c \in Nat \ {0} /\ head = l % c /\ count = (IF l < c THEN l ELSE c)
  BY FrameFacts DEF RingInv
<1>2. \A i \in 1..l : l - i < c => kept[(i - 1) % c] = st[i].event
  BY DEF RingInv
<1> HIDE DEF l, c
<1>3. PICK i \in 1..l : i = l - n
  BY <1>1
<1>4. l - i < c
  BY <1>1, <1>3
<1>5. PICK q \in Int : \E z \in 0..c - 1 : l = c * q + z /\ q = l \div c /\ z = l % c
  BY <1>1, Parts, SMTT(30)
<1>6. PICK h \in 0..c - 1 : l = c * q + h /\ h = l % c
  BY <1>5
<1>7. PICK k \in 0..c - 1 : k = (i - 1) % c
  <2>1. i - 1 \in Nat
    BY <1>1
  <2> QED
    BY <1>1, <2>1, GoesRound
<1>8. i - 1 \in Int /\ h - 1 - n \in Int
  BY <1>1
<1>9. PICK p \in Int : \E z \in 0..c - 1 : i - 1 = c * p + z /\ p = (i - 1) \div c /\ z = (i - 1) % c
  BY <1>1, <1>8, Parts
<1>10. i - 1 = c * p + k
  BY <1>7, <1>9
<1>11. PICK a \in Int, b \in Int : a = c * p /\ b = c * q
  BY <1>1
<1>12. PICK d \in Int : d = p - q
  OBVIOUS
<1>13. c * d = a - b
  BY <1>1, <1>11, <1>12
<1>14. l = b + h /\ i - 1 = a + k
  BY <1>6, <1>10, <1>11
<1>15. h - 1 - n = (a - b) + k
  BY <1>1, <1>3, <1>14
<1>16. h - 1 - n = c * d + k
  BY <1>13, <1>15
<1>17. (h - 1 - n) % c = k
  <2>1. PICK x \in Int : x = h - 1 - n
    BY <1>8
  <2>2. x = c * d + k
    BY <1>16, <2>1
  <2>3. x % c = k
    BY <1>1, <2>2, Remainder, SMTT(30)
  <2> QED
    BY <2>1, <2>3
<1>18. kept[k] = st[i].event
  BY <1>2, <1>4, <1>7
<1> QED
  BY <1>1, <1>3, <1>6, <1>17, <1>18 DEF l, c

LEMMA CopyRecentStep ==
    ASSUME FrameInv, NEW r \in CacheReader, CopyRecent(r)
    PROVE  FrameInv'
<1> DEFINE o == copying[r]
           ev == recent[(recentHead - 1 - o.probe) % RecentCapacity]
           more == IF o.probe < recentCount THEN <<ev>> ELSE <<>>
           last == o.probe + 1 >= recentCount
<1>1. CopyAt(r, "recent") /\ o.at = "recent" /\ Copies(r, more, last)
  BY DEF CopyRecent, CopyAt
<1>2. /\ o \in CopyingRecord /\ o.out \in Seq(Cached) /\ o.probe \in Nat
      /\ CopyInv(o, entries, recentCount, stored)
  BY <1>1, CopyingFacts
<1>3. /\ o.what = "recent" /\ (o.probe < recentCount \/ o.probe = 0)
      /\ Len(o.out) = o.probe /\ FromRing(o.out, stored)
  BY <1>1, <1>2 DEF CopyInv
<1>4. /\ RingInv(recent, recentHead, recentCount, stored) /\ stored \in Seq(StoredRecord)
      /\ recentCount \in Nat /\ FramesTyped
  BY FrameFacts DEF FrameInv, FramesTyped
<1>5. PICK n \in Nat : n = o.probe
  BY <1>2
<1>6. PICK l \in Nat : l = Len(stored)
  BY <1>4
<1>7. /\ more \in Seq(Cached) /\ FromRing(o.out \o more, stored)
      /\ n < recentCount => Len(o.out \o more) = n + 1
      /\ ~(n < recentCount) => Len(o.out \o more) = n
  <2>1. CASE n < recentCount
    <3>1. ev = stored[l - n].event /\ l - n \in 1..l
      BY <1>4, <1>5, <1>6, <2>1, BehindTheHead, ZenonT(60)
    <3>2. ev \in Cached
      <4>1. stored[l - n] \in StoredRecord
        BY <1>4, <1>6, <3>1, ElementOfSeq
      <4> QED
        BY <3>1, <4>1 DEF StoredRecord
    <3>3. more = <<ev>>
      BY <1>5, <2>1
    <3> HIDE DEF ev, more
    <3>4. <<ev>> \in Seq(Cached) /\ Len(<<ev>>) = 1 /\ <<ev>>[1] = ev
      BY <3>2
    <3>5. /\ Len(o.out \o more) = n + 1
          /\ \A i \in 1..n + 1 : (o.out \o more)[i] = IF i <= n THEN o.out[i] ELSE <<ev>>[i - n]
      BY <1>2, <1>3, <1>5, <3>3, <3>4, ConcatProperties, SMTT(30)
    <3>6. ASSUME NEW i \in 1..n + 1 PROVE (o.out \o more)[i] = stored[l + 1 - i].event
      <4>1. CASE i <= n
        <5>1. i \in 1..Len(o.out)
          BY <1>3, <1>5, <4>1
        <5> QED
          BY <1>3, <1>6, <3>5, <4>1, <5>1 DEF FromRing
      <4>2. CASE ~(i <= n)
        <5>1. i = n + 1 /\ i - n = 1 /\ l + 1 - i = l - n
          BY <4>2
        <5> QED
          BY <3>1, <3>4, <3>5, <4>2, <5>1
      <4> QED
        BY <4>1, <4>2
    <3>7. FromRing(o.out \o more, stored)
      BY <1>6, <3>5, <3>6 DEF FromRing
    <3> QED
      BY <2>1, <3>3, <3>4, <3>5, <3>7
  <2>2. CASE ~(n < recentCount)
    <3>1. more = <<>> /\ <<>> \in Seq(Cached) /\ o.out \o <<>> = o.out
      BY <1>2, <1>5, <2>2, ConcatEmptySeq, EmptySeq
    <3> QED
      BY <1>3, <1>5, <2>2, <3>1
  <2> QED
    BY <2>1, <2>2
<1>8. last \in BOOLEAN /\ (last <=> n + 1 >= recentCount)
  BY <1>2, <1>4, <1>5
<1> HIDE DEF more, last
<1>9. ASSUME NEW c \in CopyingRecord, c.out = o.out \o more, c.probe = o.probe + 1,
             c.at = (IF last THEN "return" ELSE "recent"), c.what = o.what, c.id = o.id
      PROVE  CopyInv(c, entries, recentCount, stored)
  <2>1. CASE last
    <3>1. Len(c.out) = recentCount
      <4>1. CASE n < recentCount
        BY <1>4, <1>7, <1>8, <1>9, <2>1, <4>1
      <4>2. CASE ~(n < recentCount)
        BY <1>3, <1>4, <1>5, <1>7, <1>9, <4>2
      <4> QED
        BY <4>1, <4>2
    <3> QED
      BY <1>3, <1>7, <1>9, <2>1, <3>1 DEF CopyInv
  <2>2. CASE ~last
    <3>1. n + 1 < recentCount /\ n < recentCount
      BY <1>4, <1>8, <2>2
    <3>2. c.at = "recent" /\ c.probe < recentCount /\ Len(c.out) = c.probe /\ FromRing(c.out, stored)
      BY <1>5, <1>7, <1>9, <2>2, <3>1
    <3> QED
      BY <1>3, <1>9, <3>2 DEF CopyInv
  <2> QED
    BY <2>1, <2>2
<1> QED
  BY <1>1, <1>7, <1>8, <1>9, CopiesMove
-----------------------------------------------------------------------------
LEMMA FrameNextInv == FrameInv /\ [FrameCacheNext]_frameCacheVars => FrameInv'
<1> SUFFICES ASSUME FrameInv, [FrameCacheNext]_frameCacheVars PROVE FrameInv'
  OBVIOUS
<1>1. CASE Storing
  BY <1>1, OfferFrameStep, FindOrCreateStep, StoreLatestStep, StorePhysicalStep, StoreRecentStep
  DEF Storing
<1>2. ASSUME NEW r \in CacheReader, CopyingOut(r) PROVE FrameInv'
  <2>1. ASSUME NEW what \in {"snapshot", "mutated", "recent"}, BeginCopy(r, what, "none") PROVE FrameInv'
    BY <2>1, BeginCopyStep
  <2>2. ASSUME NEW what \in {"read", "physical"}, NEW id \in Identity, BeginCopy(r, what, id)
        PROVE  FrameInv'
    BY <2>2, BeginCopyStep
  <2> QED
    BY <1>2, <2>1, <2>2, CopySlotStep, CopyEntryStep, CopyPhysicalStep, CopyRecentStep, ReturnCopyStep
    DEF CopyingOut
<1>3. CASE UNCHANGED frameCacheVars
  BY <1>3 DEF frameCacheVars, FrameInv, FramesTyped, Owns
<1> QED
  BY <1>1, <1>2, <1>3 DEF FrameCacheNext

\* The module's own words for the last update of an identity.
LEMMA NewestIsLast ==
    ASSUME NEW id, NEW p \in BOOLEAN, NEW n
    PROVE  n \in Newest(Of(id, p)) <=> LastUpdate(stored, id, p, n)
  BY DEF Newest, Of, LastUpdate

LEMMA LastIsNewest ==
    /\ \A e : HasLast(stored, e) => IsNewest(e, Of(e.id, FALSE))
    /\ \A id, f : HasLastInput(stored, id, f) => IsNewestInput(f, Of(id, TRUE))
<1>1. ASSUME NEW e, HasLast(stored, e) PROVE IsNewest(e, Of(e.id, FALSE))
  <2>1. PICK n \in DOMAIN stored : LastUpdate(stored, e.id, FALSE, n) /\ e = stored[n].event
    BY <1>1 DEF HasLast
  <2>2. n \in Newest(Of(e.id, FALSE))
    BY <2>1, NewestIsLast
  <2> QED
    BY <2>1, <2>2 DEF IsNewest
<1>2. ASSUME NEW id, NEW f, HasLastInput(stored, id, f) PROVE IsNewestInput(f, Of(id, TRUE))
  <2>1. PICK n \in DOMAIN stored : LastUpdate(stored, id, TRUE, n) /\ f = stored[n].event.input
    BY <1>2 DEF HasLastInput
  <2>2. n \in Newest(Of(id, TRUE))
    BY <2>1, NewestIsLast
  <2> QED
    BY <2>1, <2>2 DEF IsNewestInput
<1> QED
  BY <1>1, <1>2

LEMMA FrameInvImplies == FrameInv => FrameCacheTypeOK /\ EntriesAgree /\ CopiesAreWhole
<1> SUFFICES ASSUME FrameInv PROVE FrameCacheTypeOK /\ EntriesAgree /\ CopiesAreWhole
  OBVIOUS
<1>1. FramesTyped /\ TableInv(entries, storing, stored) /\ RingInv(recent, recentHead, recentCount, stored)
  BY DEF FrameInv
<1>2. FrameCacheTypeOK
  <2>1. \A s \in Slot : EntryEvent(entries[s]) \in Cached /\ entries[s].physical \in Frame
    BY <1>1, EventOfEntry DEF FramesTyped
  <2> QED
    BY <1>1, <2>1 DEF FramesTyped, FrameCacheTypeOK, StoringRecord, CopyingRecord
<1>3. EntriesAgree
  <2> SUFFICES ASSUME storing.at = "idle", NEW s \in Slot, entries[s].id # "none"
               PROVE  /\ \A t \in Slot \ {s} : entries[t].id # entries[s].id
                      /\ IsNewest(EntryEvent(entries[s]), Of(entries[s].id, FALSE))
                      /\ \/ entries[s].physical = NoFrame
                         \/ IsNewestInput(entries[s].physical, Of(entries[s].id, TRUE))
    BY DEF EntriesAgree
  <2>1. AtRest(entries[s], stored) /\ \A t \in Slot \ {s} : entries[t].id # entries[s].id
    BY <1>1 DEF TableInv, OneEach, InUpdate
  <2>2. EntryEvent(entries[s]).id = entries[s].id
    BY DEF EntryEvent
  <2>3. IsNewest(EntryEvent(entries[s]), Of(entries[s].id, FALSE))
    <3>1. HasLast(stored, EntryEvent(entries[s]))
      BY <2>1 DEF AtRest
    <3>2. IsNewest(EntryEvent(entries[s]), Of(EntryEvent(entries[s]).id, FALSE))
      BY <3>1, LastIsNewest
    <3> QED
      BY <2>2, <3>2
  <2>4. \/ entries[s].physical = NoFrame
        \/ IsNewestInput(entries[s].physical, Of(entries[s].id, TRUE))
    BY <2>1, LastIsNewest DEF AtRest, PhysicalAgrees
  <2> QED
    BY <2>1, <2>3, <2>4
<1>4. CopiesAreWhole
  <2> SUFFICES ASSUME NEW r \in CacheReader, copying[r].at = "return"
               PROVE  LET out == copying[r].out
                          n == Len(stored)
                      IN  CASE copying[r].what = "recent" ->
                                 /\ Len(out) = IF n < RecentCapacity THEN n ELSE RecentCapacity
                                 /\ \A i \in 1..Len(out) : out[i] = stored[n + 1 - i].event
                            [] copying[r].what = "physical" ->
                                 \A i \in 1..Len(out) : IsNewestInput(out[i].data, Of(copying[r].id, TRUE))
                            [] OTHER ->
                                 /\ \A i \in 1..Len(out) : IsNewest(out[i], Of(out[i].id, FALSE))
                                 /\ \A i, j \in 1..Len(out) : i # j => out[i].id # out[j].id
    BY DEF CopiesAreWhole
  <2> DEFINE o == copying[r]
  <2>1. /\ CopyInv(o, entries, recentCount, stored)
        /\ \A s \in Slot : entries[s].id # "none" => AtRest(entries[s], stored)
    BY CopyingFacts
  <2>2. o.what \in {"snapshot", "mutated", "read", "recent", "physical"}
    BY <2>1 DEF CopyInv
  <2>3. CASE o.what = "recent"
    <3>1. Len(o.out) = recentCount /\ FromRing(o.out, stored)
      BY <2>1, <2>3 DEF CopyInv
    <3> QED
      BY <1>1, <2>3, <3>1 DEF FromRing, RingInv
  <2>4. CASE o.what = "physical"
    <3>1. FromPhysical(o.out, o.id, stored)
      BY <2>1, <2>4 DEF CopyInv
    <3>2. \A i \in 1..Len(o.out) : IsNewestInput(o.out[i].data, Of(o.id, TRUE))
      BY <3>1, LastIsNewest DEF FromPhysical
    <3> QED
      BY <2>4, <3>2
  <2>5. CASE o.what \in {"snapshot", "mutated", "read"}
    <3>1. FromTable(o.out, entries, Slot)
      BY <2>1, <2>5 DEF CopyInv
    <3>2. ASSUME NEW i \in 1..Len(o.out) PROVE IsNewest(o.out[i], Of(o.out[i].id, FALSE))
      <4>1. PICK s \in Slot : entries[s].id # "none" /\ o.out[i] = EntryEvent(entries[s])
        BY <3>1 DEF FromTable
      <4>2. HasLast(stored, o.out[i])
        BY <2>1, <4>1 DEF AtRest
      <4> QED
        BY <4>2, LastIsNewest
    <3>3. \A i, j \in 1..Len(o.out) : i # j => o.out[i].id # o.out[j].id
      BY <3>1 DEF FromTable
    <3> QED
      BY <2>5, <3>2, <3>3
  <2> QED
    BY <2>2, <2>3, <2>4, <2>5
<1> QED
  BY <1>2, <1>3, <1>4

\* An identity has one slot, which holds the last update of it, and a copy is of
\* one moment: however the frames hash, however many readers there are.
THEOREM FrameCopiesAreWhole == FrameCacheSpec => [](FrameCacheTypeOK /\ EntriesAgree /\ CopiesAreWhole)
<1>1. FrameCacheInit => FrameInv
  BY FrameInitInv
<1>2. FrameInv /\ [FrameCacheNext]_frameCacheVars => FrameInv'
  BY FrameNextInv
<1>3. FrameInv => FrameCacheTypeOK /\ EntriesAgree /\ CopiesAreWhole
  BY FrameInvImplies
<1> QED
  BY <1>1, <1>2, <1>3, PTL DEF FrameCacheSpec
-----------------------------------------------------------------------------
(* The parked power handshake, for every setting of its delays and every      *)
(* length of the behaviour below the span of the clock. The CAN task reaches  *)
(* the second phase of the quiesce only under a request, and a request is     *)
(* lowered only by a failure in the first phase. So as soon as anything has   *)
(* been stopped, no failure can be reported any more and ss_app, which goes   *)
(* back only on a failure, never runs on with a bus that is half stopped.     *)

CanRecord ==
    [at: {"begin", "poll", "quiesce", "suspended"}, now: Time, lastIngress: Time,
     unsent: BOOLEAN, phase: {"idle", "quiet", "alert task"}, requestedAt: Time]
AppRecord ==
    [at: {"probe", "idle", "loop", "enter", "arm", "handshake", "check failed",
          "check quiesced", "sleep", "restart"},
     now: Time, on: BOOLEAN, onAt: Time, startedAt: Time, restore: BOOLEAN]
FlagRecord == [requested: BOOLEAN, quiesced: BOOLEAN, failed: BOOLEAN, alertStop: BOOLEAN]

Waiting == app.at \in {"handshake", "check failed", "check quiesced", "sleep", "restart"}

ParkedTyped ==
    /\ now \in Time /\ lastAwake \in Time /\ writesAllowed \in BOOLEAN
    /\ ignition \in [on: BOOLEAN, lastOn: Time]
    /\ flags \in FlagRecord /\ alertTask \in {"running", "stopped"}
    /\ canTask \in CanRecord /\ app \in AppRecord
    /\ app.now <= now /\ ignition.lastOn <= now

\* What has been stopped has been stopped under a request that still stands.
StoppedByRequest ==
    /\ flags.requested => Waiting /\ ~flags.failed
    /\ canTask.phase = "alert task" => flags.requested
    /\ (canTask.at = "suspended" \/ flags.alertStop \/ flags.quiesced \/ alertTask = "stopped") =>
         canTask.phase = "alert task"

\* The CAN task is suspended exactly when it has said so.
Suspension ==
    /\ canTask.at = "suspended" => alertTask = "stopped" /\ ~canTask.unsent
    /\ flags.quiesced => canTask.at = "suspended"
    /\ app.at = "sleep" => flags.quiesced

\* Outside a sleep attempt nothing of one is left.
Awake ==
    app.at \in {"probe", "idle", "loop", "enter"} => ~enteringSleep /\ writesAllowed = app.restore

\* The ages a decision was taken on.
Ages ==
    /\ app.at = "probe" => ~app.on
    /\ AwakeUnlessYounger

ParkedInv == ParkedTyped /\ StoppedByRequest /\ Suspension /\ Awake /\ Ages

\* A stamp that is not in the future has its true age.
LEMMA AgeOfPast ==
    ASSUME NEW at \in Time, NEW stamp \in Time, stamp <= at
    PROVE  Age(at, stamp) = at - stamp
<1>1. at - stamp \in Nat /\ at - stamp < ClockSpan /\ ClockSpan \in Nat
  BY ParkedAssumption DEF Time
<1>2. ASSUME NEW n \in Nat, NEW s \in Nat, n < s PROVE n % s = n
  BY <1>2, SMT
<1> QED
  BY <1>1, <1>2 DEF Age

LEMMA ParkedInitInv == ParkedInit => ParkedInv
<1> SUFFICES ASSUME ParkedInit PROVE ParkedInv
  OBVIOUS
<1>1. 0 \in Time /\ Boot \in Time /\ 0 <= Boot
  BY ParkedAssumption DEF Time, Boot
<1>2. /\ canTask \in CanRecord /\ canTask.at = "begin" /\ canTask.phase = "idle"
      /\ app \in AppRecord /\ app.at = "probe" /\ app.now = 0 /\ ~app.on /\ app.restore = FALSE
      /\ flags = Lowered /\ alertTask = "running"
  BY <1>1 DEF ParkedInit, CanRecord, AppRecord, AppIdle
<1>3. /\ ignition \in [on: BOOLEAN, lastOn: Time] /\ ignition.lastOn = 0
      /\ flags \in FlagRecord /\ writesAllowed = FALSE /\ now = Boot /\ lastAwake = Boot
  BY <1>1 DEF ParkedInit, FlagRecord, NoIgnition, Lowered
<1>4. ParkedTyped
  BY <1>1, <1>2, <1>3 DEF ParkedTyped
<1>5. ~flags.requested /\ ~flags.quiesced /\ ~flags.alertStop /\ ~enteringSleep
  BY <1>2 DEF ParkedInit, Lowered
<1>6. StoppedByRequest /\ Suspension /\ Awake
  BY <1>2, <1>3, <1>5 DEF StoppedByRequest, Suspension, Awake
<1>7. Ages
  BY <1>2 DEF Ages, AwakeUnlessYounger
<1> QED
  BY <1>4, <1>6, <1>7 DEF ParkedInv

LEMMA InvTyped ==
    ASSUME ParkedInv
    PROVE  /\ canTask \in CanRecord /\ app \in AppRecord /\ flags \in FlagRecord
           /\ now \in Time /\ now \in Nat /\ 0 \in Time /\ lastAwake \in Time
           /\ writesAllowed \in BOOLEAN /\ alertTask \in {"running", "stopped"}
           /\ ignition \in [on: BOOLEAN, lastOn: Time]
           /\ app.now <= now /\ ignition.lastOn <= now
           /\ StoppedByRequest /\ Suspension /\ Awake /\ Ages
  BY ParkedAssumption DEF ParkedInv, ParkedTyped, Time

LEMMA TimesAreNat == \A t \in Time : t \in Nat /\ t <= t
  BY ParkedAssumption DEF Time

\* A step of the CAN task or of time: ss_app and what it owns stay.
LEMMA AppStays ==
    ASSUME ParkedInv, UNCHANGED <<policyActive, poweredOn, enteringSleep, writesAllowed, app>>,
           canTask' \in CanRecord, flags' \in FlagRecord, now' \in Time, now <= now',
           lastAwake' \in Time, ignition' \in [on: BOOLEAN, lastOn: Time], ignition'.lastOn <= now',
           alertTask' \in {"running", "stopped"}
    PROVE  ParkedTyped' /\ Awake'
<1>1. app.now <= now'
  <2>1. app.now \in Time
    BY InvTyped DEF AppRecord
  <2>2. app.now \in Nat /\ now \in Nat /\ now' \in Nat
    BY <2>1, InvTyped, TimesAreNat
  <2> QED
    BY <2>2, InvTyped
<1>2. ParkedTyped'
  BY <1>1, InvTyped DEF ParkedInv, ParkedTyped
<1>3. Awake'
  BY InvTyped DEF Awake
<1> QED
  BY <1>2, <1>3

LEMMA CanLoops ==
    ASSUME ParkedInv, BeginCanLoop \/ PollIngress \/ NoQuiesce
    PROVE  ParkedInv'
<1>0. UNCHANGED <<now, policyActive, poweredOn, enteringSleep, writesAllowed, flags, alertTask, app>>
  BY DEF BeginCanLoop, PollIngress, NoQuiesce, CanAt
<1>1. /\ canTask' \in CanRecord /\ canTask'.at # "suspended" /\ canTask.at # "suspended"
      /\ canTask'.phase = canTask.phase \/ (canTask'.phase = "idle" /\ ~flags.requested)
  <2>1. CASE BeginCanLoop
    BY <2>1, InvTyped DEF BeginCanLoop, CanAt, CanRecord
  <2>2. CASE PollIngress
    BY <2>2, InvTyped DEF PollIngress, CanAt, CanRecord
  <2>3. CASE NoQuiesce
    BY <2>3, InvTyped DEF NoQuiesce, CanAt, LoopsTo, CanRecord
  <2> QED
    BY <2>1, <2>2, <2>3
<1>2. /\ lastAwake' \in Time /\ ignition' \in [on: BOOLEAN, lastOn: Time] /\ ignition'.lastOn <= now
  <2>1. CASE UNCHANGED <<ignition, lastAwake>>
    BY <2>1, InvTyped
  <2>2. CASE ignition' = [on |-> TRUE, lastOn |-> now] /\ lastAwake' = now
    BY <2>2, InvTyped
  <2>3. CASE ignition' = [ignition EXCEPT !.on = FALSE] /\ UNCHANGED lastAwake
    BY <2>3, InvTyped
  <2> QED
    BY <2>1, <2>2, <2>3 DEF BeginCanLoop, PollIngress, NoQuiesce
<1>3. ParkedTyped' /\ Awake'
  BY <1>0, <1>1, <1>2, InvTyped, TimesAreNat, AppStays
<1>4. StoppedByRequest' /\ Suspension' /\ Ages'
  BY <1>0, <1>1, InvTyped DEF StoppedByRequest, Suspension, Ages, AwakeUnlessYounger, Waiting
<1> QED
  BY <1>3, <1>4 DEF ParkedInv

LEMMA LateSteps ==
    ASSUME ParkedInv, TimePasses \/ Forwarded \/ StopAlertTask
    PROVE  ParkedInv'
<1>0. UNCHANGED <<policyActive, poweredOn, enteringSleep, writesAllowed, flags, app, ignition, lastAwake>>
  BY DEF TimePasses, Forwarded, StopAlertTask
<1>1. now' \in Time /\ now <= now' /\ ignition.lastOn <= now'
  BY InvTyped, ParkedAssumption DEF TimePasses, Forwarded, StopAlertTask, Time
<1>2. /\ canTask' \in CanRecord /\ canTask'.phase = canTask.phase /\ canTask'.at = canTask.at
      /\ canTask'.now = canTask.now /\ canTask'.lastIngress = canTask.lastIngress
      /\ canTask.at = "suspended" => canTask' = canTask
  BY InvTyped DEF TimePasses, Forwarded, StopAlertTask, CanRecord, Suspension
<1>3. /\ alertTask' \in {"running", "stopped"}
      /\ alertTask' # alertTask => alertTask' = "stopped" /\ flags.alertStop
  BY DEF ParkedInv, ParkedTyped, TimePasses, Forwarded, StopAlertTask
<1>4. ParkedTyped' /\ Awake'
  BY <1>0, <1>1, <1>2, <1>3, InvTyped, AppStays
<1>5. StoppedByRequest' /\ Suspension' /\ Ages'
  BY <1>0, <1>2, <1>3, InvTyped DEF StoppedByRequest, Suspension, Ages, AwakeUnlessYounger, Waiting
<1> QED
  BY <1>4, <1>5 DEF ParkedInv

\* Only the first phase reports a failure, before anything is stopped.
LEMMA FirstPhase ==
    ASSUME ParkedInv, WaitForQuiet
    PROVE  ParkedInv'
<1>0. /\ UNCHANGED <<now, policyActive, poweredOn, enteringSleep, writesAllowed, app, alertTask,
                     ignition, lastAwake>>
      /\ flags.requested /\ ~flags.failed /\ Waiting
      /\ canTask.at = "quiesce" /\ canTask.phase # "alert task"
      /\ ~flags.alertStop /\ ~flags.quiesced /\ alertTask # "stopped"
  BY InvTyped DEF WaitForQuiet, CanAt, StoppedByRequest
<1> DEFINE since == IF canTask.phase = "idle" THEN canTask.now ELSE canTask.requestedAt
<1> DEFINE late == Age(canTask.now, since) >= QuiesceTimeout
<1>1. since \in Time
  BY InvTyped DEF CanRecord
<1>2. /\ flags' = CASE Quiet -> [flags EXCEPT !.alertStop = TRUE]
                    [] ~Quiet /\ late -> [flags EXCEPT !.requested = FALSE, !.failed = TRUE]
                    [] OTHER -> flags
      /\ LoopsTo(CASE Quiet -> "alert task" [] ~Quiet /\ late -> "idle" [] OTHER -> "quiet", since)
  BY DEF WaitForQuiet
<1> HIDE DEF since, late
<1>3. /\ canTask' \in CanRecord /\ flags' \in FlagRecord /\ canTask'.at = "begin"
      /\ \/ /\ canTask'.phase = "alert task" /\ flags'.requested /\ ~flags'.failed
            /\ ~flags'.quiesced
         \/ canTask'.phase = "idle" /\ ~flags'.requested /\ ~flags'.alertStop /\ ~flags'.quiesced
         \/ canTask'.phase = "quiet" /\ flags' = flags
  <2>1. CASE Quiet
    BY <1>0, <1>1, <1>2, <2>1, InvTyped DEF LoopsTo, CanRecord, FlagRecord
  <2>2. CASE ~Quiet /\ late
    BY <1>0, <1>1, <1>2, <2>2, InvTyped DEF LoopsTo, CanRecord, FlagRecord
  <2>3. CASE ~Quiet /\ ~late
    BY <1>0, <1>1, <1>2, <2>3, InvTyped DEF LoopsTo, CanRecord, FlagRecord
  <2> QED
    BY <2>1, <2>2, <2>3
<1>4. ParkedTyped' /\ Awake'
  BY <1>0, <1>3, InvTyped, TimesAreNat, AppStays
<1>5. StoppedByRequest' /\ Suspension' /\ Ages'
  BY <1>0, <1>3, InvTyped DEF StoppedByRequest, Suspension, Ages, AwakeUnlessYounger, Waiting
<1> QED
  BY <1>4, <1>5 DEF ParkedInv

LEMMA SecondPhase ==
    ASSUME ParkedInv, StopCan
    PROVE  ParkedInv'
<1>0. /\ UNCHANGED <<now, policyActive, poweredOn, enteringSleep, writesAllowed, app, alertTask,
                     ignition, lastAwake>>
      /\ flags.requested /\ ~flags.failed /\ Waiting
      /\ canTask.at = "quiesce" /\ canTask.phase = "alert task"
  BY InvTyped DEF StopCan, CanAt, StoppedByRequest
<1>1. CASE ~(alertTask = "stopped" /\ Quiet)
  <2>1. canTask' \in CanRecord /\ canTask'.at = "begin" /\ canTask'.phase = "alert task"
        /\ flags' = flags
    BY <1>0, <1>1, InvTyped, ZenonT(60) DEF StopCan, LoopsTo, CanRecord
  <2>2. ParkedTyped' /\ Awake'
    BY <1>0, <2>1, InvTyped, TimesAreNat, AppStays
  <2>3. StoppedByRequest' /\ Suspension' /\ Ages'
    BY <1>0, <2>1, InvTyped DEF StoppedByRequest, Suspension, Ages, AwakeUnlessYounger, Waiting
  <2> QED
    BY <2>2, <2>3 DEF ParkedInv
<1>2. CASE alertTask = "stopped" /\ Quiet
  <2>1. /\ canTask' \in CanRecord /\ canTask'.at = "suspended" /\ canTask'.phase = "alert task"
        /\ canTask'.now = canTask.now /\ canTask'.lastIngress = canTask.lastIngress
        /\ ~canTask'.unsent /\ flags' \in FlagRecord /\ flags'.requested /\ ~flags'.failed
    BY <1>0, <1>2, InvTyped, ZenonT(60) DEF StopCan, CanRecord, FlagRecord, Quiet
  <2>2. ParkedTyped' /\ Awake'
    BY <1>0, <1>2, <2>1, InvTyped, TimesAreNat, AppStays
  <2>3. StoppedByRequest' /\ Suspension'
    BY <1>0, <1>2, <2>1, InvTyped DEF StoppedByRequest, Suspension, Waiting
  <2>4. \/ canTask.lastIngress = 0 \/ canTask.lastIngress > canTask.now
        \/ canTask.now - canTask.lastIngress >= CanQuiet
    <3>1. canTask.lastIngress \in Time /\ canTask.now \in Time
      BY InvTyped DEF CanRecord
    <3>2. canTask.lastIngress \in Nat /\ canTask.now \in Nat
      BY <3>1, ParkedAssumption DEF Time
    <3> QED
      BY <1>2, <3>1, <3>2, AgeOfPast DEF Quiet
  <2>5. Ages'
    BY <1>0, <2>1, <2>4, InvTyped DEF Ages, AwakeUnlessYounger
  <2> QED
    BY <2>2, <2>3, <2>5 DEF ParkedInv
<1> QED
  BY <1>1, <1>2

-----------------------------------------------------------------------------
(* ss_app *)

\* A step of ss_app, but for the one that arms the handshake.
LEMMA AppMoves ==
    ASSUME ParkedInv, UNCHANGED <<now, alertTask, canTask, flags>>,
           app' \in AppRecord, app'.now <= now, lastAwake' \in Time, writesAllowed' \in BOOLEAN,
           ignition' \in [on: BOOLEAN, lastOn: Time], ignition'.lastOn <= now,
           Waiting => Waiting',
           app'.at = "sleep" => flags.quiesced,
           app'.at \in {"probe", "idle", "loop", "enter"} =>
             ~enteringSleep' /\ writesAllowed' = app'.restore,
           app'.at = "probe" => ~app'.on,
           app'.at = "enter" /\ app'.on => app'.onAt > app'.now
    PROVE  ParkedInv'
<1>1. ParkedTyped'
  BY InvTyped DEF ParkedTyped
<1>2. StoppedByRequest' /\ Suspension' /\ Awake'
  BY InvTyped DEF StoppedByRequest, Suspension, Awake, Waiting
<1>3. Ages'
  BY InvTyped DEF Ages, AwakeUnlessYounger
<1> QED
  BY <1>1, <1>2, <1>3 DEF ParkedInv

\* ss_app gives up, having waited for nothing or for a failure.
LEMMA AppRestsStep ==
    ASSUME ParkedInv, UNCHANGED <<now, alertTask, canTask, flags>>, AppRests,
           lastAwake' \in Time, writesAllowed' \in BOOLEAN, writesAllowed' = app.restore,
           ignition' \in [on: BOOLEAN, lastOn: Time], ignition'.lastOn <= now,
           ~Waiting \/ flags.failed, ~enteringSleep'
    PROVE  ParkedInv'
<1>1. /\ app' \in AppRecord /\ app'.at = "idle" /\ app'.now = 0 /\ ~app'.on
      /\ app'.restore = app.restore
  BY InvTyped DEF AppRests, AppIdle, AppRecord
<1>2. 0 <= now
  BY InvTyped
<1>3. ParkedTyped'
  BY <1>1, <1>2, InvTyped DEF ParkedTyped
<1>4. StoppedByRequest' /\ Suspension'
  BY <1>1, InvTyped DEF StoppedByRequest, Suspension, Waiting
<1>5. Awake' /\ Ages'
  BY <1>1, InvTyped DEF Awake, Ages, AwakeUnlessYounger
<1> QED
  BY <1>3, <1>4, <1>5 DEF ParkedInv

LEMMA BeforeDecision ==
    ASSUME ParkedInv,
           BootProbeEnds \/ BootProbeSkipped \/ FinishSetup \/ BeginAppLoop \/ UpdatePolicy
    PROVE  ParkedInv'
<1>0. /\ UNCHANGED <<now, alertTask, canTask, flags>>
      /\ app.at \in {"probe", "idle", "loop"} /\ ~Waiting
      /\ ~enteringSleep /\ writesAllowed = app.restore
  BY InvTyped DEF BootProbeEnds, BootProbeSkipped, FinishSetup, BeginAppLoop, UpdatePolicy, AppAt,
      Waiting, Awake
<1>1. CASE BootProbeEnds
  <2>0. app.at = "probe" /\ ~app.on
        /\ UNCHANGED <<enteringSleep, writesAllowed, ignition, lastAwake>>
    BY <1>1, InvTyped DEF BootProbeEnds, AppAt, Ages
  <2>1. CASE AppRests
    BY <1>0, <2>0, <2>1, InvTyped, AppRestsStep
  <2>2. CASE AppTo("enter")
    <3>1. /\ app' \in AppRecord /\ app'.at = "enter" /\ app'.now = app.now /\ app'.on = app.on
          /\ app'.restore = app.restore
      BY <2>2, InvTyped DEF AppTo, AppRecord
    <3> QED
      BY <1>0, <2>0, <3>1, InvTyped, AppMoves
  <2> QED
    BY <1>1, <2>1, <2>2 DEF BootProbeEnds
<1>2. CASE BootProbeSkipped
  BY <1>0, <1>2, InvTyped, AppRestsStep DEF BootProbeSkipped
<1>3. CASE FinishSetup
  <2>1. /\ app' \in AppRecord /\ app'.at = "idle" /\ app'.now = app.now /\ app'.restore = TRUE
        /\ writesAllowed' = TRUE /\ UNCHANGED <<enteringSleep, ignition, lastAwake>>
    BY <1>3, InvTyped DEF FinishSetup, AppAt, AppRecord
  <2> QED
    BY <1>0, <2>1, InvTyped, AppMoves
<1>4. CASE BeginAppLoop
  <2>1. /\ app' \in AppRecord /\ app'.at = "loop" /\ app'.now = now /\ app'.restore = app.restore
        /\ UNCHANGED <<writesAllowed, enteringSleep, ignition, lastAwake>>
    BY <1>4, InvTyped DEF BeginAppLoop, AppAt, AppRecord
  <2>2. now <= now
    BY InvTyped
  <2> QED
    BY <1>0, <2>1, <2>2, InvTyped, AppMoves
<1>5. CASE UpdatePolicy
  <2>1. /\ app' = app /\ app.at = "loop" /\ lastAwake' = now /\ writesAllowed' = writesAllowed
        /\ ~enteringSleep'
    BY <1>0, <1>5 DEF UpdatePolicy, AppAt
  <2>2. ignition' \in [on: BOOLEAN, lastOn: Time] /\ ignition'.lastOn <= now
    BY <1>5, InvTyped DEF UpdatePolicy, NoIgnition
  <2> QED
    BY <1>0, <2>1, <2>2, InvTyped, AppMoves
<1> QED
  BY <1>1, <1>2, <1>3, <1>4, <1>5

\* What was on within the delay at the time of the decision, and not within it by
\* the loop's clock, was seen after the loop had read that clock.
LEMMA DecisionAges ==
    ASSUME ParkedInv, ~RecentlyOn(app.now), RecentlyOn(now)
    PROVE  ignition.lastOn > app.now
<1>1. app.now \in Time /\ ignition.lastOn \in Time
  BY InvTyped DEF AppRecord
<1>2. app.now \in Nat /\ now \in Nat /\ ignition.lastOn \in Nat /\ SleepDelay \in Nat
  BY <1>1, InvTyped, TimesAreNat, ParkedAssumption
<1>3. Age(now, ignition.lastOn) = now - ignition.lastOn
  BY <1>1, InvTyped, AgeOfPast
<1>4. CASE ignition.lastOn <= app.now
  <2>1. Age(app.now, ignition.lastOn) = app.now - ignition.lastOn
    BY <1>1, <1>4, AgeOfPast
  <2>2. app.now - ignition.lastOn <= now - ignition.lastOn
    BY <1>2, InvTyped
  <2> QED
    BY <1>2, <1>3, <2>1, <2>2 DEF RecentlyOn
<1> QED
  BY <1>2, <1>4

LEMMA TickStep ==
    ASSUME ParkedInv, NEW busy \in BOOLEAN, Tick(busy)
    PROVE  ParkedInv'
<1>0. /\ UNCHANGED <<now, alertTask, canTask, flags, enteringSleep, ignition, writesAllowed>>
      /\ app.at = "loop" /\ ~Waiting /\ ~enteringSleep /\ writesAllowed = app.restore
  BY InvTyped DEF Tick, AppAt, Waiting, Awake
<1>1. lastAwake' \in Time
  <2>1. app.now \in Time
    BY InvTyped DEF AppRecord
  <2>2. lastAwake' \in {app.now, lastAwake}
    BY DEF Tick
  <2> QED
    BY <2>1, <2>2, InvTyped
<1>2. CASE AppRests
  BY <1>0, <1>1, <1>2, InvTyped, AppRestsStep
<1>3. CASE Decides /\ ~RecentlyOn(app.now)
  <2>1. RecentlyOn(now) \in BOOLEAN
    BY DEF RecentlyOn
  <2>2. /\ app' \in AppRecord /\ app'.at = "enter" /\ app'.on = RecentlyOn(now)
        /\ app'.onAt = ignition.lastOn /\ app'.now = app.now /\ app'.restore = app.restore
    BY <1>3, <2>1, InvTyped DEF Decides, AppRecord
  <2>3. app'.on => app'.onAt > app'.now
    BY <1>3, <2>2, DecisionAges
  <2> QED
    BY <1>0, <1>1, <2>2, <2>3, InvTyped, AppMoves
<1> QED
  BY <1>2, <1>3 DEF Tick

LEMMA AttemptSteps ==
    ASSUME ParkedInv,
           \/ DeferAtOnce \/ BeginSleep \/ EndHandshake \/ DeferAfterHandshake
           \/ CheckFailed \/ CheckQuiesced
    PROVE  ParkedInv'
<1>0. UNCHANGED <<now, alertTask, canTask, flags, ignition>>
  BY DEF DeferAtOnce, BeginSleep, EndHandshake, DeferAfterHandshake, CheckFailed, CheckQuiesced, AppAt
<1>1. CASE DeferAtOnce
  <2>1. app.at = "enter" /\ ~Waiting /\ writesAllowed' = writesAllowed /\ writesAllowed = app.restore
    BY <1>1, InvTyped DEF DeferAtOnce, AppAt, Waiting, Awake
  <2> QED
    BY <1>0, <1>1, <2>1, InvTyped, AppRestsStep DEF DeferAtOnce, Defers
<1>2. CASE BeginSleep
  <2>1. /\ app' \in AppRecord /\ app'.at = "arm" /\ app'.now = 0
        /\ writesAllowed' = FALSE /\ lastAwake' = lastAwake /\ ~Waiting /\ 0 <= now
    <3>1. app' = [at |-> "arm", now |-> 0, on |-> FALSE, onAt |-> 0, startedAt |-> 0,
                  restore |-> writesAllowed]
      BY <1>2 DEF BeginSleep, AppIdle
    <3>2. app' \in AppRecord
      BY <3>1, InvTyped DEF AppRecord
    <3>3. app'.at = "arm" /\ app'.now = 0 /\ 0 <= now
      BY <3>1, InvTyped
    <3>4. writesAllowed' = FALSE /\ lastAwake' = lastAwake /\ ~Waiting
      BY <1>2 DEF BeginSleep, AppAt, Waiting
    <3> QED
      BY <3>2, <3>3, <3>4
  <2> QED
    BY <1>0, <2>1, InvTyped, AppMoves
<1>3. CASE EndHandshake \/ CheckFailed \/ CheckQuiesced
  <2>1. /\ app' \in AppRecord /\ app'.now = app.now
        /\ app'.at \in {"check failed", "check quiesced", "sleep", "restart"}
        /\ app'.at = "sleep" => flags.quiesced
        /\ UNCHANGED <<lastAwake, writesAllowed>>
    BY <1>3, InvTyped DEF EndHandshake, CheckFailed, CheckQuiesced, AppAt, AppTo, AppRecord
  <2> QED
    BY <1>0, <2>1, InvTyped, AppMoves DEF Waiting
<1>4. CASE DeferAfterHandshake
  <2>1. app.restore \in BOOLEAN
    BY InvTyped DEF AppRecord
  <2> QED
    BY <1>0, <1>4, <2>1, InvTyped, AppRestsStep DEF DeferAfterHandshake, Defers
<1> QED
  BY <1>1, <1>2, <1>3, <1>4

LEMMA ArmStep ==
    ASSUME ParkedInv, ArmHandshake
    PROVE  ParkedInv'
<1>1. /\ UNCHANGED <<now, enteringSleep, ignition, lastAwake, writesAllowed, canTask>>
      /\ alertTask' = "running" /\ ~flags.requested
      /\ canTask.phase # "alert task" /\ canTask.at # "suspended"
  BY InvTyped DEF ArmHandshake, StoppedByRequest, Waiting
<1>2. /\ app' \in AppRecord /\ app'.at = "handshake" /\ app'.now = app.now
  BY InvTyped DEF ArmHandshake, AppRecord
<1>3. /\ flags' \in FlagRecord /\ flags'.requested /\ ~flags'.failed /\ ~flags'.quiesced
      /\ ~flags'.alertStop
  BY DEF ArmHandshake, Lowered, FlagRecord
<1>4. ParkedTyped'
  BY <1>1, <1>2, <1>3, InvTyped DEF ParkedTyped
<1>5. StoppedByRequest' /\ Suspension' /\ Awake' /\ Ages'
  BY <1>1, <1>2, <1>3, InvTyped DEF StoppedByRequest, Suspension, Awake, Ages,
      AwakeUnlessYounger, Waiting
<1> QED
  BY <1>4, <1>5 DEF ParkedInv

LEMMA ParkedNextInv == ParkedInv /\ [ParkedNext]_parkedVars => ParkedInv'
<1> SUFFICES ASSUME ParkedInv, [ParkedNext]_parkedVars PROVE ParkedInv'
  OBVIOUS
<1>1. CASE UNCHANGED parkedVars
  BY <1>1, ZenonT(60) DEF ParkedInv, ParkedTyped, StoppedByRequest, Suspension, Awake, Ages,
      AwakeUnlessYounger, Waiting, parkedVars
<1> QED
  BY <1>1, LateSteps, CanLoops, FirstPhase, SecondPhase, BeforeDecision, TickStep,
      AttemptSteps, ArmStep DEF ParkedNext, CanSide, AppSide

\* The device sleeps only with both CAN tasks stopped and nothing left to send; a
\* sleep that is deferred leaves CAN running; and what was seen of ignition and
\* traffic within the delays can have been overlooked only because it is younger
\* than the clock the deciding loop had read.
THEOREM ParkedPowerIsSafe == ParkedSpec => []ParkedSafe
<1>1. ParkedInv => ParkedSafe
  <2> SUFFICES ASSUME ParkedInv PROVE ParkedSafe
    OBVIOUS
  <2>1. AwakeUnlessYounger
    BY InvTyped DEF Ages
  <2>2. StopsTogether
    BY InvTyped DEF StopsTogether, StoppedByRequest, Suspension, Awake, Waiting
  <2> QED
    BY <2>1, <2>2 DEF ParkedSafe
<1> QED
  BY <1>1, ParkedInitInv, ParkedNextInv, PTL DEF ParkedSpec

SwitchesTyped == policyActive \in BOOLEAN /\ poweredOn \in BOOLEAN /\ enteringSleep \in BOOLEAN

LEMMA SwitchesStay == SwitchesTyped /\ [ParkedNext]_parkedVars => SwitchesTyped'
<1> SUFFICES ASSUME SwitchesTyped, [ParkedNext]_parkedVars PROVE SwitchesTyped'
  OBVIOUS
<1>1. CASE UpdatePolicy
  BY <1>1 DEF UpdatePolicy, AppAt, SwitchesTyped
<1>2. CASE DeferAtOnce \/ DeferAfterHandshake \/ BeginSleep
  BY <1>2 DEF DeferAtOnce, DeferAfterHandshake, BeginSleep, Defers, AppAt, SwitchesTyped
<1>3. CASE TimePasses \/ CanSide \/ UNCHANGED parkedVars
  BY <1>3 DEF TimePasses, CanSide, CanAt, BeginCanLoop, PollIngress, Forwarded, NoQuiesce,
     WaitForQuiet, StopCan, StopAlertTask, parkedVars, SwitchesTyped
<1>4. CASE \/ BootProbeEnds \/ BootProbeSkipped \/ FinishSetup \/ BeginAppLoop
           \/ (\E busy \in BOOLEAN : Tick(busy))
           \/ ArmHandshake \/ EndHandshake \/ CheckFailed \/ CheckQuiesced
  BY <1>4 DEF BootProbeEnds, BootProbeSkipped, FinishSetup, BeginAppLoop, Tick, ArmHandshake,
     EndHandshake, CheckFailed, CheckQuiesced, AppAt, SwitchesTyped
<1> QED
  BY <1>1, <1>2, <1>3, <1>4 DEF ParkedNext, AppSide

\* The handshake keeps to its types: above all its clocks.
THEOREM ParkedTypes == ParkedSpec => []ParkedTypeOK
<1>1. ParkedInit => SwitchesTyped
  BY DEF ParkedInit, SwitchesTyped
<1>2. ParkedInv /\ SwitchesTyped => ParkedTypeOK
  BY DEF ParkedInv, ParkedTyped, SwitchesTyped, ParkedTypeOK, CanRecord, AppRecord, FlagRecord
<1> QED
  BY <1>1, <1>2, SwitchesStay, ParkedInitInv, ParkedNextInv, PTL DEF ParkedSpec
-----------------------------------------------------------------------------
(* The eight together. A step of the composition is a step of the one looked   *)
(* at, so each keeps what its own specification promises.                      *)

LEMMA EachActsAlone ==
    ASSUME [Next]_vars
    PROVE  /\ [StatsNext]_statsVars /\ [ResultNext]_resultVars
           /\ [DecodeNext]_decodeVars /\ [ObservationNext]_observationVars
           /\ [FrameCacheNext]_frameCacheVars /\ [TraceNext]_traceVars
           /\ [ReplayNext]_replayVars /\ [ParkedNext]_parkedVars
  BY DEF Next, vars, Statistics, Results, Signals, Observation, Frames, Trace, Replays, Parked

LEMMA EachBehaves ==
    Spec => /\ StatsSpec /\ ResultSpec /\ DecodeSpec /\ ObservationSpec
            /\ FrameCacheSpec /\ TraceSpec /\ ReplaySpec /\ ParkedSpec
<1>1. Init => /\ StatsInit /\ ResultInit /\ DecodeInit /\ ObservationInit
              /\ FrameCacheInit /\ TraceInit /\ ReplayInit /\ ParkedInit
  BY DEF Init
<1>2. [Next]_vars => /\ [StatsNext]_statsVars /\ [ResultNext]_resultVars
                     /\ [DecodeNext]_decodeVars /\ [ObservationNext]_observationVars
                     /\ [FrameCacheNext]_frameCacheVars /\ [TraceNext]_traceVars
                     /\ [ReplayNext]_replayVars /\ [ParkedNext]_parkedVars
  BY EachActsAlone
<1> QED
  BY <1>1, <1>2, PTL DEF Spec, StatsSpec, ResultSpec, DecodeSpec, ObservationSpec, FrameCacheSpec,
                         TraceSpec, ReplaySpec, ParkedSpec


\* Every variable of the eight keeps to its type, in any interleaving.
THEOREM CrossCoreTypes == Spec => []CrossCoreTypeOK
<1>1. Spec => /\ []StatsTypeOK /\ []ResultTypeOK /\ []DecodeTypeOK /\ []ObservationTypeOK
              /\ [](FrameCacheTypeOK /\ EntriesAgree /\ CopiesAreWhole)
              /\ [](TraceTypeOK /\ TraceAccounted) /\ [](ReplayTypeOK /\ ReplayPaced)
              /\ []ParkedTypeOK
  BY EachBehaves, StatsTypes, ResultTypes, DecodeTypes, ObservationTypes, FrameCopiesAreWhole,
     EveryTraceEventIsAccounted, ReplayKeepsPace, ParkedTypes
<1>2. /\ StatsTypeOK /\ ResultTypeOK /\ DecodeTypeOK /\ ObservationTypeOK /\ FrameCacheTypeOK
      /\ TraceTypeOK /\ ReplayTypeOK /\ ParkedTypeOK
      => CrossCoreTypeOK
  BY DEF CrossCoreTypeOK
<1> QED
  BY <1>1, <1>2, PTL

\* What a reader gets from the statistics, the result, the signals or the frames
\* is what one writer put there at one time.
THEOREM CrossCoreReadsAreWhole == Spec => []ReadsAreWhole
<1>1. Spec => /\ []StatsAreWhole /\ []ResultsAreWhole /\ []SignalReadsAreWhole
              /\ [](FrameCacheTypeOK /\ EntriesAgree /\ CopiesAreWhole)
  BY EachBehaves, StatsReadWhole, ResultCopiesAreWhole, SignalsReadWhole, FrameCopiesAreWhole
<1>2. /\ StatsAreWhole /\ ResultsAreWhole /\ SignalReadsAreWhole /\ CopiesAreWhole /\ EntriesAgree
      => ReadsAreWhole
  BY DEF ReadsAreWhole
<1> QED
  BY <1>1, <1>2, PTL

\* And with them go the other promises of the parts.
THEOREM CrossCorePromises ==
    Spec => [](DecodeMatchesDatabase /\ ObservationIsStable /\ TraceAccounted /\ ReplayPaced /\ ParkedSafe)
<1>1. Spec => /\ []DecodeMatchesDatabase /\ []ObservationIsStable
              /\ [](TraceTypeOK /\ TraceAccounted) /\ [](ReplayTypeOK /\ ReplayPaced) /\ []ParkedSafe
  BY EachBehaves, DecodingMatchesDatabase, ObservationTablesAreStable, EveryTraceEventIsAccounted,
     ReplayKeepsPace, ParkedPowerIsSafe
<1> QED
  BY <1>1, PTL
=============================================================================
