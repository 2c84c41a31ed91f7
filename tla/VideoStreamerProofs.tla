------------------------ MODULE VideoStreamerProofs -------------------------
(***************************************************************************)
(* Theorems about VideoStreamer, for any sizes of chunks, packets, frames  *)
(* and ranges of sequence ids and timestamps.                              *)
(***************************************************************************)
EXTENDS VideoStreamer, SequenceTheorems, FiniteSetTheorems, WellFoundedInduction, TLAPS

-----------------------------------------------------------------------------
(* Remainders.                                                             *)
LEMMA DivMod ==
  ASSUME NEW a \in Int, NEW m \in Nat \ {0}
  PROVE  /\ a % m \in 0 .. m - 1 /\ a \div m \in Int
         /\ a = (a \div m) * m + (a % m)
  OBVIOUS

LEMMA ModUnique ==
  ASSUME NEW m \in Nat \ {0}, NEW k \in Int, NEW r \in 0 .. m - 1
  PROVE  (k * m + r) % m = r
  OBVIOUS

LEMMA ModSmall ==
  ASSUME NEW m \in Nat \ {0}, NEW r \in 0 .. m - 1
  PROVE  r % m = r /\ (r - m) % m = r
<1>1. r - m = (-1) * m + r
  OBVIOUS
<1> QED BY <1>1, ModUnique

\* A remainder may be taken before a difference and before a sum.
LEMMA ModDiff ==
  ASSUME NEW m \in Nat \ {0}, NEW a \in Int, NEW b \in Int
  PROVE  ((a % m) - (b % m)) % m = (a - b) % m
<1> DEFINE p == a \div m
           q == b \div m
           s == (a - b) \div m
           t == (a - b) % m
           x == a % m
           y == b % m
<1>1. p \in Int /\ x \in Int /\ a = p * m + x
  BY DivMod
<1>2. q \in Int /\ y \in Int /\ b = q * m + y
  BY DivMod
<1>3. s \in Int /\ t \in 0 .. m - 1 /\ a - b = s * m + t
  BY DivMod
<1> HIDE DEF p, q, s, t, x, y
<1>4. (s - p + q) * m = s * m - p * m + q * m
  BY <1>1, <1>2, <1>3
<1>5. x - y = (s - p + q) * m + t
  BY <1>1, <1>2, <1>3, <1>4
<1>6. (x - y) % m = t
  BY <1>1, <1>2, <1>3, <1>5, ModUnique
<1> QED BY <1>6 DEF x, y, t

LEMMA ModSum ==
  ASSUME NEW m \in Nat \ {0}, NEW a \in Int, NEW b \in Int
  PROVE  ((a % m) + b) % m = (a + b) % m
<1> DEFINE x == a % m
           y == 0 - b
<1>1. x \in 0 .. m - 1 /\ x \in Int /\ y \in Int
  BY DivMod
<1> HIDE DEF x
<1>2. x % m = x
  BY <1>1, ModSmall
<1>3. ((x % m) - (y % m)) % m = (x - y) % m /\ ((a % m) - (y % m)) % m = (a - y) % m
  BY <1>1, ModDiff
<1>4. x - y = x + b /\ a - y = a + b
  BY <1>1
<1> QED BY <1>2, <1>3, <1>4 DEF x

\* What is congruent stays so in a sum and in a difference.
LEMMA ModCong ==
  ASSUME NEW m \in Nat \ {0}, NEW a \in Int, NEW b \in Int, NEW c \in Int,
         a % m = b % m
  PROVE  (c - a) % m = (c - b) % m /\ (a + c) % m = (b + c) % m
<1>1. ((c % m) - (a % m)) % m = (c - a) % m /\ ((c % m) - (b % m)) % m = (c - b) % m
  BY ModDiff
<1>2. ((a % m) + c) % m = (a + c) % m /\ ((b % m) + c) % m = (b + c) % m
  BY ModSum
<1> QED BY <1>1, <1>2, Zenon

-----------------------------------------------------------------------------
(* The pace of the ticks.  The streamer never is ahead of the frames that  *)
(* are due, and is behind by less than half the range of the counter: only *)
(* then is the signed difference of two timestamps their real distance.    *)
Half == TimestampMod \div 2

LEMMA HalfFacts ==
  /\ TimestampMod \in Nat \ {0, 1} /\ Half \in Nat /\ Half * 2 <= TimestampMod
  /\ MaxBehind \in Nat /\ MaxBehind < Half
  /\ Period \in Nat /\ MinDelay \in Nat /\ 0 < MinDelay /\ MinDelay <= Period /\ Period < Half
<1>1. /\ TimestampMod \in Nat \ {0, 1}
      /\ Half \in Nat /\ Half * 2 <= TimestampMod
  BY StreamerAssumption DEF Half
<1>2. MaxBehind \in 0 .. Half - 1 /\ Period \in Nat \ {0} /\ MinDelay \in Nat \ {0}
      /\ MinDelay <= Period /\ Period < Half
  BY StreamerAssumption DEF Half
<1> QED BY <1>1, <1>2

\* Near 0 the signed difference is the difference itself.
LEMMA SignedNear ==
  ASSUME NEW d \in Int, NEW q \in Int, - Half < q, q < Half,
         d % TimestampMod = q % TimestampMod
  PROVE  Signed(d) = q
<1> DEFINE m == TimestampMod
<1>1. m \in Nat \ {0} /\ Half \in Nat /\ Half * 2 <= m
  BY HalfFacts
<1>2. Signed(d) = IF (d % m) < Half THEN d % m ELSE (d % m) - m
  BY DEF Signed, Half
<1>3. CASE q >= 0
  <2>1. q \in 0 .. m - 1
    BY <1>1, <1>3
  <2>2. d % m = q
    BY <1>1, <2>1, ModSmall
  <2> QED BY <1>2, <2>2
<1>4. CASE q < 0
  <2>1. q + m \in 0 .. m - 1 /\ q = (q + m) - m
    BY <1>1, <1>4
  <2>2. d % m = q + m
    BY <1>1, <2>1, ModSmall
  <2>3. ~(q + m < Half) /\ (q + m) - m = q
    BY <1>1
  <2> QED BY <1>2, <2>2, <2>3
<1> QED BY <1>3, <1>4

Behind == Signed(now - next_timestamp)

PaceInv ==
    /\ now \in 0 .. TimestampMod - 1 /\ next_timestamp \in 0 .. TimestampMod - 1
    /\ Behind \in 0 .. MaxBehind
    /\ delay \in MinDelay .. Period

LEMMA PaceInit == ASSUME Init PROVE PaceInv
<1>1. now = 0 /\ next_timestamp = 0 /\ delay = MinDelay
  BY DEF Init
<1>2. (0 - 0) % TimestampMod = 0 % TimestampMod /\ - Half < 0 /\ 0 < Half
  BY HalfFacts
<1>3. Behind = 0
  BY <1>1, <1>2, SignedNear DEF Behind
<1> QED BY <1>1, <1>3, HalfFacts DEF PaceInv

LEMMA PaceTick ==
  ASSUME PaceInv, NEW busy \in BusyTimes, TimerFires(busy)
  PROVE  PaceInv'
<1> DEFINE m == TimestampMod
           b == Behind
           due == next_timestamp + Period
           end == now + busy
<1>1. /\ m \in Nat \ {0} /\ busy \in Nat
      /\ now \in 0 .. m - 1 /\ next_timestamp \in 0 .. m - 1
      /\ b \in 0 .. MaxBehind
      /\ due \in Int /\ end \in Int
  BY HalfFacts, StreamerAssumption DEF PaceInv
<1>2. /\ next_timestamp' = due % m
      /\ delay' = DeltaNext(due % m, end % m)
      /\ b + busy + delay' - Period <= MaxBehind
      /\ now' = (end + delay') % m
  BY DEF TimerFires, Behind
<1> DEFINE delta == Signed((due % m) - (end % m))
<1>3. delay' = IF delta < MinDelay THEN MinDelay ELSE delta
  BY <1>2 DEF DeltaNext
<1>4. delta \in Int
  <2>1. due % m \in Int /\ end % m \in Int
    BY <1>1, DivMod
  <2> DEFINE d == (due % m) - (end % m)
  <2>2. d \in Int
    BY <2>1
  <2> HIDE DEF d
  <2>3. d % m \in Int
    BY <1>1, <2>2, DivMod
  <2>4. Signed(d) \in Int
    BY <1>1, <2>3 DEF Signed
  <2> QED BY <2>4 DEF d
<1> HIDE DEF delta
<1>5. delay' \in Int /\ delay' >= MinDelay /\ delay' >= delta
  BY <1>3, <1>4, HalfFacts
<1>6. (now - next_timestamp) % m = b % m
  <2> DEFINE d == now - next_timestamp
             r == d % m
  <2>1. d \in Int /\ r \in 0 .. m - 1
    BY <1>1, DivMod
  <2>2. b = r \/ b = r - m
    BY DEF Behind, Signed
  <2> HIDE DEF r, b
  <2>3. b % m = r
    BY <1>1, <2>1, <2>2, ModSmall
  <2> QED BY <2>3 DEF r
<1> HIDE DEF b
<1> DEFINE d == now - next_timestamp
<1>7. d \in Int /\ b \in Int /\ d % m = b % m
  BY <1>1, <1>6, HalfFacts
\* The distance to the frame that is due next ...
<1>8. delta = Period - b - busy
  <2> DEFINE q == Period - busy - b
  <2>1. q \in Int /\ - Half < q /\ q < Half
    BY <1>1, <1>2, <1>5, HalfFacts
  <2> DEFINE c == Period - busy
  <2>2. due - end = c - d /\ c \in Int
    BY <1>1, HalfFacts
  <2> HIDE DEF c, d
  <2>3. (c - d) % m = (c - b) % m
    <3>1. m \in Nat \ {0} /\ d \in Int /\ b \in Int /\ c \in Int /\ d % m = b % m
      BY <1>1, <1>7, <2>2
    <3> HIDE DEF m
    <3> QED BY ONLY <3>1, ModCong
  <2>4. (due - end) % m = q % m
    BY <2>2, <2>3 DEF c
  <2>5. ((due % m) - (end % m)) % m = q % m
    BY <1>1, <2>4, ModDiff
  <2>6. (due % m) - (end % m) \in Int
    <3>1. due % m \in Int /\ end % m \in Int
      BY <1>1, DivMod
    <3> QED BY <3>1
  <2>7. delta = q
    BY <2>1, <2>5, <2>6, SignedNear DEF delta
  <2> QED BY <1>1, <2>7, HalfFacts
<1>9. delay' \in MinDelay .. Period
  BY <1>1, <1>3, <1>8, HalfFacts
\* ... and how far the ticks are behind when the timer expires.
<1>10. Behind' \in 0 .. MaxBehind
  <2> DEFINE q == b + (busy + delay' - Period)
             over == end + delay'
             c == busy + delay' - Period
  <2>1. q \in 0 .. MaxBehind /\ - Half < q /\ q < Half
    BY <1>1, <1>2, <1>5, <1>8, HalfFacts
  <2>2. over \in Int /\ over - due = d + c /\ c \in Int
    BY <1>1, <1>5, HalfFacts
  <2> HIDE DEF c, d
  <2>3. (d + c) % m = (b + c) % m
    <3>1. m \in Nat \ {0} /\ d \in Int /\ b \in Int /\ c \in Int /\ d % m = b % m
      BY <1>1, <1>7, <2>2
    <3> HIDE DEF m
    <3> QED BY ONLY <3>1, ModCong
  <2>4. (over - due) % m = q % m
    BY <2>2, <2>3 DEF c
  <2>5. now' = over % m /\ next_timestamp' = due % m
    BY <1>2
  <2> HIDE DEF over
  <2>6. (now' - next_timestamp') % m = q % m
    BY <1>1, <2>2, <2>4, <2>5, ModDiff
  <2>7. now' \in Int /\ next_timestamp' \in Int
    BY <1>1, <2>2, <2>5, DivMod
  <2>8. now' - next_timestamp' \in Int /\ q \in Int
    BY <2>1, <2>7
  <2>9. Signed(now' - next_timestamp') = q
    BY <2>1, <2>6, <2>8, SignedNear
  <2> QED BY <2>1, <2>9 DEF Behind
<1>11. now' \in 0 .. m - 1 /\ next_timestamp' \in 0 .. m - 1
  <2>1. end + delay' \in Int
    BY <1>1, <1>5
  <2> QED BY <1>1, <1>2, <2>1, DivMod
<1> QED BY <1>9, <1>10, <1>11 DEF PaceInv

LEMMA PaceNext == ASSUME PaceInv, [Next]_vars PROVE PaceInv'
<1>1. CASE Tick
  <2>1. PICK busy \in BusyTimes : TimerFires(busy)
    BY <1>1 DEF Tick, TickChunks, TickFrame, TickNothing
  <2> QED BY <2>1, PaceTick
<1>2. CASE UNCHANGED timeVars
  BY <1>2 DEF timeVars, PaceInv, Behind
<1>3. [Next]_vars => Tick \/ UNCHANGED timeVars
  BY DEF Next, PushFrame, PushH264Chunks, SetRate, ResyncStream, InitEvents, ResyncEvent,
         vars, timeVars
<1> QED BY <1>1, <1>2, <1>3

\* The timer is never armed with less than MinDelay or more than a period
\* (video-streamer.cpp:246-251), wherever the timestamps have wrapped round.
THEOREM AlwaysPaceKept == Spec => []PaceKept
<1>1. PaceInv => PaceKept
  BY DEF PaceInv, PaceKept
<1> QED BY <1>1, PaceInit, PaceNext, PTL DEF Spec

-----------------------------------------------------------------------------
(* Induction over positions, for a set instead of a predicate.             *)
LEMMA PositionInduction ==
  ASSUME NEW n \in Nat, NEW D,
         n > 0 => 1 \in D,
         \A k \in 1 .. n - 1 : k \in D => k + 1 \in D
  PROVE  \A k \in 1 .. n : k \in D
<1> DEFINE T == {k \in 1 .. n : k \notin D}
<1>1. SUFFICES ASSUME T # {} PROVE FALSE
  OBVIOUS
<1>2. T \subseteq Nat
  OBVIOUS
<1> HIDE DEF T
<1>3. PICK x \in T : \A y \in T : ~(<<y, x>> \in OpToRel(<, Nat))
  BY <1>1, <1>2, NatLessThanWellFounded, WFMin
<1>4. \A y \in T : ~(y < x)
  BY <1>2, <1>3 DEF OpToRel
<1>5. x \in 1 .. n /\ x \notin D
  BY <1>3 DEF T
<1>6. x # 1
  BY <1>5
<1>7. x - 1 \in 1 .. n - 1 /\ x - 1 \in 1 .. n /\ (x - 1) + 1 = x /\ x - 1 < x
  BY <1>5, <1>6
<1>8. x - 1 \in D
  BY <1>4, <1>7 DEF T
<1> QED BY <1>5, <1>7, <1>8

\* Sequence ids count up modulo their range.
LEMMA SeqIdAfterFacts ==
  ASSUME NEW s \in 0 .. VstrmIds - 1
  PROVE  SeqIdAfter(s) = (s + 1) % VstrmIds
<1>1. VstrmIds \in Nat \ {0}
  BY PacketSizesAssumption
<1>2. CASE s + 1 >= VstrmIds
  <2>1. s + 1 = VstrmIds
    BY <1>1, <1>2
  <2>2. 0 \in 0 .. VstrmIds - 1 /\ VstrmIds = 1 * VstrmIds + 0
    BY <1>1
  <2>3. VstrmIds % VstrmIds = 0
    BY <1>1, <2>2, ModUnique
  <2> QED BY <1>2, <2>1, <2>3 DEF SeqIdAfter
<1>3. CASE ~(s + 1 >= VstrmIds)
  <2>1. s + 1 \in 0 .. VstrmIds - 1
    BY <1>1, <1>3
  <2> QED BY <1>1, <1>3, <2>1, ModSmall DEF SeqIdAfter
<1> QED BY <1>2, <1>3

LEMMA SeqIdsFacts ==
  ASSUME NEW s \in 0 .. VstrmIds - 1, NEW n \in Nat
  PROVE  \A k \in 1 .. n + 1 : SeqIdsFrom(s, n)[k] = (s + (k - 1)) % VstrmIds
<1> DEFINE V == VstrmIds
           Ids(f) == [k \in 1 .. n + 1 |-> IF k = 1 THEN s ELSE SeqIdAfter(f[k - 1])]
           g == [k \in 1 .. n + 1 |-> (s + (k - 1)) % V]
           f == SeqIdsFrom(s, n)
<1>1. V \in Nat \ {0}
  BY PacketSizesAssumption
<1>2. \A k \in 1 .. n + 1 : g[k] = (s + (k - 1)) % V /\ g[k] \in 0 .. V - 1
  BY <1>1, DivMod
<1>3. g[1] = s
  BY <1>1, <1>2, ModSmall
<1>4. ASSUME NEW k \in 1 .. n PROVE SeqIdAfter(g[k]) = g[k + 1]
  <2>1. k \in 1 .. n + 1 /\ k + 1 \in 1 .. n + 1
    OBVIOUS
  <2>2. SeqIdAfter(g[k]) = (g[k] + 1) % V
    BY <1>2, <2>1, SeqIdAfterFacts
  <2> DEFINE a == s + (k - 1)
  <2>3. a \in Int /\ 1 \in Int /\ a + 1 = s + ((k + 1) - 1)
    OBVIOUS
  <2> HIDE DEF a, V
  <2>4. ((a % V) + 1) % V = (a + 1) % V
    BY <1>1, <2>3, ModSum, Zenon
  <2> QED BY <1>2, <2>1, <2>2, <2>3, <2>4 DEF a
<1>5. g = Ids(g)
  <2> SUFFICES ASSUME NEW k \in 1 .. n + 1
               PROVE  g[k] = IF k = 1 THEN s ELSE SeqIdAfter(g[k - 1])
    OBVIOUS
  <2>1. CASE k = 1
    BY <1>3, <2>1
  <2>2. CASE k # 1
    <3>1. k - 1 \in 1 .. n /\ (k - 1) + 1 = k
      BY <2>2
    <3> QED BY <1>4, <2>2, <3>1
  <2> QED BY <2>1, <2>2
<1>6. f = Ids(f)
  <2>1. f = CHOOSE h : h = Ids(h)
    BY DEF SeqIdsFrom
  <2> HIDE DEF f, g, Ids
  <2> QED BY <1>5, <2>1
<1> HIDE DEF f, g
<1>7. f[1] = s
  BY <1>6
<1>8. \A k \in 1 .. n : f[k + 1] = SeqIdAfter(f[k])
  <2> SUFFICES ASSUME NEW k \in 1 .. n PROVE f[k + 1] = SeqIdAfter(f[k])
    OBVIOUS
  <2>1. k + 1 \in 1 .. n + 1 /\ k + 1 # 1 /\ (k + 1) - 1 = k
    OBVIOUS
  <2> QED BY <1>6, <2>1
<1> DEFINE D == {k \in 1 .. n + 1 : f[k] = g[k]}
<1>9. 1 \in D
  BY <1>3, <1>7
<1>10. \A k \in 1 .. (n + 1) - 1 : k \in D => k + 1 \in D
  BY <1>4, <1>8
<1> HIDE DEF D
<1>11. \A k \in 1 .. n + 1 : k \in D
  BY <1>9, <1>10, PositionInduction
<1> QED BY <1>2, <1>11 DEF D, f

-----------------------------------------------------------------------------
(* FlattenSeq appends one chunk after the other.                           *)
Appending(f, c, m) ==
    f[1] = c[1] /\ \A i \in 1 .. m - 1 : f[i + 1] = f[i] \o c[i + 1]

LEMMA AppendingExists ==
  ASSUME NEW S, NEW n \in Nat \ {0}, NEW c \in [1 .. n -> Seq(S)]
  PROVE  \E f \in [1 .. n -> Seq(S)] : Appending(f, c, n)
<1> DEFINE D == {m \in 1 .. n : \E f \in [1 .. m -> Seq(S)] : Appending(f, c, m)}
<1>1. 1 \in D
  <2> DEFINE f == [i \in 1 .. 1 |-> c[i]]
  <2>1. f \in [1 .. 1 -> Seq(S)]
    OBVIOUS
  <2>2. Appending(f, c, 1)
    BY DEF Appending
  <2> QED BY <2>1, <2>2
<1>2. ASSUME NEW m \in 1 .. n - 1, m \in D PROVE m + 1 \in D
  <2>1. PICK f \in [1 .. m -> Seq(S)] : Appending(f, c, m)
    BY <1>2
  <2> DEFINE g == [i \in 1 .. m + 1 |-> IF i <= m THEN f[i] ELSE f[m] \o c[m + 1]]
  <2>2. f[m] \in Seq(S) /\ c[m + 1] \in Seq(S)
    OBVIOUS
  <2>3. f[m] \o c[m + 1] \in Seq(S)
    BY <2>2, ConcatProperties
  <2>4. g \in [1 .. m + 1 -> Seq(S)]
    BY <2>3
  <2>5. \A i \in 1 .. m : g[i] = f[i]
    OBVIOUS
  <2>6. g[m + 1] = f[m] \o c[m + 1]
    OBVIOUS
  <2> HIDE DEF g
  <2>7. Appending(g, c, m + 1)
    <3>1. g[1] = c[1]
      BY <2>1, <2>5 DEF Appending
    <3>2. ASSUME NEW i \in 1 .. (m + 1) - 1 PROVE g[i + 1] = g[i] \o c[i + 1]
      <4>1. CASE i = m
        <5>1. g[m] = f[m]
          BY <2>5
        <5> QED BY <2>6, <4>1, <5>1
      <4>2. CASE i # m
        <5>1. i \in 1 .. m - 1 /\ i \in 1 .. m /\ i + 1 \in 1 .. m
          BY <4>2
        <5> QED BY <2>1, <2>5, <5>1 DEF Appending
      <4> QED BY <4>1, <4>2
    <3> QED BY <3>1, <3>2 DEF Appending
  <2>8. m + 1 \in 1 .. n
    OBVIOUS
  <2> QED BY <2>4, <2>7, <2>8
<1> HIDE DEF D
<1>3. \A m \in 1 .. n : m \in D
  BY <1>1, <1>2, PositionInduction
<1>4. n \in D
  BY <1>3
<1> QED BY <1>4 DEF D

LEMMA FlattenFacts ==
  ASSUME NEW S, NEW n \in Nat \ {0}, NEW c \in [1 .. n -> Seq(S)]
  PROVE  \E f \in [1 .. n -> Seq(S)] : Appending(f, c, n) /\ FlattenSeq(c) = f[n]
<1> DEFINE Rec(f) == [i \in 1 .. n |-> IF i = 1 THEN c[i] ELSE f[i - 1] \o c[i]]
           h == CHOOSE f : f = Rec(f)
<1>1. c \in Seq(Seq(S)) /\ Len(c) = n
  <2>1. c \in Seq(Seq(S))
    BY SeqDef
  <2> QED BY <2>1, LenProperties
<1>2. FlattenSeq(c) = h[n]
  BY <1>1 DEF FlattenSeq
<1>3. PICK f \in [1 .. n -> Seq(S)] : Appending(f, c, n)
  BY AppendingExists
<1>4. f = Rec(f)
  <2> SUFFICES ASSUME NEW i \in 1 .. n
               PROVE  f[i] = IF i = 1 THEN c[i] ELSE f[i - 1] \o c[i]
    OBVIOUS
  <2>1. CASE i = 1
    BY <1>3, <2>1 DEF Appending
  <2>2. CASE i # 1
    <3>1. i - 1 \in 1 .. n - 1 /\ (i - 1) + 1 = i
      BY <2>2
    <3> QED BY <1>3, <2>2, <3>1 DEF Appending
  <2> QED BY <2>1, <2>2
<1>5. h = Rec(h)
  <2> HIDE DEF Rec
  <2> QED BY <1>4
<1> HIDE DEF h
<1>6. Appending(h, c, n)
  <2>1. h[1] = c[1]
    BY <1>5
  <2>2. ASSUME NEW i \in 1 .. n - 1 PROVE h[i + 1] = h[i] \o c[i + 1]
    <3>1. i + 1 \in 1 .. n /\ i + 1 # 1 /\ (i + 1) - 1 = i
      OBVIOUS
    <3> QED BY <1>5, <3>1
  <2> QED BY <2>1, <2>2 DEF Appending
<1> DEFINE D == {i \in 1 .. n : h[i] \in Seq(S)}
<1>7. 1 \in D
  BY <1>6 DEF Appending
<1>8. ASSUME NEW i \in 1 .. n - 1, i \in D PROVE i + 1 \in D
  <2>1. h[i] \in Seq(S) /\ c[i + 1] \in Seq(S) /\ i + 1 \in 1 .. n
    BY <1>8
  <2>2. h[i + 1] = h[i] \o c[i + 1]
    BY <1>6 DEF Appending
  <2>3. h[i] \o c[i + 1] \in Seq(S)
    BY <2>1, ConcatProperties
  <2> QED BY <2>1, <2>2, <2>3
<1> HIDE DEF D
<1>9. \A i \in 1 .. n : i \in D
  BY <1>7, <1>8, PositionInduction
<1>10. h \in [1 .. n -> Seq(S)]
  BY <1>5, <1>9 DEF D
<1> QED BY <1>2, <1>6, <1>10

-----------------------------------------------------------------------------
(* The packets of a frame.                                                 *)
LEMMA PacketsOfFacts == ASSUME NEW size \in Nat PROVE PacketsOf(size) \in Nat \ {0}
<1> DEFINE m == MaxPayload
           a == size + m - 1
<1>1. m \in Nat \ {0}
  BY PacketSizesAssumption
<1>2. CASE size = 0
  BY <1>2 DEF PacketsOf
<1>3. CASE size # 0
  <2>1. a \in Int /\ a >= m
    BY <1>1, <1>3
  <2> DEFINE q == a \div m
  <2>2. q \in Int /\ a = q * m + (a % m) /\ a % m \in 0 .. m - 1
    BY <1>1, <2>1, DivMod
  <2> HIDE DEF q
  <2>3. q * m > 0
    BY <1>1, <2>1, <2>2
  <2>4. q > 0
    BY <1>1, <2>2, <2>3
  <2> QED BY <1>3, <2>2, <2>4 DEF PacketsOf, q
<1> QED BY <1>2, <1>3

\* Packets that share what the packets of a frame have in common.
PacketsWith(ts, init, ext) ==
    [size : Int, timestamp : {ts}, init : {init}, frameBegin : BOOLEAN,
     chunkEnd : BOOLEAN, frameEnd : BOOLEAN, ext : {ext}]

LEMMA ChunkPacketsFacts ==
  ASSUME NEW sizes \in [1 .. NumChunks -> Nat], NEW i \in 1 .. NumChunks,
         NEW ts, NEW idr, NEW init, NEW rate
  PROVE  ChunkPackets(sizes, i, ts, idr, init, rate)
            \in Seq(PacketsWith(ts, init, ExtHeaders[<<idr, rate>>]))
<1> DEFINE n == PacketsOf(sizes[i])
           ext == ExtHeaders[<<idr, rate>>]
           P == PacketsWith(ts, init, ext)
           pkt(k) == [size       |-> IF k < n THEN MaxPayload ELSE sizes[i] - (n - 1) * MaxPayload,
                      timestamp  |-> ts,
                      init       |-> init,
                      frameBegin |-> i = 1 /\ k = 1,
                      chunkEnd   |-> k = n,
                      frameEnd   |-> i = NumChunks /\ k = n,
                      ext        |-> ext]
<1>1. n \in Nat /\ sizes[i] \in Nat /\ MaxPayload \in Nat
  BY PacketsOfFacts, PacketSizesAssumption
<1>2. ChunkPackets(sizes, i, ts, idr, init, rate) = [k \in 1 .. n |-> pkt(k)]
  BY DEF ChunkPackets
<1> HIDE DEF n, ext
<1>3. \A k \in 1 .. n : pkt(k) \in P
  <2> SUFFICES ASSUME NEW k \in 1 .. n PROVE pkt(k) \in P
    OBVIOUS
  <2> DEFINE size == IF k < n THEN MaxPayload ELSE sizes[i] - (n - 1) * MaxPayload
  <2>1. size \in Int
    BY <1>1
  <2> HIDE DEF size
  <2> QED BY <2>1 DEF PacketsWith, size
<1> HIDE DEF P, pkt
<1>4. [k \in 1 .. n |-> pkt(k)] \in [1 .. n -> P]
  BY <1>3
<1>5. [k \in 1 .. n |-> pkt(k)] \in Seq(P)
  BY <1>1, <1>4, SeqDef
<1> QED BY <1>2, <1>5 DEF P, ext

\* What GenerateVstrmPackets gives back: ids from s on, and one header.
Numbered(gen, s, ts, init, ext) ==
    /\ Len(gen.packets) \in Nat
    /\ gen.seqid = (s + Len(gen.packets)) % VstrmIds
    /\ \A k \in 1 .. Len(gen.packets) :
         /\ gen.packets[k].seqid = (s + (k - 1)) % VstrmIds
         /\ gen.packets[k].pkt.timestamp = ts
         /\ gen.packets[k].pkt.init = init
         /\ gen.packets[k].pkt.ext = ext

LEMMA GeneratedFacts ==
  ASSUME NEW sizes \in [1 .. NumChunks -> Nat], NEW s \in 0 .. VstrmIds - 1,
         NEW ts, NEW idr, NEW init, NEW rate
  PROVE  Numbered(GenerateVstrmPackets(sizes, ts, idr, init, s, rate),
                  s, ts, init, ExtHeaders[<<idr, rate>>])
<1> DEFINE P == PacketsWith(ts, init, ExtHeaders[<<idr, rate>>])
           c == [i \in 1 .. NumChunks |-> ChunkPackets(sizes, i, ts, idr, init, rate)]
           pkts == FlattenSeq(c)
           n == Len(pkts)
           ids == SeqIdsFrom(s, n)
           out == [k \in 1 .. n |-> [seqid |-> ids[k], pkt |-> pkts[k]]]
           gen == GenerateVstrmPackets(sizes, ts, idr, init, s, rate)
<1>1. gen = [packets |-> out, seqid |-> ids[n + 1]]
  BY DEF GenerateVstrmPackets
<1>2. c \in [1 .. NumChunks -> Seq(P)]
  BY ChunkPacketsFacts
<1> HIDE DEF P, c
<1>3. pkts \in Seq(P)
  <2>1. NumChunks \in Nat \ {0}
    BY PacketSizesAssumption
  <2>2. PICK f \in [1 .. NumChunks -> Seq(P)] : FlattenSeq(c) = f[NumChunks]
    BY <1>2, <2>1, FlattenFacts
  <2> QED BY <2>1, <2>2
<1> HIDE DEF pkts
<1>4. n \in Nat /\ \A k \in 1 .. n : pkts[k] \in P
  BY <1>3, LenProperties, ElementOfSeq
<1>5. \A k \in 1 .. n + 1 : ids[k] = (s + (k - 1)) % VstrmIds
  BY <1>4, SeqIdsFacts
<1> HIDE DEF ids
<1>6. out \in Seq({out[k] : k \in 1 .. n}) /\ Len(out) = n
  <2> DEFINE R == {out[k] : k \in 1 .. n}
  <2>1. out \in [1 .. n -> R]
    OBVIOUS
  <2> HIDE DEF out, R
  <2>2. out \in Seq(R)
    BY <1>4, <2>1, SeqDef
  <2>3. Len(out) = n
    BY <1>4, <2>1, <2>2, LenProperties
  <2> QED BY <2>2, <2>3 DEF R
<1>7. ASSUME NEW k \in 1 .. n
      PROVE  /\ out[k].seqid = (s + (k - 1)) % VstrmIds
             /\ out[k].pkt.timestamp = ts
             /\ out[k].pkt.init = init
             /\ out[k].pkt.ext = ExtHeaders[<<idr, rate>>]
  <2>1. out[k].seqid = ids[k] /\ out[k].pkt = pkts[k]
    OBVIOUS
  <2>2. k \in 1 .. n + 1
    BY <1>4
  <2>3. pkts[k] \in P
    BY <1>4
  <2>4. pkts[k].timestamp = ts /\ pkts[k].init = init /\ pkts[k].ext = ExtHeaders[<<idr, rate>>]
    BY <2>3 DEF P, PacketsWith
  <2> QED BY <1>5, <2>1, <2>2, <2>4
<1>8. ids[n + 1] = (s + n) % VstrmIds
  <2>1. n + 1 \in 1 .. n + 1 /\ (n + 1) - 1 = n
    BY <1>4
  <2> QED BY <1>5, <2>1
<1>9. gen.packets = out /\ gen.seqid = ids[n + 1]
  BY <1>1
<1> HIDE DEF gen, out, n
<1> QED BY <1>4, <1>6, <1>7, <1>8, <1>9 DEF gen, Numbered

-----------------------------------------------------------------------------
(* Types, apart from those of the timestamps and of the sequence ids.      *)
InputTyped ==
    /\ {evtUp, trig, resync, owed, inited, sendIdr} \subseteq BOOLEAN
    /\ {frame_, frame, pushes} \subseteq 0 .. MaxPushes
    /\ {h264_chunks_, chunks} \subseteq ChunkPushes \cup {NoChunks}
    /\ frame_rate_ \in VideoFrameRate

LEMMA InputInit == ASSUME Init PROVE InputTyped
<1>1. {evtUp, trig, resync, owed, inited, sendIdr} \subseteq BOOLEAN
  BY DEF Init
<1>2. {frame_, frame, pushes} \subseteq 0 .. MaxPushes
  BY StreamerAssumption DEF Init
<1> QED BY <1>1, <1>2 DEF Init, InputTyped, VideoFrameRate

LEMMA InputNext == ASSUME InputTyped, [Next]_vars PROVE InputTyped'
<1> DEFINE Flags == {evtUp, trig, resync, owed, inited, sendIdr} \subseteq BOOLEAN
           Frames == {frame_, frame, pushes} \subseteq 0 .. MaxPushes
           Chunked == {h264_chunks_, chunks} \subseteq ChunkPushes \cup {NoChunks}
<1>1. CASE PushFrame
  <2>1. Frames'
    BY <1>1, StreamerAssumption DEF PushFrame, latchVars, InputTyped
  <2>2. Flags' /\ Chunked' /\ frame_rate_' = frame_rate_
    BY <1>1 DEF PushFrame, latchVars, streamVars, InputTyped
  <2> QED BY <2>1, <2>2 DEF InputTyped
<1>2. ASSUME NEW c \in ChunkPushes, PushH264Chunks(c) PROVE InputTyped'
  BY <1>2 DEF PushH264Chunks, latchVars, streamVars, InputTyped
<1>3. ASSUME NEW rate \in FrameRates, SetRate(rate) PROVE InputTyped'
  BY <1>3, StreamerAssumption DEF SetRate, latchVars, streamVars, InputTyped
<1>4. CASE ResyncStream \/ InitEvents \/ ResyncEvent \/ UNCHANGED vars
  <2>1. UNCHANGED <<pushVars, latchVars>>
    BY <1>4 DEF ResyncStream, InitEvents, ResyncEvent, vars
  <2>2. Flags'
    BY <1>4 DEF ResyncStream, InitEvents, ResyncEvent, vars, streamVars, InputTyped
  <2> QED BY <2>1, <2>2 DEF pushVars, latchVars, InputTyped
<1>5. CASE Tick
  <2>1. LatchOnCurrent
    BY <1>5 DEF Tick, TickChunks, TickFrame, TickNothing
  <2>2. Frames' /\ Chunked' /\ frame_rate_' = frame_rate_
    BY <2>1, StreamerAssumption DEF LatchOnCurrent, Latch, InputTyped
  <2>3. Flags'
    <3>1. UNCHANGED <<evtUp, trig>>
      BY <1>5 DEF Tick, TickChunks, TickFrame, TickNothing
    <3>2. CASE TickNothing
      BY <3>1, <3>2 DEF TickNothing, streamVars, InputTyped
    <3>3. ASSUME SendQueued, NEW sizes, NEW content, Generate(sizes, content) PROVE Flags'
      <4>1. owed' \in BOOLEAN
        BY <3>3 DEF SendQueued, InputTyped
      <4>2. sendIdr' \in BOOLEAN
        BY <3>3 DEF Generate
      <4>3. inited' = TRUE /\ resync' = FALSE
        BY <3>3 DEF Generate
      <4> QED BY <3>1, <4>1, <4>2, <4>3 DEF InputTyped
    <3> QED BY <1>5, <3>2, <3>3 DEF Tick, TickChunks, TickFrame
  <2> QED BY <2>2, <2>3 DEF InputTyped
<1> QED BY <1>1, <1>2, <1>3, <1>4, <1>5 DEF Next

\* The sizes of the chunks that are sent.
LEMMA SentSizes ==
  ASSUME InputTyped, LatchOnCurrent, chunks' # NoChunks
  PROVE  AsChunkArray(chunks'.sizes) \in [1 .. NumChunks -> Nat]
<1>1. chunks' \in ChunkPushes
  BY DEF LatchOnCurrent, Latch, InputTyped
<1>2. chunks'.sizes \in Seq(Nat)
  BY <1>1, StreamerAssumption
<1>3. \A i \in 1 .. NumChunks : i <= Len(chunks'.sizes) => chunks'.sizes[i] \in Nat
  BY <1>2, LenProperties, ElementOfSeq, PacketSizesAssumption
<1> QED BY <1>3 DEF AsChunkArray

-----------------------------------------------------------------------------
(* The stream.  The GamePad's next sequence id is the streamer's own when  *)
(* the waiting packets are gone, and these have the header of their frame. *)
Stream ==
    /\ padSeq \in 0 .. VstrmIds - 1 /\ seqid \in 0 .. VstrmIds - 1
    /\ Len(packets) \in Nat /\ (~inited => Len(packets) = 0)
    /\ NoSequenceGap

Headers ==
    /\ frames \in Nat /\ (~inited => frames = 0 /\ Len(packets) = 0)
    /\ queued.rate \in VideoFrameRate
    /\ queued.source = "frame" => queued.idr = sendIdr
    /\ \A k \in 1 .. Len(packets) :
         /\ packets[k].pkt.timestamp = astrm
         /\ packets[k].pkt.init <=> frames = 0
         /\ packets[k].pkt.ext = ExtHeaders[<<sendIdr, queued.rate>>]

StreamInv == InputTyped /\ Stream /\ Headers

LEMMA StreamInit == ASSUME Init PROVE StreamInv
<1>1. Len(packets) = 0 /\ seqid = 0 /\ padSeq = 0 /\ frames = 0
  BY DEF Init
<1>2. VstrmIds \in Nat \ {0} /\ 0 % VstrmIds = 0
  BY PacketSizesAssumption, ModSmall
<1>3. Stream
  BY <1>1, <1>2 DEF Stream, NoSequenceGap
<1>4. Headers
  BY <1>1 DEF Init, Headers, Nothing, Content, VideoFrameRate
<1> QED BY <1>3, <1>4, InputInit DEF StreamInv

LEMMA SendFacts ==
  ASSUME StreamInv, SendQueued
  PROVE  padSeq' = seqid /\ frames' \in Nat /\ (frames' = 0 <=> ~inited)
<1>1. CASE inited
  <2>1. padSeq' = seqid
    BY <1>1 DEF SendQueued, StreamInv, Stream, NoSequenceGap
  <2>2. frames' \in Nat /\ frames' # 0
    BY <1>1 DEF SendQueued, StreamInv, Headers
  <2> QED BY <1>1, <2>1, <2>2
<1>2. CASE ~inited
  <2>1. padSeq' = padSeq /\ frames' = frames
    BY <1>2 DEF SendQueued, padVars
  <2>2. frames = 0 /\ Len(packets) = 0
    BY <1>2 DEF StreamInv, Headers
  <2>3. padSeq \in 0 .. VstrmIds - 1 /\ seqid = (padSeq + Len(packets)) % VstrmIds
    BY DEF StreamInv, Stream, NoSequenceGap
  <2>4. VstrmIds \in Nat \ {0} /\ padSeq + 0 = padSeq
    BY <2>3, PacketSizesAssumption
  <2>5. seqid = padSeq
    BY <2>2, <2>3, <2>4, ModSmall
  <2> QED BY <1>2, <2>1, <2>2, <2>5
<1> QED BY <1>1, <1>2

LEMMA StreamGenerate ==
  ASSUME StreamInv, SendQueued,
         NEW sizes \in [1 .. NumChunks -> Nat], NEW source, NEW fr, NEW flag,
         Generate(sizes, Content(source, fr, flag))
  PROVE  Stream' /\ Headers'
<1> DEFINE idr == ResyncAfterSend \/ ~inited
           gen == GenerateVstrmPackets(sizes, now, idr, InitFlag, seqid, frame_rate_)
           n == Len(gen.packets)
<1>1. padSeq' = seqid /\ frames' \in Nat /\ (frames' = 0 <=> ~inited)
  BY SendFacts
<1>2. /\ seqid \in 0 .. VstrmIds - 1 /\ VstrmIds \in Nat \ {0}
      /\ frame_rate_ \in VideoFrameRate
  BY PacketSizesAssumption DEF StreamInv, Stream, InputTyped
<1>3. /\ sendIdr' = idr /\ packets' = gen.packets /\ seqid' = gen.seqid
      /\ astrm' = now /\ inited' = TRUE
  BY DEF Generate, Announced
<1>4. /\ queued'.rate = frame_rate_ /\ queued'.source = source
      /\ source # "chunks" => queued'.idr = idr
  BY DEF Generate, Content
<1> HIDE DEF idr
<1>5. /\ n \in Nat
      /\ gen.seqid = (seqid + n) % VstrmIds
      /\ \A k \in 1 .. n :
           /\ gen.packets[k].seqid = (seqid + (k - 1)) % VstrmIds
           /\ gen.packets[k].pkt.timestamp = now
           /\ gen.packets[k].pkt.init = InitFlag
           /\ gen.packets[k].pkt.ext = ExtHeaders[<<idr, frame_rate_>>]
  <2>1. Numbered(gen, seqid, now, InitFlag, ExtHeaders[<<idr, frame_rate_>>])
    BY <1>2, GeneratedFacts, Zenon
  <2> QED BY <2>1 DEF Numbered
<1> HIDE DEF gen
<1>6. Stream'
  <2>1. seqid' \in 0 .. VstrmIds - 1
    <3>1. seqid + n \in Int
      BY <1>2, <1>5
    <3> QED BY <1>2, <1>3, <1>5, <3>1, DivMod
  <2>2. \A k \in 1 .. n : (seqid + (k - 1)) % VstrmIds = (seqid + k - 1) % VstrmIds
    <3>1. \A k \in 1 .. n : seqid + (k - 1) = seqid + k - 1
      BY <1>2
    <3> QED BY <3>1
  <2>3. NoSequenceGap'
    BY <1>1, <1>3, <1>5, <2>2 DEF NoSequenceGap
  <2> QED BY <1>1, <1>2, <1>3, <1>5, <2>1, <2>3 DEF Stream
<1>7. Headers'
  <2>1. InitFlag <=> frames' = 0
    BY <1>1 DEF InitFlag
  <2>2. queued'.source = "frame" => queued'.idr = sendIdr'
    BY <1>3, <1>4
  <2> QED BY <1>1, <1>2, <1>3, <1>4, <1>5, <2>1, <2>2 DEF Headers
<1> QED BY <1>6, <1>7

LEMMA StreamNext == ASSUME StreamInv, [Next]_vars PROVE StreamInv'
<1>1. InputTyped'
  BY InputNext DEF StreamInv
<1>2. CASE UNCHANGED <<streamVars, padVars>>
  <2>1. Stream' /\ Headers'
    BY <1>2 DEF streamVars, padVars, StreamInv, Stream, Headers, NoSequenceGap
  <2> QED BY <1>1, <2>1 DEF StreamInv
<1>3. CASE TickChunks
  <2>1. /\ AsChunkArray(chunks'.sizes) \in [1 .. NumChunks -> Nat] /\ SendQueued
        /\ Generate(AsChunkArray(chunks'.sizes), Content("chunks", 0, chunks'.idr))
    BY <1>3, SentSizes DEF TickChunks, StreamInv
  <2> QED BY <1>1, <2>1, StreamGenerate DEF StreamInv
<1>4. CASE TickFrame
  <2>1. PICK sizes \in EncodedSizes : Generate(sizes, Content("frame", frame', FALSE))
    BY <1>4 DEF TickFrame
  <2>2. sizes \in [1 .. NumChunks -> Nat] /\ SendQueued
    BY <1>4, StreamerAssumption DEF TickFrame
  <2> QED BY <1>1, <2>1, <2>2, StreamGenerate DEF StreamInv
<1>5. [Next]_vars => TickChunks \/ TickFrame \/ UNCHANGED <<streamVars, padVars>>
  BY DEF Next, PushFrame, PushH264Chunks, SetRate, ResyncStream, InitEvents, ResyncEvent,
         Tick, TickNothing, vars
<1> QED BY <1>2, <1>3, <1>4, <1>5

\* The sequence ids the GamePad sees have no gap (video-streamer.cpp:54-105),
\* across frames, restarts of the count and frames of any number of packets.
THEOREM AlwaysNoSequenceGap == Spec => []NoSequenceGap
<1>1. StreamInv => NoSequenceGap
  BY DEF StreamInv, Stream
<1> QED BY <1>1, StreamInit, StreamNext, PTL DEF Spec

\* Sequence ids, timestamps and frames stay in their ranges.
THEOREM TypeCorrect == Spec => []TypeOK
<1>1. StreamInv /\ PaceInv => TypeOK
  BY DEF StreamInv, Stream, InputTyped, PaceInv, TypeOK
<1> QED BY <1>1, StreamInit, StreamNext, PaceInit, PaceNext, PTL DEF Spec

-----------------------------------------------------------------------------
(* The extended header, byte by byte.                                      *)
IsHeader(ext, a, b, c) ==
    /\ ext \in Seq(Int) /\ Len(ext) = 8
    /\ ext[1] = OptForce /\ ext[2] = OptRows /\ ext[3] = 6
    /\ ext[4] = a /\ ext[5] = b /\ ext[6] = c /\ ext[7] = 0 /\ ext[8] = 0

OptionSet(out, ext, opt, arg, e, n) ==
    /\ out \in Seq(Int) /\ Len(out) = 8
    /\ \A i \in 1 .. e - 1 : out[i] = ext[i]
    /\ out[e] = opt
    /\ n = 1 => out[e + 1] = arg[1]
    /\ \A i \in e + n + 1 .. 8 : out[i] = ext[i]

\* An option that is not there yet is put where the first zero is.
LEMMA SetOptionFacts ==
  ASSUME NEW ext \in Seq(Int), Len(ext) = 8, NEW opt \in Int, NEW arg \in Seq(Int),
         NEW e \in 1 .. 8, ext[e] = 0,
         \A i \in 1 .. e - 1 : ext[i] # 0 /\ ext[i] # opt,
         NEW n \in 0 .. 1, Len(arg) = n, e + n <= 8
  PROVE  OptionSet(SetExtOption(ext, opt, arg), ext, opt, arg, e, n)
<1> DEFINE Zeros == {i \in 1 .. ExtSize : ext[i] = 0} \cup {ExtSize + 1}
           head == SubSeq(ext, 1, e - 1)
           q == e + 1 + n
           tail == SubSeq(ext, q, 8)
           x == head \o <<opt>>
           y == x \o arg
           out == SetExtOption(ext, opt, arg)
<1>1. Min(Zeros) = e
  <2>1. e \in Zeros /\ \A i \in Zeros : e <= i /\ i \in Int
    BY DEF ExtSize
  <2>2. \A k \in Zeros : (\A i \in Zeros : k <= i) => k = e
    BY <2>1
  <2> HIDE DEF Zeros
  <2> QED BY <2>1, <2>2 DEF Min
<1>2. {i \in 1 .. e - 1 : ext[i] = opt} = {}
  OBVIOUS
<1>3. out = (y \o tail)
  BY <1>1, <1>2 DEF SetExtOption, ExtSize
<1>4. \A i \in 1 .. 8 : ext[i] \in Int
  BY ElementOfSeq
<1>5. /\ head \in Seq(Int) /\ Len(head) = e - 1
      /\ \A i \in 1 .. e - 1 : head[i] = ext[i]
  <2> DEFINE k == e - 1
  <2>1. k \in Int /\ k >= 0 /\ \A i \in 1 .. k : ext[i] \in Int
    <3>1. k \in Int /\ k >= 0 /\ \A i \in 1 .. k : i \in 1 .. 8
      OBVIOUS
    <3> QED BY ONLY <1>4, <3>1
  <2> HIDE DEF k
  <2>2. /\ SubSeq(ext, 1, k) \in Seq(Int)
        /\ Len(SubSeq(ext, 1, k)) = IF 1 <= k THEN k - 1 + 1 ELSE 0
        /\ \A i \in 1 .. k - 1 + 1 : SubSeq(ext, 1, k)[i] = ext[1 + i - 1]
    BY <2>1, SubSeqProperties
  <2>3. Len(SubSeq(ext, 1, k)) = k /\ \A i \in 1 .. k : SubSeq(ext, 1, k)[i] = ext[i]
    BY <2>1, <2>2
  <2> QED BY <2>2, <2>3 DEF k
<1>6. /\ tail \in Seq(Int) /\ Len(tail) = 8 - e - n
      /\ \A i \in 1 .. 8 - e - n : tail[i] = ext[i + e + n]
  <2>1. q \in Int /\ \A i \in q .. 8 : ext[i] \in Int
    <3>1. q \in Int /\ \A i \in q .. 8 : i \in 1 .. 8
      OBVIOUS
    <3> QED BY ONLY <1>4, <3>1
  <2> HIDE DEF q
  <2>2. /\ SubSeq(ext, q, 8) \in Seq(Int)
        /\ Len(SubSeq(ext, q, 8)) = IF q <= 8 THEN 8 - q + 1 ELSE 0
        /\ \A i \in 1 .. 8 - q + 1 : SubSeq(ext, q, 8)[i] = ext[q + i - 1]
    BY <2>1, SubSeqProperties
  <2> QED BY <2>2 DEF q
<1> HIDE DEF head, tail
<1>7. /\ x \in Seq(Int) /\ Len(x) = e /\ x[e] = opt
      /\ \A i \in 1 .. e - 1 : x[i] = ext[i]
  <2>1. <<opt>> \in Seq(Int) /\ Len(<<opt>>) = 1 /\ <<opt>>[1] = opt
    OBVIOUS
  <2> DEFINE o == <<opt>>
  <2> HIDE DEF o
  <2>2. /\ head \o o \in Seq(Int) /\ Len(head \o o) = Len(head) + Len(o)
        /\ \A i \in 1 .. Len(head) + Len(o) :
             (head \o o)[i] = IF i <= Len(head) THEN head[i] ELSE o[i - Len(head)]
    BY <1>5, <2>1, ConcatProperties DEF o
  <2>3. Len(o) = 1 /\ o[1] = opt
    BY <2>1 DEF o
  <2>4. (head \o o)[e] = o[1]
    BY <1>5, <2>2, <2>3
  <2>5. \A i \in 1 .. e - 1 : (head \o o)[i] = ext[i]
    BY <1>5, <2>2, <2>3
  <2> QED BY <1>5, <2>2, <2>3, <2>4, <2>5 DEF o
<1> HIDE DEF x
<1>8. /\ y \in Seq(Int) /\ Len(y) = e + n /\ y[e] = opt
      /\ \A i \in 1 .. e - 1 : y[i] = ext[i]
      /\ n = 1 => y[e + 1] = arg[1]
  <2>1. /\ y \in Seq(Int) /\ Len(y) = e + n
        /\ \A i \in 1 .. e + n : y[i] = IF i <= e THEN x[i] ELSE arg[i - e]
    BY <1>7, ConcatProperties
  <2> HIDE DEF y
  <2>2. \A i \in 1 .. e : y[i] = x[i]
    <3> SUFFICES ASSUME NEW i \in 1 .. e PROVE y[i] = x[i]
      OBVIOUS
    <3>1. i \in 1 .. e + n /\ i <= e
      OBVIOUS
    <3> QED BY ONLY <2>1, <3>1
  <2>3. n = 1 => y[e + 1] = arg[1]
    <3>1. n = 1 => e + 1 \in 1 .. e + n /\ ~(e + 1 <= e) /\ (e + 1) - e = 1
      OBVIOUS
    <3> QED BY ONLY <2>1, <3>1
  <2>4. y[e] = x[e] /\ \A i \in 1 .. e - 1 : y[i] = x[i]
    <3>1. e \in 1 .. e /\ \A i \in 1 .. e - 1 : i \in 1 .. e
      OBVIOUS
    <3> QED BY ONLY <2>2, <3>1
  <2> QED BY <1>7, <2>1, <2>3, <2>4
<1> HIDE DEF y, out
<1>9. /\ out \in Seq(Int) /\ Len(out) = 8
      /\ \A i \in 1 .. 8 : out[i] = IF i <= e + n THEN y[i] ELSE tail[i - (e + n)]
  <2>1. /\ y \o tail \in Seq(Int) /\ Len(y \o tail) = Len(y) + Len(tail)
        /\ \A i \in 1 .. Len(y) + Len(tail) :
             (y \o tail)[i] = IF i <= Len(y) THEN y[i] ELSE tail[i - Len(y)]
    <3>1. y \in Seq(Int) /\ tail \in Seq(Int)
      BY <1>6, <1>8
    <3> QED BY <3>1, ConcatProperties
  <2>2. Len(y) + Len(tail) = 8 /\ Len(y) = e + n
    BY ONLY <1>6, <1>8
  <2> QED BY ONLY <1>3, <2>1, <2>2
<1>10. /\ \A i \in 1 .. e - 1 : out[i] = ext[i]
       /\ out[e] = opt /\ (n = 1 => out[e + 1] = arg[1])
  <2>1. ASSUME NEW i \in 1 .. e + n PROVE out[i] = y[i]
    <3>1. i \in 1 .. 8 /\ i <= e + n
      OBVIOUS
    <3> QED BY ONLY <1>9, <3>1
  <2>2. e \in 1 .. e + n /\ (n = 1 => e + 1 \in 1 .. e + n)
        /\ \A i \in 1 .. e - 1 : i \in 1 .. e + n
    OBVIOUS
  <2> QED BY <1>8, <2>1, <2>2
<1>11. ASSUME NEW i \in e + n + 1 .. 8 PROVE out[i] = ext[i]
  <2>1. i \in 1 .. 8 /\ i - (e + n) \in 1 .. 8 - e - n /\ (i - (e + n)) + e + n = i
        /\ ~(i <= e + n)
    OBVIOUS
  <2> QED BY <1>6, <1>9, <2>1
<1> QED BY <1>9, <1>10, <1>11 DEF out, OptionSet

\* What GenerateVstrmPackets writes: the reset bytes, the flag, the rate.
LEMMA HeaderBytes ==
  ASSUME NEW idr \in BOOLEAN, NEW rate \in VideoFrameRate
  PROVE  LET ext == ExtHeaders[<<idr, rate>>]
         IN  /\ ~idr /\ rate = kUnknown => IsHeader(ext, 0, 0, 0)
             /\ ~idr /\ rate # kUnknown => IsHeader(ext, OptRate, rate, 0)
             /\ idr /\ rate = kUnknown  => IsHeader(ext, OptIdr, 0, 0)
             /\ idr /\ rate # kUnknown  => IsHeader(ext, OptIdr, OptRate, rate)
<1> USE DEF OptForce, OptRows, OptIdr, OptRate
<1> DEFINE mid == SetIdrFlag(ResetPacket, idr)
           ext == ExtHeaders[<<idr, rate>>]
<1>1. ext = SetFrameRate(mid, rate)
  <2>1. <<idr, rate>> \in BOOLEAN \X VideoFrameRate
    OBVIOUS
  <2> QED BY <2>1 DEF ExtHeaders
<1>2. IsHeader(ResetPacket, 0, 0, 0)
  BY DEF IsHeader, ResetPacket
<1>3. ASSUME NEW h, NEW a, IsHeader(h, a, 0, 0), NEW opt \in {OptIdr, OptRate}, a # opt,
             NEW n \in Nat
      PROVE  ClearExtOption(h, opt, n) = h
  <2>1. {i \in 1 .. ExtSize : h[i] = opt} = {}
    <3> SUFFICES ASSUME NEW i \in 1 .. 8 PROVE h[i] # opt
      BY DEF ExtSize
    <3>1. i = 1 \/ i = 2 \/ i = 3 \/ i = 4 \/ i = 5 \/ i = 6 \/ i = 7 \/ i = 8
      OBVIOUS
    <3> QED BY <1>3, <3>1 DEF IsHeader
  <2> QED BY <2>1 DEF ClearExtOption
<1>4. idr => IsHeader(mid, OptIdr, 0, 0)
  <2> SUFFICES ASSUME idr PROVE IsHeader(mid, OptIdr, 0, 0)
    OBVIOUS
  <2> DEFINE h == ResetPacket
             none == <<>>
  <2>1. mid = SetExtOption(h, OptIdr, none)
    BY DEF SetIdrFlag
  <2>2. /\ h \in Seq(Int) /\ Len(h) = 8 /\ h[4] = 0
        /\ \A i \in 1 .. 4 - 1 : h[i] # 0 /\ h[i] # OptIdr
    BY <1>2 DEF IsHeader
  <2>3. none \in Seq(Int) /\ Len(none) = 0
    OBVIOUS
  <2> HIDE DEF none, h, mid
  <2>4. /\ mid \in Seq(Int) /\ Len(mid) = 8
        /\ \A i \in 1 .. 4 - 1 : mid[i] = h[i]
        /\ mid[4] = OptIdr
        /\ \A i \in 4 + 0 + 1 .. 8 : mid[i] = h[i]
    <3> DEFINE e == 4
               n == 0
               opt == OptIdr
    <3>1. /\ e \in 1 .. 8 /\ n \in 0 .. 1 /\ e + n <= 8 /\ opt \in Int
          /\ h[e] = 0 /\ Len(none) = n /\ h \in Seq(Int) /\ Len(h) = 8
          /\ \A i \in 1 .. e - 1 : h[i] # 0 /\ h[i] # opt
          /\ mid = SetExtOption(h, opt, none)
      BY <2>1, <2>2, <2>3
    <3> HIDE DEF e, n, opt
    <3>2. OptionSet(SetExtOption(h, opt, none), h, opt, none, e, n)
      BY ONLY <2>3, <3>1, SetOptionFacts, Zenon
    <3>3. OptionSet(mid, h, opt, none, e, n)
      BY ONLY <3>1, <3>2, Zenon
    <3> QED BY <3>3 DEF OptionSet, e, n, opt
  <2> QED BY <1>2, <2>4 DEF IsHeader, h
<1>5. ~idr => mid = ResetPacket
  BY <1>2, <1>3 DEF SetIdrFlag
<1>6. ASSUME rate = kUnknown, NEW a, IsHeader(mid, a, 0, 0), a # OptRate PROVE ext = mid
  BY <1>1, <1>3, <1>6 DEF SetFrameRate
<1>7. ASSUME rate # kUnknown,
             NEW e \in 4 .. 5, mid \in Seq(Int), Len(mid) = 8, mid[e] = 0,
             \A i \in 1 .. e - 1 : mid[i] # 0 /\ mid[i] # OptRate
      PROVE  /\ ext \in Seq(Int) /\ Len(ext) = 8
             /\ \A i \in 1 .. e - 1 : ext[i] = mid[i]
             /\ ext[e] = OptRate /\ ext[e + 1] = rate
             /\ \A i \in e + 2 .. 8 : ext[i] = mid[i]
  <2> DEFINE arg == <<rate>>
  <2>1. ext = SetExtOption(mid, OptRate, arg)
    BY <1>1, <1>7 DEF SetFrameRate
  <2>2. arg \in Seq(Int) /\ Len(arg) = 1 /\ arg[1] = rate
    BY DEF VideoFrameRate, kUnknown
  <2> HIDE DEF arg, mid, ext
  <2>3. /\ ext \in Seq(Int) /\ Len(ext) = 8
        /\ \A i \in 1 .. e - 1 : ext[i] = mid[i]
        /\ ext[e] = OptRate /\ ext[e + 1] = arg[1]
        /\ \A i \in e + 1 + 1 .. 8 : ext[i] = mid[i]
    <3> DEFINE n == 1
               opt == OptRate
    <3>1. /\ e \in 1 .. 8 /\ n \in 0 .. 1 /\ e + n <= 8 /\ opt \in Int
          /\ mid[e] = 0 /\ Len(arg) = n /\ mid \in Seq(Int) /\ Len(mid) = 8
          /\ \A i \in 1 .. e - 1 : mid[i] # 0 /\ mid[i] # opt
          /\ ext = SetExtOption(mid, opt, arg)
      BY <1>7, <2>1, <2>2
    <3> HIDE DEF n, opt
    <3>2. OptionSet(SetExtOption(mid, opt, arg), mid, opt, arg, e, n)
      BY ONLY <2>2, <3>1, SetOptionFacts, Zenon
    <3>3. OptionSet(ext, mid, opt, arg, e, n)
      BY ONLY <3>1, <3>2, Zenon
    <3> QED BY <3>3 DEF OptionSet, n, opt
  <2> QED BY <2>2, <2>3
<1> HIDE DEF mid, ext
<1>8. CASE ~idr /\ rate = kUnknown
  <2>1. IsHeader(mid, 0, 0, 0)
    BY <1>2, <1>5, <1>8
  <2>2. 0 # OptRate
    OBVIOUS
  <2>3. IsHeader(ext, 0, 0, 0)
    BY <1>6, <1>8, <2>1, <2>2
  <2> QED BY <1>8, <2>3 DEF ext
<1>9. CASE idr /\ rate = kUnknown
  <2>1. IsHeader(mid, OptIdr, 0, 0)
    BY <1>4, <1>9
  <2>2. OptIdr # OptRate
    OBVIOUS
  <2>3. IsHeader(ext, OptIdr, 0, 0)
    BY <1>6, <1>9, <2>1, <2>2
  <2> QED BY <1>9, <2>3 DEF ext
<1>10. CASE ~idr /\ rate # kUnknown
  <2>1. IsHeader(mid, 0, 0, 0)
    BY <1>2, <1>5, <1>10
  <2>2. IsHeader(ext, OptRate, rate, 0)
    BY <1>7, <1>10, <2>1 DEF IsHeader
  <2> QED BY <1>10, <2>2 DEF ext
<1>11. CASE idr /\ rate # kUnknown
  <2>1. IsHeader(mid, OptIdr, 0, 0)
    BY <1>4, <1>11
  <2>2. IsHeader(ext, OptIdr, OptRate, rate)
    BY <1>7, <1>11, <2>1 DEF IsHeader
  <2> QED BY <1>11, <2>2 DEF ext
<1> QED BY <1>8, <1>9, <1>10, <1>11

\* Equivalent truth values are equal.
LEMMA SameTruth == ASSUME NEW p \in BOOLEAN, NEW q \in BOOLEAN, p <=> q PROVE p = q
  OBVIOUS

\* Which bytes the GamePad takes for options, and what it reads there.
OptionAt(ext, i) == <<ext[i], IF HasArg(ext[i]) THEN ext[i + 1] ELSE 0>>

\* The options begin at X: their places satisfy what defines the places that the
\* GamePad reads, and nothing else does.
LEMMA DecodedFacts ==
  ASSUME NEW ext, NEW a \in Int, NEW b \in Int, NEW c \in Int, IsHeader(ext, a, b, c),
         NEW X \in SUBSET (1 .. 8), {1, 2} \subseteq X, X \cap {3, 7, 8} = {},
         4 \in X <=> a # 0,
         5 \in X <=> b # 0 /\ 4 \in X /\ ~HasArg(a),
         6 \in X <=> c # 0 /\ ((5 \in X /\ ~HasArg(b)) \/ (4 \in X /\ HasArg(a)))
  PROVE  Decoded(ext) = {OptionAt(ext, i) : i \in X}
<1> DEFINE Begins(f, i) == /\ ext[i] # 0
                           /\ \/ i = 1
                              \/ i > 1 /\ f[i - 1] /\ ~HasArg(ext[i - 1])
                              \/ i > 2 /\ f[i - 2] /\ HasArg(ext[i - 2])
           Rec(f) == [i \in 1 .. ExtSize |-> Begins(f, i)]
           w == [i \in 1 .. 8 |-> i \in X]
           start == CHOOSE f : f = Rec(f)
<1>1. Decoded(ext) = {OptionAt(ext, i) : i \in {i \in 1 .. ExtSize : start[i]}}
  BY DEF Decoded, OptionAt
<1>2. /\ ext[1] # 0 /\ ext[2] # 0 /\ ~HasArg(ext[1]) /\ HasArg(ext[2]) /\ ~HasArg(ext[3])
      /\ ext[3] # 0 /\ ext[4] = a /\ ext[5] = b /\ ext[6] = c /\ ext[7] = 0 /\ ext[8] = 0
  BY DEF IsHeader, HasArg, OptForce, OptRows, OptRate
<1>3. ASSUME NEW f
      PROVE  /\ Begins(f, 1)
             /\ Begins(f, 2) <=> f[1]
             /\ Begins(f, 3) <=> FALSE
             /\ Begins(f, 4) <=> a # 0 /\ (f[3] \/ f[2])
             /\ Begins(f, 5) <=> b # 0 /\ f[4] /\ ~HasArg(a)
             /\ Begins(f, 6) <=> c # 0 /\ ((f[5] /\ ~HasArg(b)) \/ (f[4] /\ HasArg(a)))
             /\ ~Begins(f, 7) /\ ~Begins(f, 8)
  <2>1. Begins(f, 1) /\ (Begins(f, 2) <=> f[1])
    BY <1>2
  <2>2. (Begins(f, 3) <=> FALSE) /\ (Begins(f, 4) <=> a # 0 /\ (f[3] \/ f[2]))
    BY <1>2
  <2>3. Begins(f, 5) <=> b # 0 /\ f[4] /\ ~HasArg(a)
    BY <1>2
  <2>4. Begins(f, 6) <=> c # 0 /\ ((f[5] /\ ~HasArg(b)) \/ (f[4] /\ HasArg(a)))
    BY <1>2
  <2>5. ~Begins(f, 7) /\ ~Begins(f, 8)
    BY <1>2
  <2> QED BY <2>1, <2>2, <2>3, <2>4, <2>5
<1>4. \A i \in 1 .. 8 : i \in {1, 2, 3, 4, 5, 6, 7, 8}
  OBVIOUS
<1> HIDE DEF Begins
<1>5. w = Rec(w)
  <2>1. \A i \in 1 .. 8 : w[i] <=> i \in X
    OBVIOUS
  <2>2. \A i \in 1 .. 8 : (i \in X) <=> Begins(w, i)
    <3>1. /\ w[1] /\ w[2] /\ ~w[3] /\ (w[4] <=> 4 \in X) /\ (w[5] <=> 5 \in X)
      BY <2>1
    <3> QED BY <1>3, <1>4, <3>1
  <2>3. \A i \in 1 .. 8 : (i \in X) = Begins(w, i)
    <3> HIDE DEF w
    <3> SUFFICES ASSUME NEW i \in 1 .. 8 PROVE (i \in X) = Begins(w, i)
      OBVIOUS
    <3>1. (i \in X) \in BOOLEAN
      OBVIOUS
    <3>2. Begins(w, i) \in BOOLEAN
      BY SMT DEF Begins
    <3>3. (i \in X) <=> Begins(w, i)
      BY <2>2
    <3> QED BY <3>1, <3>2, <3>3, SameTruth
  <2> QED BY <2>3 DEF ExtSize
<1>6. start = Rec(start)
  <2> HIDE DEF Rec, w
  <2> QED BY <1>5
<1> HIDE DEF start
<1>7. \A i \in 1 .. 8 : start[i] <=> Begins(start, i)
  BY <1>6 DEF ExtSize
<1>8. {i \in 1 .. ExtSize : start[i]} = X
  <2>1. start[1] /\ start[2] /\ ~start[3] /\ ~start[7] /\ ~start[8]
    BY <1>3, <1>7
  <2>2. start[4] <=> 4 \in X
    BY <1>3, <1>7, <2>1
  <2>3. start[5] <=> 5 \in X
    BY <1>3, <1>7, <2>2
  <2>4. start[6] <=> 6 \in X
    BY <1>3, <1>7, <2>2, <2>3
  <2>5. \A i \in 1 .. 8 : start[i] <=> i \in X
    BY <1>4, <2>1, <2>2, <2>3, <2>4
  <2> QED BY <2>5 DEF ExtSize
<1> QED BY <1>1, <1>8

\* Flag and rate are read as they were written.
LEMMA HeaderDecodes ==
  ASSUME NEW idr \in BOOLEAN, NEW rate \in VideoFrameRate
  PROVE  LET options == Decoded(ExtHeaders[<<idr, rate>>])
         IN  /\ options \ {<<OptIdr, 0>>} =
                  {<<OptForce, 0>>, <<OptRows, 6>>} \cup
                  (IF rate = kUnknown THEN {} ELSE {<<OptRate, rate>>})
             /\ idr <=> <<OptIdr, 0>> \in options
<1> DEFINE ext == ExtHeaders[<<idr, rate>>]
           options == Decoded(ext)
           force == <<OptForce, 0>>
           rows == <<OptRows, 6>>
           flag == <<OptIdr, 0>>
           fps == <<OptRate, rate>>
<1>1. rate \in Int /\ (OptRate \in Int /\ OptIdr \in Int)
      /\ HasArg(OptRate) /\ ~HasArg(OptIdr) /\ OptIdr # 0 /\ OptRate # 0
  BY DEF VideoFrameRate, kUnknown, HasArg, OptRate, OptIdr, OptRows
<1>2. flag # force /\ flag # rows /\ flag # fps
  BY DEF OptForce, OptRows, OptIdr, OptRate
<1>3. ASSUME NEW a, NEW b, NEW c, IsHeader(ext, a, b, c)
      PROVE  OptionAt(ext, 1) = force /\ OptionAt(ext, 2) = rows
  BY <1>3 DEF IsHeader, OptionAt, HasArg, OptForce, OptRows, OptRate
<1>4. CASE ~idr /\ rate = kUnknown
  <2>1. IsHeader(ext, 0, 0, 0)
    BY <1>4, HeaderBytes
  <2> DEFINE X == {1, 2}
  <2>2. options = {OptionAt(ext, i) : i \in X}
    BY <2>1, DecodedFacts
  <2>3. options = {force, rows}
    BY <1>3, <2>1, <2>2
  <2> QED BY <1>2, <1>4, <2>3
<1>5. CASE ~idr /\ rate # kUnknown
  <2>1. IsHeader(ext, OptRate, rate, 0)
    BY <1>5, HeaderBytes
  <2> DEFINE X == {1, 2, 4}
  <2>2. options = {OptionAt(ext, i) : i \in X}
    <3>1. /\ X \in SUBSET (1 .. 8) /\ {1, 2} \subseteq X /\ X \cap {3, 7, 8} = {}
          /\ 4 \in X <=> OptRate # 0
          /\ 5 \in X <=> rate # 0 /\ 4 \in X /\ ~HasArg(OptRate)
          /\ 6 \in X <=> 0 # 0 /\ ((5 \in X /\ ~HasArg(rate)) \/ (4 \in X /\ HasArg(OptRate)))
      BY <1>1
    <3> HIDE DEF X, ext
    <3> QED BY <1>1, <2>1, <3>1, DecodedFacts
  <2>3. OptionAt(ext, 4) = fps
    BY <1>1, <2>1 DEF IsHeader, OptionAt
  <2>4. options = {force, rows, fps}
    BY <1>3, <2>1, <2>2, <2>3
  <2> QED BY <1>2, <1>5, <2>4
<1>6. CASE idr /\ rate = kUnknown
  <2>1. IsHeader(ext, OptIdr, 0, 0)
    BY <1>6, HeaderBytes
  <2> DEFINE X == {1, 2, 4}
  <2>2. options = {OptionAt(ext, i) : i \in X}
    <3>1. /\ X \in SUBSET (1 .. 8) /\ {1, 2} \subseteq X /\ X \cap {3, 7, 8} = {}
          /\ 4 \in X <=> OptIdr # 0
          /\ 5 \in X <=> 0 # 0 /\ 4 \in X /\ ~HasArg(OptIdr)
          /\ 6 \in X <=> 0 # 0 /\ ((5 \in X /\ ~HasArg(0)) \/ (4 \in X /\ HasArg(OptIdr)))
      BY <1>1
    <3> HIDE DEF X, ext
    <3> QED BY <1>1, <2>1, <3>1, DecodedFacts
  <2>3. OptionAt(ext, 4) = flag
    BY <1>1, <2>1 DEF IsHeader, OptionAt
  <2>4. options = {force, rows, flag}
    BY <1>3, <2>1, <2>2, <2>3
  <2> QED BY <1>2, <1>6, <2>4
<1>7. CASE idr /\ rate # kUnknown
  <2>1. IsHeader(ext, OptIdr, OptRate, rate)
    BY <1>7, HeaderBytes
  <2> DEFINE X == {1, 2, 4, 5}
  <2>2. options = {OptionAt(ext, i) : i \in X}
    <3>1. /\ X \in SUBSET (1 .. 8) /\ {1, 2} \subseteq X /\ X \cap {3, 7, 8} = {}
          /\ 4 \in X <=> OptIdr # 0
          /\ 5 \in X <=> OptRate # 0 /\ 4 \in X /\ ~HasArg(OptIdr)
          /\ 6 \in X <=> rate # 0 /\ ((5 \in X /\ ~HasArg(OptRate)) \/ (4 \in X /\ HasArg(OptIdr)))
      BY <1>1
    <3> HIDE DEF X, ext
    <3> QED BY <1>1, <2>1, <3>1, DecodedFacts
  <2>3. OptionAt(ext, 4) = flag /\ OptionAt(ext, 5) = fps
    BY <1>1, <2>1 DEF IsHeader, OptionAt
  <2>4. options = {force, rows, flag, fps}
    BY <1>3, <2>1, <2>2, <2>3
  <2> QED BY <1>2, <1>7, <2>4
<1> QED BY <1>4, <1>5, <1>6, <1>7

\* What the GamePad reads from the packets of a frame is what was meant, for
\* every frame rate and flag (video-streamer.cpp:99-100, vstrm-packet.cpp).
THEOREM AlwaysHeadersDecode == Spec => []HeadersDecode
<1>1. StreamInv => HeadersDecode
  <2> SUFFICES ASSUME StreamInv PROVE HeadersDecode
    OBVIOUS
  <2>1. sendIdr \in BOOLEAN /\ queued.rate \in VideoFrameRate
        /\ (queued.source = "frame" => queued.idr = sendIdr)
    BY DEF StreamInv, InputTyped, Headers
  <2>2. \A k \in 1 .. Len(packets) :
          /\ packets[k].pkt.timestamp = astrm
          /\ packets[k].pkt.init <=> frames = 0
          /\ packets[k].pkt.ext = ExtHeaders[<<sendIdr, queued.rate>>]
    BY DEF StreamInv, Headers
  <2> DEFINE options == Decoded(ExtHeaders[<<sendIdr, queued.rate>>])
  <2>3. /\ options \ {<<OptIdr, 0>>} =
              {<<OptForce, 0>>, <<OptRows, 6>>} \cup
              (IF queued.rate = kUnknown THEN {} ELSE {<<OptRate, queued.rate>>})
        /\ sendIdr <=> <<OptIdr, 0>> \in options
    BY <2>1, HeaderDecodes
  <2>4. \A ext \in {packets[k].pkt.ext : k \in 1 .. Len(packets)} : Decoded(ext) = options
    BY <2>2
  <2> HIDE DEF options
  <2> QED BY <2>1, <2>2, <2>3, <2>4 DEF HeadersDecode
<1> QED BY <1>1, StreamInit, StreamNext, PTL DEF Spec

-----------------------------------------------------------------------------
(* Sums.  SumFunction takes the elements in an unspecified order; what it  *)
(* gives is the last of the partial sums.                                  *)
Additive(g, f, n) ==
    /\ g[{}] = 0
    /\ \A s \in SUBSET (1 .. n) : \A x \in s : g[s] = f[x] + g[s \ {x}]

LEMMA AdditiveExists ==
  ASSUME NEW n \in Nat, NEW f \in [1 .. n -> Int]
  PROVE  \E g \in [SUBSET (1 .. n) -> Int] : Additive(g, f, n)
<1> DEFINE Sums(m) == \E g \in [SUBSET (1 .. m) -> Int] : Additive(g, f, m)
           D == {m \in 1 .. n : Sums(m)}
<1>1. Sums(0)
  <2> DEFINE g == [s \in SUBSET (1 .. 0) |-> 0]
  <2>1. g \in [SUBSET (1 .. 0) -> Int] /\ g[{}] = 0
    OBVIOUS
  <2>2. \A s \in SUBSET (1 .. 0) : s = {}
    OBVIOUS
  <2>3. Additive(g, f, 0)
    BY <2>1, <2>2 DEF Additive
  <2> QED BY <2>1, <2>3
<1>2. ASSUME NEW m \in 0 .. n - 1, Sums(m) PROVE Sums(m + 1)
  <2>1. PICK g \in [SUBSET (1 .. m) -> Int] : Additive(g, f, m)
    BY <1>2
  <2> DEFINE e == m + 1
             h == [s \in SUBSET (1 .. e) |-> IF e \in s THEN f[e] + g[s \ {e}] ELSE g[s]]
  <2>2. e \in 1 .. n /\ e \in 1 .. e /\ f[e] \in Int /\ e \notin 1 .. m
    OBVIOUS
  <2>3. \A s \in SUBSET (1 .. e) : /\ s \ {e} \in SUBSET (1 .. m)
                                   /\ e \notin s => s \in SUBSET (1 .. m)
    <3>1. \A x \in 1 .. e : x # e => x \in 1 .. m
      OBVIOUS
    <3> HIDE DEF e
    <3> QED BY <3>1
  <2> HIDE DEF e
  <2>4. h \in [SUBSET (1 .. e) -> Int]
    <3>1. ASSUME NEW s \in SUBSET (1 .. e)
          PROVE  (IF e \in s THEN f[e] + g[s \ {e}] ELSE g[s]) \in Int
      <4>1. g[s \ {e}] \in Int /\ (e \notin s => g[s] \in Int)
        BY <2>3
      <4> QED BY <2>2, <4>1
    <3> QED BY <3>1
  <2>5. \A s \in SUBSET (1 .. e) : h[s] = IF e \in s THEN f[e] + g[s \ {e}] ELSE g[s]
    OBVIOUS
  <2> HIDE DEF h
  <2>6. h[{}] = 0
    BY <2>1, <2>5 DEF Additive
  <2>7. ASSUME NEW s \in SUBSET (1 .. e), NEW x \in s
        PROVE  h[s] = f[x] + h[s \ {x}]
    <3>1. s \ {x} \in SUBSET (1 .. e)
      OBVIOUS
    <3>2. CASE x = e
      <4>1. h[s] = f[e] + g[s \ {e}]
        BY <2>5, <3>2
      <4>2. h[s \ {x}] = g[s \ {e}]
        BY <2>5, <3>1, <3>2
      <4> QED BY <3>2, <4>1, <4>2
    <3>3. CASE x # e /\ e \in s
      <4> DEFINE t == s \ {e}
                 u == t \ {x}
      <4>1. h[s] = f[e] + g[t]
        BY <2>5, <3>3
      <4>2. u = (s \ {x}) \ {e} /\ e \in s \ {x}
        BY <3>3
      <4>3. h[s \ {x}] = f[e] + g[u]
        BY <2>5, <3>1, <4>2
      <4>4. t \in SUBSET (1 .. m) /\ x \in t
        BY <2>3, <3>3
      <4>5. g[t] = f[x] + g[u]
        BY <2>1, <4>4 DEF Additive
      <4>6. u \in SUBSET (1 .. m) /\ x \in 1 .. n
        BY <4>4
      <4>7. g[u] \in Int /\ f[x] \in Int /\ f[e] \in Int
        BY <2>2, <4>6
      <4> HIDE DEF t, u
      <4> QED BY <4>1, <4>3, <4>5, <4>7
    <3>4. CASE e \notin s
      <4>1. s \in SUBSET (1 .. m)
        BY <2>3, <3>4
      <4>2. h[s] = g[s]
        BY <2>5, <3>4
      <4>3. h[s \ {x}] = g[s \ {x}]
        BY <2>5, <3>1, <3>4
      <4> QED BY <2>1, <4>1, <4>2, <4>3 DEF Additive
    <3> QED BY <3>2, <3>3, <3>4
  <2>8. Additive(h, f, e)
    BY <2>6, <2>7 DEF Additive
  <2>9. Sums(e)
    BY <2>4, <2>8
  <2> QED BY <2>9 DEF e
<1> HIDE DEF Sums
<1>3. CASE n = 0
  BY <1>1, <1>3 DEF Sums
<1>4. CASE n # 0
  <2>1. 0 \in 0 .. n - 1 /\ 0 + 1 = 1
    BY <1>4
  <2>2. 1 \in D
    <3>1. Sums(0 + 1)
      BY <1>1, <1>2, <2>1
    <3> QED BY <2>1, <3>1
  <2>3. ASSUME NEW k \in 1 .. n - 1, k \in D PROVE k + 1 \in D
    <3>1. k \in 0 .. n - 1 /\ k + 1 \in 1 .. n
      OBVIOUS
    <3> QED BY <1>2, <2>3, <3>1
  <2> HIDE DEF D
  <2>4. \A k \in 1 .. n : k \in D
    BY <2>2, <2>3, PositionInduction
  <2>5. n \in 1 .. n
    BY <1>4
  <2> QED BY <2>4, <2>5 DEF D, Sums
<1> QED BY <1>3, <1>4

LEMMA SumIsAdditive ==
  ASSUME NEW n \in Nat, NEW f \in [1 .. n -> Int],
         NEW g \in [SUBSET (1 .. n) -> Int], Additive(g, f, n)
  PROVE  SumFunction(f) = g[1 .. n]
<1> DEFINE N == 1 .. n
           pick(s) == CHOOSE x \in s : TRUE
           Rec(h) == [s \in SUBSET N |-> IF s = {} THEN 0
                                         ELSE f[pick(s)] + h[s \ {pick(s)}]]
           iter == CHOOSE h : h = Rec(h)
<1>1. SumFunction(f) = iter[N]
  BY DEF SumFunction, SumFunctionOnSet, FoldFunctionOnSet, MapThenFoldSet
<1>2. \A s : s # {} => pick(s) \in s
  OBVIOUS
<1> HIDE DEF pick
<1>3. g = Rec(g)
  BY <1>2 DEF Additive
<1>4. iter = Rec(iter)
  <2> HIDE DEF Rec
  <2> QED BY <1>3
<1> HIDE DEF iter
<1> DEFINE T == {s \in SUBSET N : iter[s] # g[s]}
<1>5. SUFFICES ASSUME T # {} PROVE FALSE
  BY <1>1
<1>6. T \subseteq SUBSET N
  OBVIOUS
<1>7. IsWellFoundedOn(StrictSubsetOrdering(N), SUBSET N)
  <2>1. IsFiniteSet(N)
    BY FS_Interval
  <2> HIDE DEF N
  <2>2. FiniteSubsetsOf(N) = SUBSET N
    BY ONLY <2>1, FS_FiniteSubsetsOfFinite
  <2>3. IsWellFoundedOn(StrictSubsetOrdering(N), FiniteSubsetsOf(N))
    BY ONLY FS_StrictSubsetOrderingWellFounded
  <2> QED BY ONLY <2>2, <2>3
<1> HIDE DEF T
<1>8. PICK t \in T : \A y \in T : ~(<<y, t>> \in StrictSubsetOrdering(N))
  <2> HIDE DEF N
  <2> QED BY ONLY <1>5, <1>6, <1>7, WFMin
<1>9. t \in SUBSET N /\ iter[t] # g[t]
  BY <1>8 DEF T
<1> HIDE DEF N
<1>10. t # {}
  BY <1>4, <1>9 DEF Additive
<1> DEFINE x == pick(t)
           u == t \ {x}
<1>11. x \in t /\ u \in SUBSET N /\ u # t /\ u \subseteq t
  BY <1>2, <1>9, <1>10
<1>12. iter[t] = f[x] + iter[u]
  BY <1>4, <1>9, <1>10
<1>13. g[t] = f[x] + g[u]
  BY <1>9, <1>11 DEF Additive, N
<1>14. u \in T
  BY <1>9, <1>11, <1>12, <1>13 DEF T
<1>15. <<u, t>> \in StrictSubsetOrdering(N)
  BY <1>9, <1>11 DEF StrictSubsetOrdering
<1> QED BY <1>8, <1>14, <1>15

\* The sum is the last partial sum.
PartialSums(p, f, n) == p[0] = 0 /\ \A m \in 1 .. n : p[m] = p[m - 1] + f[m]

LEMMA SumFacts ==
  ASSUME NEW n \in Nat, NEW f \in [1 .. n -> Int]
  PROVE  \E p \in [0 .. n -> Int] : PartialSums(p, f, n) /\ SumFunction(f) = p[n]
<1>1. PICK g \in [SUBSET (1 .. n) -> Int] : Additive(g, f, n)
  BY AdditiveExists
<1> DEFINE p == [m \in 0 .. n |-> g[1 .. m]]
<1>2. \A m \in 0 .. n : 1 .. m \in SUBSET (1 .. n)
  OBVIOUS
<1>3. p \in [0 .. n -> Int]
  BY <1>2
<1>4. p[0] = 0
  <2>1. 1 .. 0 = {}
    OBVIOUS
  <2> QED BY <1>1, <2>1 DEF Additive
<1>5. ASSUME NEW m \in 1 .. n PROVE p[m] = p[m - 1] + f[m]
  <2>1. (1 .. m) \ {m} = 1 .. m - 1 /\ m \in 1 .. m /\ m \in 0 .. n /\ m - 1 \in 0 .. n
    OBVIOUS
  <2>2. g[1 .. m] = f[m] + g[1 .. m - 1]
    <3>1. g[1 .. m] = f[m] + g[(1 .. m) \ {m}]
      BY <1>1, <1>2, <2>1, Zenon DEF Additive
    <3> QED BY <2>1, <3>1, Zenon
  <2>3. p[m] = g[1 .. m] /\ p[m - 1] = g[1 .. m - 1] /\ p[m - 1] \in Int /\ f[m] \in Int
    BY <1>3, <2>1
  <2> HIDE DEF p
  <2> QED BY <2>2, <2>3
<1>6. SumFunction(f) = p[n]
  BY <1>1, SumIsAdditive
<1> QED BY <1>3, <1>4, <1>5, <1>6 DEF PartialSums

-----------------------------------------------------------------------------
(* Where the packets of a chunk are among those of the frame: chunk i ends *)
(* at position l[i].                                                       *)
EndsAt(l, c, n) == l[0] = 0 /\ \A i \in 1 .. n : l[i] = l[i - 1] + Len(c[i])

LaidOut(x, l, c, n) ==
    /\ Len(x) = l[n]
    /\ \A i \in 1 .. n : \A k \in 1 .. Len(c[i]) :
         l[i - 1] + k <= l[n] /\ x[l[i - 1] + k] = c[i][k]
    /\ \A p \in 1 .. l[n] : \E i \in 1 .. n : \E k \in 1 .. Len(c[i]) : p = l[i - 1] + k

LEMMA AppendLaidOut ==
  ASSUME NEW S, NEW n \in Nat, NEW c \in [1 .. n -> Seq(S)],
         NEW l \in [0 .. n -> Nat], EndsAt(l, c, n),
         NEW m \in 1 .. n - 1, NEW x \in Seq(S), LaidOut(x, l, c, m)
  PROVE  LaidOut(x \o c[m + 1], l, c, m + 1)
<1> DEFINE e == m + 1
           d == c[e]
           y == x \o d
           a == l[m]
<1>1. e \in 1 .. n /\ e - 1 = m /\ d \in Seq(S) /\ Len(d) \in Nat /\ a \in Nat /\ l[e] \in Nat
  <2>1. e \in 1 .. n /\ e - 1 = m /\ e \in 0 .. n /\ m \in 0 .. n
    OBVIOUS
  <2>2. d \in Seq(S)
    BY <2>1
  <2> QED BY <2>1, <2>2, LenProperties
<1>2. Len(x) = a /\ l[e] = a + Len(d)
  BY <1>1 DEF LaidOut, EndsAt
<1> HIDE DEF e, d, a
<1>3. Len(y) = a + Len(d) /\ \A i \in 1 .. a + Len(d) : y[i] = IF i <= a THEN x[i] ELSE d[i - a]
  BY <1>1, <1>2, ConcatProperties
<1> HIDE DEF y
<1>4. ASSUME NEW i \in 1 .. e, NEW k \in 1 .. Len(c[i])
      PROVE  l[i - 1] + k <= l[e] /\ y[l[i - 1] + k] = c[i][k]
  <2>1. CASE i = e
    <3>1. l[i - 1] = a /\ c[i] = d /\ k \in 1 .. Len(d)
      BY <1>1, <1>4, <2>1 DEF a, d
    <3>2. a + k \in 1 .. a + Len(d) /\ ~(a + k <= a) /\ (a + k) - a = k
      BY <1>1, <3>1
    <3>3. a + k <= l[e]
      BY ONLY <1>1, <1>2, <3>2
    <3>4. y[a + k] = d[k]
      BY ONLY <1>3, <3>2
    <3> QED BY <3>1, <3>3, <3>4
  <2>2. CASE i # e
    <3>1. i \in 1 .. m /\ i - 1 \in 0 .. n
      BY <1>1, <2>2 DEF e
    <3>2. l[i - 1] + k <= a /\ x[l[i - 1] + k] = c[i][k]
      BY <3>1 DEF LaidOut, a
    <3>3. l[i - 1] \in Nat /\ k \in Nat \ {0}
      <4>1. c[i] \in Seq(S)
        BY <3>1
      <4>2. Len(c[i]) \in Nat
        BY <4>1, LenProperties
      <4> QED BY <3>1, <4>2
    <3> DEFINE b == l[i - 1]
    <3> HIDE DEF b
    <3>4. b + k \in 1 .. a + Len(d) /\ b + k <= l[e]
      <4>1. b \in Nat /\ k \in Nat \ {0} /\ b + k <= a
        BY ONLY <3>2, <3>3 DEF b
      <4> QED BY ONLY <1>1, <1>2, <4>1
    <3> QED BY <1>3, <3>2, <3>4 DEF b
  <2> QED BY <2>1, <2>2
<1>5. ASSUME NEW p \in 1 .. l[e]
      PROVE  \E i \in 1 .. e : \E k \in 1 .. Len(c[i]) : p = l[i - 1] + k
  <2>1. CASE p <= a
    <3>1. p \in 1 .. a
      BY <2>1
    <3>2. PICK i \in 1 .. m : \E k \in 1 .. Len(c[i]) : p = l[i - 1] + k
      BY <3>1 DEF LaidOut, a
    <3>3. i \in 1 .. e
      BY DEF e
    <3> QED BY <3>2, <3>3
  <2>2. CASE ~(p <= a)
    <3>1. p - a \in 1 .. Len(d) /\ p = a + (p - a)
      BY <1>1, <1>2, <2>2
    <3>2. e \in 1 .. e /\ l[e - 1] = a /\ c[e] = d
      BY <1>1 DEF a, d
    <3> QED BY <3>1, <3>2
  <2> QED BY <2>1, <2>2
<1>6. LaidOut(y, l, c, e)
  BY <1>2, <1>3, <1>4, <1>5 DEF LaidOut
<1> QED BY <1>6 DEF y, d, e

LEMMA FlattenLaidOut ==
  ASSUME NEW S, NEW n \in Nat \ {0}, NEW c \in [1 .. n -> Seq(S)]
  PROVE  /\ FlattenSeq(c) \in Seq(S)
         /\ \E l \in [0 .. n -> Nat] : EndsAt(l, c, n) /\ LaidOut(FlattenSeq(c), l, c, n)
<1>1. PICK f \in [1 .. n -> Seq(S)] : Appending(f, c, n) /\ FlattenSeq(c) = f[n]
  BY FlattenFacts
<1> DEFINE l == [i \in 0 .. n |-> IF i = 0 THEN 0 ELSE Len(f[i])]
           D == {m \in 1 .. n : LaidOut(f[m], l, c, m)}
<1>2. \A i \in 1 .. n : f[i] \in Seq(S) /\ c[i] \in Seq(S) /\ Len(f[i]) \in Nat /\ Len(c[i]) \in Nat
  BY LenProperties
<1>3. l \in [0 .. n -> Nat]
  BY <1>2
<1>4. l[0] = 0 /\ \A i \in 1 .. n : l[i] = Len(f[i])
  OBVIOUS
<1> HIDE DEF l
<1>5. EndsAt(l, c, n)
  <2> SUFFICES ASSUME NEW i \in 1 .. n PROVE l[i] = l[i - 1] + Len(c[i])
    BY <1>4 DEF EndsAt
  <2>1. CASE i = 1
    <3>1. f[1] = c[1]
      BY <1>1 DEF Appending
    <3> QED BY <1>2, <1>4, <2>1, <3>1
  <2>2. CASE i # 1
    <3> DEFINE j == i - 1
    <3>1. j \in 1 .. n - 1 /\ j \in 1 .. n /\ j + 1 = i
      BY <2>2
    <3>2. f[j + 1] = f[j] \o c[j + 1]
      BY <1>1, <3>1 DEF Appending
    <3> HIDE DEF j
    <3>3. Len(f[j] \o c[i]) = Len(f[j]) + Len(c[i])
      BY <1>2, <3>1, ConcatProperties
    <3> QED BY <1>4, <3>1, <3>2, <3>3 DEF j
  <2> QED BY <2>1, <2>2
<1>6. 1 \in D
  <2>1. f[1] = c[1] /\ 1 \in 1 .. n /\ l[1] = Len(c[1]) /\ l[1 - 1] = 0
    BY <1>1, <1>4 DEF Appending
  <2> DEFINE q == Len(c[1])
  <2>2. q \in Nat
    BY <1>2, <2>1
  <2>3. 1 .. 1 = {1}
    OBVIOUS
  <2>4. ASSUME NEW k \in 1 .. q PROVE l[1 - 1] + k <= l[1] /\ f[1][l[1 - 1] + k] = c[1][k]
    <3>1. 0 + k = k /\ k <= q
      BY <2>2
    <3> QED BY <2>1, <3>1
  <2>5. ASSUME NEW p \in 1 .. l[1] PROVE \E k \in 1 .. q : p = l[1 - 1] + k
    <3>1. p \in 1 .. q /\ p = 0 + p
      BY <2>1, <2>2
    <3> QED BY <2>1, <3>1
  <2>6. LaidOut(f[1], l, c, 1)
    BY <2>1, <2>3, <2>4, <2>5 DEF LaidOut
  <2> QED BY <2>1, <2>6
<1>7. ASSUME NEW m \in 1 .. n - 1, m \in D PROVE m + 1 \in D
  <2>1. m \in 1 .. n /\ m + 1 \in 1 .. n /\ n \in Nat
    OBVIOUS
  <2>2. f[m + 1] = f[m] \o c[m + 1]
    BY <1>1 DEF Appending
  <2>3. f[m] \in Seq(S) /\ LaidOut(f[m], l, c, m)
    BY <1>2, <1>7, <2>1
  <2>4. LaidOut(f[m] \o c[m + 1], l, c, m + 1)
    BY <1>3, <1>5, <2>1, <2>3, AppendLaidOut
  <2> QED BY <2>1, <2>2, <2>4
<1> HIDE DEF D
<1>8. \A m \in 1 .. n : m \in D
  BY <1>6, <1>7, PositionInduction
<1>9. n \in 1 .. n
  OBVIOUS
<1>10. LaidOut(f[n], l, c, n) /\ f[n] \in Seq(S)
  BY <1>2, <1>8, <1>9 DEF D
<1> QED BY <1>1, <1>3, <1>5, <1>10

\* Ends of chunks that are not empty come one after the other.
LEMMA EndsIncrease ==
  ASSUME NEW n \in Nat, NEW l \in [0 .. n -> Nat], \A i \in 1 .. n : l[i - 1] < l[i]
  PROVE  \A j \in 1 .. n : \A i \in 0 .. j - 1 : l[i] < l[j]
<1> DEFINE D == {j \in 1 .. n : \A i \in 0 .. j - 1 : l[i] < l[j]}
<1>1. n > 0 => 1 \in D
  OBVIOUS
<1>2. ASSUME NEW j \in 1 .. n - 1, j \in D PROVE j + 1 \in D
  <2>1. j + 1 \in 1 .. n /\ (j + 1) - 1 = j
    OBVIOUS
  <2>2. l[j] < l[j + 1] /\ l[j] \in Nat /\ l[j + 1] \in Nat
    <3>1. l[(j + 1) - 1] < l[j + 1]
      BY <2>1
    <3> QED BY <2>1, <3>1
  <2>3. ASSUME NEW i \in 0 .. j PROVE l[i] < l[j + 1]
    <3>1. l[i] \in Nat
      OBVIOUS
    <3>2. i = j \/ i \in 0 .. j - 1
      OBVIOUS
    <3>3. i = j \/ l[i] < l[j]
      BY <1>2, <3>2
    <3> QED BY <2>2, <3>1, <3>3
  <2> QED BY <2>1, <2>3
<1> HIDE DEF D
<1>3. \A j \in 1 .. n : j \in D
  BY <1>1, <1>2, PositionInduction
<1> QED BY <1>3 DEF D

-----------------------------------------------------------------------------
(* The packets of a frame, put together again.                             *)
LEMMA LastPayload ==
  ASSUME NEW size \in Nat
  PROVE  size - (PacketsOf(size) - 1) * MaxPayload \in 0 .. MaxPayload
<1> DEFINE m == MaxPayload
           a == size + m - 1
           q == a \div m
           r == a % m
<1>1. m \in Nat \ {0} /\ a \in Int
  BY PacketSizesAssumption
<1>2. CASE size = 0
  BY <1>1, <1>2 DEF PacketsOf
<1>3. CASE size # 0
  <2>1. q \in Int /\ r \in 0 .. m - 1 /\ a = q * m + r
    BY <1>1, DivMod
  <2>2. PacketsOf(size) = q
    BY <1>3 DEF PacketsOf
  <2> HIDE DEF q, r, m
  <2>3. (q - 1) * m = q * m - m
    BY <1>1, <2>1
  <2>4. size - (q - 1) * m = r + 1
    BY <1>1, <2>1, <2>3
  <2>5. size - (q - 1) * m \in 0 .. m
    BY <1>1, <2>1, <2>4
  <2> QED BY <2>2, <2>5 DEF m
<1> QED BY <1>2, <1>3

\* What is in packet k of the n packets of chunk i.
PacketIs(pkt, size, n, i, k) ==
    /\ pkt.size = IF k < n THEN MaxPayload ELSE size - (n - 1) * MaxPayload
    /\ pkt.frameBegin <=> (i = 1 /\ k = 1)
    /\ pkt.chunkEnd <=> k = n
    /\ pkt.frameEnd <=> (i = NumChunks /\ k = n)

LEMMA ChunkShape ==
  ASSUME NEW sizes \in [1 .. NumChunks -> Nat], NEW i \in 1 .. NumChunks,
         NEW ts, NEW idr, NEW init, NEW rate
  PROVE  LET c == ChunkPackets(sizes, i, ts, idr, init, rate)
             n == PacketsOf(sizes[i])
         IN  /\ Len(c) = n /\ n \in Nat \ {0}
             /\ \A k \in 1 .. n : PacketIs(c[k], sizes[i], n, i, k)
<1> DEFINE c == ChunkPackets(sizes, i, ts, idr, init, rate)
           n == PacketsOf(sizes[i])
           P == PacketsWith(ts, init, ExtHeaders[<<idr, rate>>])
<1>1. n \in Nat \ {0}
  BY PacketsOfFacts
<1>2. c \in Seq(P)
  BY ChunkPacketsFacts
<1>3. DOMAIN c = 1 .. n /\ \A k \in 1 .. n : PacketIs(c[k], sizes[i], n, i, k)
  <2> HIDE DEF n
  <2> QED BY DEF ChunkPackets, PacketIs, n
<1> HIDE DEF c, n, P
<1>4. Len(c) = n
  BY <1>1, <1>2, <1>3, LenProperties
<1> QED BY <1>1, <1>3, <1>4 DEF c, n

\* Packets x are those of a frame of these sizes, whose chunk i ends at l[i].
Cut(x, l, sizes) ==
    /\ l \in [0 .. NumChunks -> Nat] /\ l[0] = 0
    /\ \A i \in 1 .. NumChunks : l[i] = l[i - 1] + PacketsOf(sizes[i])
    /\ \A i \in 1 .. NumChunks : \A k \in 1 .. PacketsOf(sizes[i]) :
         PacketIs(x[l[i - 1] + k], sizes[i], PacketsOf(sizes[i]), i, k)
    /\ \A p \in 1 .. l[NumChunks] :
         \E i \in 1 .. NumChunks : \E k \in 1 .. PacketsOf(sizes[i]) : p = l[i - 1] + k

CutFrame(made, x, l, sizes) ==
    /\ Cut(x, l, sizes) /\ Len(made) = l[NumChunks]
    /\ \A p \in 1 .. Len(made) : made[p].pkt = x[p] /\ x[p].size \in Int

LEMMA FrameCut ==
  ASSUME NEW sizes \in [1 .. NumChunks -> Nat], NEW s \in 0 .. VstrmIds - 1,
         NEW ts, NEW idr, NEW init, NEW rate
  PROVE  \E x, l : CutFrame(GenerateVstrmPackets(sizes, ts, idr, init, s, rate).packets,
                            x, l, sizes)
<1> DEFINE N == NumChunks
           P == PacketsWith(ts, init, ExtHeaders[<<idr, rate>>])
           c == [i \in 1 .. N |-> ChunkPackets(sizes, i, ts, idr, init, rate)]
           x == FlattenSeq(c)
           gen == GenerateVstrmPackets(sizes, ts, idr, init, s, rate)
<1>1. N \in Nat \ {0}
  BY PacketSizesAssumption
<1>2. c \in [1 .. N -> Seq(P)]
  BY ChunkPacketsFacts
<1>3. \A i \in 1 .. N : /\ Len(c[i]) = PacketsOf(sizes[i])
                        /\ \A k \in 1 .. Len(c[i]) : PacketIs(c[i][k], sizes[i], Len(c[i]), i, k)
  <2> SUFFICES ASSUME NEW i \in 1 .. N
               PROVE  /\ Len(c[i]) = PacketsOf(sizes[i])
                      /\ \A k \in 1 .. Len(c[i]) : PacketIs(c[i][k], sizes[i], Len(c[i]), i, k)
    OBVIOUS
  <2> DEFINE d == ChunkPackets(sizes, i, ts, idr, init, rate)
             n == PacketsOf(sizes[i])
  <2>1. Len(d) = n /\ \A k \in 1 .. n : PacketIs(d[k], sizes[i], n, i, k)
    BY ChunkShape
  <2>2. c[i] = d
    OBVIOUS
  <2> HIDE DEF c, d, n
  <2> QED BY <2>1, <2>2 DEF n
<1>4. /\ Len(gen.packets) = Len(x)
      /\ \A p \in 1 .. Len(x) : gen.packets[p].pkt = x[p]
  <2> DEFINE ids == SeqIdsFrom(s, Len(x))
             out == [k \in 1 .. Len(x) |-> [seqid |-> ids[k], pkt |-> x[k]]]
  <2>1. gen.packets = out
    BY DEF GenerateVstrmPackets
  <2> HIDE DEF ids, c
  <2>2. Len(x) \in Nat
    BY <1>1, <1>2, FlattenLaidOut, LenProperties
  <2> HIDE DEF x
  <2>3. \A p \in 1 .. Len(x) : out[p].pkt = x[p]
    OBVIOUS
  <2>4. DOMAIN out = 1 .. Len(x)
    OBVIOUS
  <2>5. out \in Seq({out[k] : k \in 1 .. Len(x)})
    <3> DEFINE R == {out[k] : k \in 1 .. Len(x)}
    <3>1. out \in [1 .. Len(x) -> R]
      OBVIOUS
    <3> HIDE DEF out, R
    <3>2. out \in Seq(R)
      BY <2>2, <3>1, SeqDef
    <3> QED BY <3>2 DEF R
  <2> DEFINE R == {out[k] : k \in 1 .. Len(x)}
  <2> HIDE DEF out, R, gen
  <2>6. Len(out) = Len(x)
    BY <2>2, <2>4, <2>5, LenProperties
  <2> QED BY <2>1, <2>3, <2>6
<1> HIDE DEF c, gen, N
<1>5. x \in Seq(P) /\ \E l \in [0 .. N -> Nat] : EndsAt(l, c, N) /\ LaidOut(x, l, c, N)
  BY <1>1, <1>2, FlattenLaidOut
<1> HIDE DEF x, P
<1>6. PICK l \in [0 .. N -> Nat] : EndsAt(l, c, N) /\ LaidOut(x, l, c, N)
  BY <1>5
<1>7. Cut(x, l, sizes)
  <2>1. l[0] = 0 /\ \A i \in 1 .. N : l[i] = l[i - 1] + PacketsOf(sizes[i])
    BY <1>3, <1>6 DEF EndsAt
  <2>2. ASSUME NEW i \in 1 .. N, NEW k \in 1 .. PacketsOf(sizes[i])
        PROVE  PacketIs(x[l[i - 1] + k], sizes[i], PacketsOf(sizes[i]), i, k)
    <3>1. Len(c[i]) = PacketsOf(sizes[i])
      BY <1>3
    <3>2. x[l[i - 1] + k] = c[i][k]
      BY <1>6, <3>1 DEF LaidOut
    <3>3. PacketIs(c[i][k], sizes[i], PacketsOf(sizes[i]), i, k)
      BY <1>3, <3>1
    <3> QED BY <3>2, <3>3
  <2>3. \A p \in 1 .. l[N] : \E i \in 1 .. N : \E k \in 1 .. PacketsOf(sizes[i]) : p = l[i - 1] + k
    BY <1>3, <1>6 DEF LaidOut
  <2> QED BY <1>6, <2>1, <2>2, <2>3 DEF Cut, N
<1>8. Len(x) = l[N] /\ \A p \in 1 .. Len(x) : x[p].size \in Int
  <2>1. Len(x) = l[N]
    BY <1>6 DEF LaidOut
  <2>2. \A p \in 1 .. Len(x) : x[p] \in P
    BY <1>5, ElementOfSeq
  <2> QED BY <2>1, <2>2 DEF P, PacketsWith
<1>9. CutFrame(gen.packets, x, l, sizes)
  BY <1>4, <1>7, <1>8 DEF CutFrame, N
<1> QED BY <1>9 DEF gen

\* Every chunk has a packet, so that the ends of the chunks are apart.
LEMMA CutEnds ==
  ASSUME NEW sizes \in [1 .. NumChunks -> Nat], NEW x, NEW l, Cut(x, l, sizes)
  PROVE  /\ \A i \in 0 .. NumChunks : l[i] \in Nat
         /\ \A i \in 1 .. NumChunks : PacketsOf(sizes[i]) \in Nat \ {0}
         /\ \A j \in 1 .. NumChunks : \A i \in 0 .. j - 1 : l[i] < l[j]
<1> DEFINE N == NumChunks
<1>1. N \in Nat \ {0} /\ l \in [0 .. N -> Nat]
  BY PacketSizesAssumption DEF Cut
<1>2. \A i \in 1 .. N : PacketsOf(sizes[i]) \in Nat \ {0}
  BY PacketsOfFacts
<1>3. ASSUME NEW i \in 1 .. N PROVE l[i - 1] < l[i]
  <2>1. i - 1 \in 0 .. N /\ l[i] = l[i - 1] + PacketsOf(sizes[i])
    BY <1>1 DEF Cut
  <2>2. l[i - 1] \in Nat
    BY <1>1, <2>1
  <2> QED BY <1>2, <2>1, <2>2
<1> HIDE DEF N
<1>4. \A j \in 1 .. N : \A i \in 0 .. j - 1 : l[i] < l[j]
  BY <1>1, <1>3, EndsIncrease
<1> QED BY <1>1, <1>2, <1>4 DEF N

LEMMA CutFlags ==
  ASSUME NEW sizes \in [1 .. NumChunks -> Nat], NEW x, NEW l, Cut(x, l, sizes)
  PROVE  LET n == l[NumChunks]
         IN  /\ n \in Nat /\ n > 0
             /\ \A p \in 1 .. n : /\ x[p].frameBegin <=> p = 1
                                  /\ x[p].frameEnd <=> p = n
                                  /\ x[p].size <= MaxPayload
                                  /\ x[p].chunkEnd <=> \E i \in 1 .. NumChunks : p = l[i]
<1> DEFINE N == NumChunks
           n == l[N]
           cnt(i) == PacketsOf(sizes[i])
<1>1. N \in Nat \ {0} /\ MaxPayload \in Nat /\ l[0] = 0
  BY PacketSizesAssumption DEF Cut
<1>2. /\ \A i \in 0 .. N : l[i] \in Nat
      /\ \A i \in 1 .. N : cnt(i) \in Nat \ {0}
      /\ \A j \in 1 .. N : \A i \in 0 .. j - 1 : l[i] < l[j]
  BY CutEnds
<1>3. n \in Nat /\ n > 0
  <2>1. N \in 0 .. N /\ N \in 1 .. N /\ 0 \in 0 .. N - 1
    BY <1>1
  <2>2. l[0] < l[N] /\ l[N] \in Nat
    BY <1>2, <2>1
  <2> QED BY <1>1, <2>2
<1>4. ASSUME NEW p \in 1 .. n
      PROVE  /\ x[p].frameBegin <=> p = 1
             /\ x[p].frameEnd <=> p = n
             /\ x[p].size <= MaxPayload
             /\ x[p].chunkEnd <=> \E i \in 1 .. N : p = l[i]
  <2>1. PICK i \in 1 .. N : \E k \in 1 .. cnt(i) : p = l[i - 1] + k
    BY DEF Cut
  <2>2. PICK k \in 1 .. cnt(i) : p = l[i - 1] + k
    BY <2>1
  <2>3. PacketIs(x[p], sizes[i], cnt(i), i, k)
    BY <2>2 DEF Cut
  <2>4. l[i] = l[i - 1] + cnt(i)
    BY DEF Cut
  <2> DEFINE c == cnt(i)
             a == l[i - 1]
  <2>5. i - 1 \in 0 .. N /\ i \in 0 .. N
    BY <1>1
  <2>6. a \in Nat /\ l[i] \in Nat /\ c \in Nat \ {0} /\ k \in 1 .. c /\ p = a + k /\ l[i] = a + c
    BY <1>2, <2>2, <2>4, <2>5
  <2>7. sizes[i] \in Nat
    OBVIOUS
  <2>8. x[p].size <= MaxPayload
    <3>1. sizes[i] - (c - 1) * MaxPayload \in 0 .. MaxPayload
      BY <2>7, LastPayload
    <3> DEFINE z == sizes[i] - (c - 1) * MaxPayload
    <3>2. x[p].size = IF k < c THEN MaxPayload ELSE z
      BY <2>3 DEF PacketIs
    <3> HIDE DEF z, c
    <3>3. z <= MaxPayload /\ MaxPayload <= MaxPayload
      BY <1>1, <3>1 DEF z
    <3> QED BY ONLY <3>2, <3>3
  <2> HIDE DEF cnt, a, c
  <2>9. x[p].frameBegin <=> p = 1
    <3>1. x[p].frameBegin <=> (i = 1 /\ k = 1)
      BY <2>3 DEF PacketIs
    <3>2. i = 1 => a = 0
      BY <1>1 DEF a
    <3>3. i # 1 => a > 0
      <4> SUFFICES ASSUME i # 1 PROVE a > 0
        OBVIOUS
      <4>1. i - 1 \in 1 .. N /\ 0 \in 0 .. (i - 1) - 1
        BY <1>1
      <4>2. l[0] < l[i - 1]
        BY <1>2, <4>1
      <4> QED BY <1>1, <2>6, <4>2 DEF a
    <3>4. (i = 1 /\ k = 1) <=> p = 1
      BY <2>6, <3>2, <3>3
    <3> QED BY <3>1, <3>4
  <2>10. x[p].frameEnd <=> p = n
    <3>1. x[p].frameEnd <=> (i = N /\ k = c)
      BY <2>3 DEF PacketIs, c
    <3>2. i = N => a + c = n
      BY <2>6
    <3>3. i # N => a + c < n
      <4> SUFFICES ASSUME i # N PROVE a + c < n
        OBVIOUS
      <4>1. N \in 1 .. N /\ i \in 0 .. N - 1
        BY <1>1
      <4>2. l[i] < l[N]
        BY <1>2, <4>1
      <4> QED BY <2>6, <4>2
    <3> HIDE DEF n
    <3>4. (i = N /\ k = c) <=> p = n
      BY <1>3, <2>6, <3>2, <3>3
    <3> QED BY <3>1, <3>4
  <2>11. x[p].chunkEnd <=> \E j \in 1 .. N : p = l[j]
    <3>1. x[p].chunkEnd <=> k = c
      BY <2>3 DEF PacketIs, c
    <3>2. k = c => p = l[i]
      BY <2>6
    <3>3. ASSUME NEW j \in 1 .. N, p = l[j] PROVE k = c
      <4>1. j \in 0 .. N /\ l[j] \in Nat
        BY <1>1, <1>2
      <4>2. CASE j < i
        <5>1. j \in 0 .. i - 1 /\ (j = i - 1 \/ j \in 0 .. (i - 1) - 1)
          BY <4>2
        <5>2. j = i - 1 \/ (i - 1 \in 1 .. N /\ l[j] < l[i - 1])
          BY <1>1, <1>2, <5>1
        <5>3. l[j] <= a
          BY <2>6, <4>1, <5>2 DEF a
        <5> QED BY <2>6, <3>3, <4>1, <5>3
      <4>3. CASE i < j
        <5>1. i \in 0 .. j - 1
          BY <4>3
        <5>2. l[i] < l[j]
          BY <1>2, <5>1
        <5> QED BY <2>6, <3>3, <4>1, <5>2
      <4>4. CASE i = j
        BY <2>6, <3>3, <4>4
      <4> QED BY <4>2, <4>3, <4>4
    <3> QED BY <3>1, <3>2, <3>3
  <2> QED BY <2>8, <2>9, <2>10, <2>11
<1> QED BY <1>3, <1>4

LEMMA CutCount ==
  ASSUME NEW sizes \in [1 .. NumChunks -> Nat], NEW x, NEW l, Cut(x, l, sizes)
  PROVE  Cardinality({l[i] : i \in 1 .. NumChunks}) = NumChunks
<1> DEFINE N == NumChunks
           E == {l[i] : i \in 1 .. N}
           f == [i \in 1 .. N |-> l[i]]
<1>1. N \in Nat
  BY PacketSizesAssumption
<1>2. \A j \in 1 .. N : l[j] \in Nat /\ \A i \in 0 .. j - 1 : l[i] < l[j]
  <2>1. \A j \in 1 .. N : j \in 0 .. N
    BY <1>1
  <2> QED BY <2>1, CutEnds
<1>3. f \in [1 .. N -> E] /\ \A i \in 1 .. N : f[i] = l[i]
  OBVIOUS
<1>4. ASSUME NEW i \in 1 .. N, NEW j \in 1 .. N, l[i] = l[j] PROVE i = j
  <2>1. i < j => i \in 0 .. j - 1
    OBVIOUS
  <2>2. j < i => j \in 0 .. i - 1
    OBVIOUS
  <2>3. ~(i < j) /\ ~(j < i)
    BY <1>2, <1>4, <2>1, <2>2
  <2> QED BY <2>3
<1>5. \A e \in E : \E i \in 1 .. N : f[i] = e
  OBVIOUS
<1> HIDE DEF E, f
<1>6. f \in Bijection(1 .. N, E)
  <2>1. IsInjective(f)
    BY <1>3, <1>4 DEF IsInjective
  <2> QED BY <1>3, <1>5, <2>1 DEF Bijection, Injection, Surjection
<1>7. ExistsBijection(1 .. N, E)
  BY <1>6 DEF ExistsBijection
<1> QED BY <1>1, <1>7, FS_CountingElements DEF E

\* The packets of one chunk carry all of it.
Payloads(z, n, p, a, c, size) ==
    /\ size \in Nat /\ n \in Nat /\ z \in [1 .. n -> Int]
    /\ p \in [0 .. n -> Int] /\ PartialSums(p, z, n)
    /\ c \in Nat \ {0} /\ a \in Nat /\ a + c <= n
    /\ \A k \in 1 .. c :
         z[a + k] = IF k < c THEN MaxPayload ELSE size - (c - 1) * MaxPayload

Carried(p, a, c, size) == p[a + c] = p[a] + size

LEMMA ChunkSum ==
  ASSUME NEW size, NEW n, NEW z, NEW p, NEW c, NEW a, Payloads(z, n, p, a, c, size)
  PROVE  Carried(p, a, c, size)
<1> DEFINE M == MaxPayload
           got(k) == IF k < c THEN k * M ELSE size
           last == size - (c - 1) * M
           D == {k \in 1 .. c : p[a + k] = p[a] + got(k)}
<1> USE DEF Payloads
<1> /\ size \in Nat /\ n \in Nat /\ z \in [1 .. n -> Int]
    /\ p \in [0 .. n -> Int] /\ PartialSums(p, z, n)
    /\ c \in Nat \ {0} /\ a \in Nat /\ a + c <= n
  OBVIOUS
<1> HIDE DEF Payloads
<1>1. M \in Nat /\ p[a] \in Int /\ last \in Int
  <2>1. a \in 0 .. n /\ M \in Nat
    BY PacketSizesAssumption
  <2>2. (c - 1) * M \in Int
    BY <2>1
  <2> QED BY <2>1, <2>2
<1>2. ASSUME NEW k \in 1 .. c PROVE p[a + k] = p[a + (k - 1)] + z[a + k]
  <2>1. a + k \in 1 .. n /\ (a + k) - 1 = a + (k - 1)
    OBVIOUS
  <2> QED BY <2>1 DEF PartialSums
<1>3. \A k \in 1 .. c : z[a + k] = IF k < c THEN M ELSE last
  BY DEF Payloads
<1> HIDE DEF M, last
<1>4. 1 \in D
  <2>1. p[a + 1] = p[a] + z[a + 1] /\ z[a + 1] = IF 1 < c THEN M ELSE last
    <3>1. 1 \in 1 .. c /\ a + (1 - 1) = a
      OBVIOUS
    <3>2. p[a + 1] = p[a + (1 - 1)] + z[a + 1]
      BY <1>2, <3>1
    <3> QED BY <1>3, <3>1, <3>2
  <2>2. 1 < c => got(1) = M
    BY <1>1
  <2>3. ~(1 < c) => got(1) = last
    BY <1>1 DEF last
  <2> HIDE DEF got
  <2>4. p[a + 1] = p[a] + got(1)
    BY <2>1, <2>2, <2>3
  <2> QED BY <2>4
<1>5. ASSUME NEW k \in 1 .. c - 1, k \in D PROVE k + 1 \in D
  <2>1. k + 1 \in 1 .. c /\ (k + 1) - 1 = k /\ k < c
    OBVIOUS
  <2>2. p[a + (k + 1)] = p[a + k] + z[a + (k + 1)]
    BY <1>2, <2>1
  <2>3. z[a + (k + 1)] = IF k + 1 < c THEN M ELSE last
    BY <1>3, <2>1
  <2>4. p[a + k] = p[a] + k * M /\ k * M \in Int
    BY <1>1, <1>5, <2>1
  <2>5. k + 1 < c => k * M + M = got(k + 1)
    BY <1>1
  <2>6. ~(k + 1 < c) => k * M + last = got(k + 1)
    <3> SUFFICES ASSUME ~(k + 1 < c) PROVE k * M + last = size
      OBVIOUS
    <3>1. k = c - 1
      OBVIOUS
    <3> DEFINE q == k * M
    <3>2. last = size - q
      BY <3>1 DEF last
    <3> HIDE DEF q
    <3>3. q + last = size
      BY <2>4, <3>2 DEF q
    <3> QED BY <3>3 DEF q
  <2> HIDE DEF got
  <2> DEFINE q == k * M
             y == z[a + (k + 1)]
             g == got(k + 1)
  <2>7. q \in Int /\ y \in Int /\ q + y = g
    <3>1. q \in Int /\ (y = M \/ y = last)
      BY <2>3, <2>4
    <3>2. q + y = g
      <4>1. CASE k + 1 < c
        BY <2>3, <2>5, <4>1
      <4>2. CASE ~(k + 1 < c)
        BY <2>3, <2>6, <4>2
      <4> QED BY <4>1, <4>2
    <3> HIDE DEF q, y, g
    <3> QED BY <1>1, <3>1, <3>2
  <2>8. p[a + (k + 1)] = (p[a] + q) + y
    BY <2>2, <2>4
  <2> HIDE DEF q, y, g
  <2>9. p[a + (k + 1)] = p[a] + g
    BY <1>1, <2>7, <2>8
  <2> QED BY <2>1, <2>9 DEF g
<1>6. \A k \in 1 .. c : k \in D
  <2> HIDE DEF D
  <2> QED BY <1>4, <1>5, PositionInduction
<1>7. c \in 1 .. c /\ got(c) = size
  OBVIOUS
<1> HIDE DEF got
<1>8. p[a + c] = p[a] + got(c)
  BY <1>6, <1>7
<1> QED BY <1>7, <1>8 DEF Carried

LEMMA CutSum ==
  ASSUME NEW sizes \in [1 .. NumChunks -> Nat], NEW x, NEW l, Cut(x, l, sizes),
         \A p \in 1 .. l[NumChunks] : x[p].size \in Int
  PROVE  SumFunction([p \in 1 .. l[NumChunks] |-> x[p].size]) = SumFunction(sizes)
<1> DEFINE N == NumChunks
           n == l[N]
           z == [p \in 1 .. n |-> x[p].size]
<1>1. N \in Nat \ {0} /\ l[0] = 0
  BY PacketSizesAssumption DEF Cut
<1>2. /\ \A i \in 0 .. N : l[i] \in Nat
      /\ \A i \in 1 .. N : PacketsOf(sizes[i]) \in Nat \ {0}
      /\ \A j \in 1 .. N : \A i \in 0 .. j - 1 : l[i] < l[j]
  BY CutEnds
<1>3. n \in Nat /\ z \in [1 .. n -> Int] /\ \A p \in 1 .. n : z[p] = x[p].size
  BY <1>1, <1>2
<1> HIDE DEF z, n
<1>4. PICK p \in [0 .. n -> Int] : PartialSums(p, z, n) /\ SumFunction(z) = p[n]
  BY <1>3, SumFacts
<1>5. sizes \in [1 .. N -> Int]
  OBVIOUS
<1>6. PICK t \in [0 .. N -> Int] : PartialSums(t, sizes, N) /\ SumFunction(sizes) = t[N]
  BY <1>1, <1>5, SumFacts
<1>7. ASSUME NEW i \in 1 .. N PROVE p[l[i]] = p[l[i - 1]] + sizes[i]
  <2> DEFINE c == PacketsOf(sizes[i])
             a == l[i - 1]
  <2>1. i - 1 \in 0 .. N /\ i \in 0 .. N
    BY <1>1
  <2>2. a \in Nat /\ c \in Nat \ {0} /\ l[i] = a + c /\ sizes[i] \in Nat /\ l[i] \in Nat
    BY <1>2, <2>1 DEF Cut
  <2>3. a + c <= n
    <3>1. i = N \/ i \in 0 .. N - 1
      BY <1>1
    <3>2. i = N \/ l[i] < l[N]
      <4>1. N \in 1 .. N
        BY <1>1
      <4> QED BY <1>2, <3>1, <4>1
    <3> QED BY <1>3, <2>2, <3>2 DEF n
  <2>4. ASSUME NEW k \in 1 .. c
        PROVE  z[a + k] = IF k < c THEN MaxPayload ELSE sizes[i] - (c - 1) * MaxPayload
    <3>1. PacketIs(x[a + k], sizes[i], c, i, k)
      BY DEF Cut
    <3>2. a + k \in 1 .. n
      <4> HIDE DEF a, c
      <4>1. k \in 1 .. c
        BY <2>4
      <4> QED BY ONLY <1>3, <2>2, <2>3, <4>1
    <3>3. z[a + k] = x[a + k].size
      BY <1>3, <3>2
    <3> QED BY <3>1, <3>3 DEF PacketIs
  <2>5. Payloads(z, n, p, a, c, sizes[i])
    <3>1. p \in [0 .. n -> Int] /\ PartialSums(p, z, n)
      BY <1>4
    <3> HIDE DEF a, c
    <3> QED BY <1>3, <2>2, <2>3, <2>4, <3>1 DEF Payloads
  <2> HIDE DEF a, c
  <2>6. p[a + c] = p[a] + sizes[i]
    <3>1. Carried(p, a, c, sizes[i])
      BY ONLY <2>5, ChunkSum, Zenon
    <3> QED BY <3>1 DEF Carried
  <2> QED BY <2>2, <2>6 DEF a
<1>8. p[l[0]] = t[0]
  BY <1>1, <1>4, <1>6 DEF PartialSums
<1> DEFINE D == {i \in 1 .. N : p[l[i]] = t[i]}
<1>9. ASSUME NEW i \in 1 .. N, p[l[i - 1]] = t[i - 1] PROVE i \in D
  <2>1. t[i] = t[i - 1] + sizes[i]
    BY <1>6 DEF PartialSums
  <2> QED BY <1>7, <1>9, <2>1
<1>10. 1 \in D
  <2>1. 1 \in 1 .. N /\ 1 - 1 = 0
    BY <1>1
  <2> QED BY <1>8, <1>9, <2>1
<1>11. ASSUME NEW i \in 1 .. N - 1, i \in D PROVE i + 1 \in D
  <2>1. i + 1 \in 1 .. N /\ (i + 1) - 1 = i
    BY <1>1
  <2>2. p[l[i]] = t[i]
    BY <1>11
  <2> HIDE DEF D
  <2> QED BY <1>9, <2>1, <2>2
<1> HIDE DEF D
<1>12. \A i \in 1 .. N : i \in D
  BY <1>1, <1>10, <1>11, PositionInduction
<1>13. N \in 1 .. N
  BY <1>1
<1>14. p[n] = t[N]
  BY <1>12, <1>13 DEF D, n
<1> QED BY <1>4, <1>6, <1>14 DEF z, n

LEMMA GeneratedReassembles ==
  ASSUME NEW sizes \in [1 .. NumChunks -> Nat], NEW s \in 0 .. VstrmIds - 1,
         NEW ts, NEW idr, NEW init, NEW rate
  PROVE  Reassembles(GenerateVstrmPackets(sizes, ts, idr, init, s, rate).packets,
                     SumFunction(sizes))
<1> DEFINE made == GenerateVstrmPackets(sizes, ts, idr, init, s, rate).packets
           n == Len(made)
<1>1. PICK x, l : CutFrame(made, x, l, sizes)
  BY FrameCut
<1> HIDE DEF made
<1>2. /\ Cut(x, l, sizes) /\ n = l[NumChunks]
      /\ \A p \in 1 .. n : made[p].pkt = x[p] /\ x[p].size \in Int
  BY <1>1 DEF CutFrame
<1> HIDE DEF n
<1>3. /\ n \in Nat /\ n > 0
      /\ \A p \in 1 .. n : /\ x[p].frameBegin <=> p = 1
                           /\ x[p].frameEnd <=> p = n
                           /\ x[p].size <= MaxPayload
                           /\ x[p].chunkEnd <=> \E i \in 1 .. NumChunks : p = l[i]
  BY <1>2, CutFlags
<1>4. \A i \in 1 .. NumChunks : l[i] \in 1 .. n
  <2> SUFFICES ASSUME NEW i \in 1 .. NumChunks PROVE l[i] \in 1 .. n
    OBVIOUS
  <2>1. NumChunks \in Nat \ {0} /\ l[0] = 0
    BY <1>2, PacketSizesAssumption DEF Cut
  <2>2. i \in 0 .. NumChunks /\ 0 \in 0 .. i - 1 /\ NumChunks \in 1 .. NumChunks
        /\ (i = NumChunks \/ i \in 0 .. NumChunks - 1)
    BY <2>1
  <2>3. l[i] \in Nat /\ l[0] < l[i] /\ (i = NumChunks \/ l[i] < l[NumChunks])
    BY <1>2, <2>2, CutEnds
  <2> QED BY <1>2, <1>3, <2>1, <2>3
<1>5. made[n].pkt.chunkEnd
  <2>1. NumChunks \in 1 .. NumChunks /\ n \in 1 .. n
    BY <1>3, PacketSizesAssumption
  <2>2. x[n].chunkEnd
    BY <1>2, <1>3, <2>1
  <2> QED BY <1>2, <2>1, <2>2
<1>6. Cardinality({p \in 1 .. n : made[p].pkt.chunkEnd}) = NumChunks
  <2>1. {p \in 1 .. n : made[p].pkt.chunkEnd} = {l[i] : i \in 1 .. NumChunks}
    BY <1>2, <1>3, <1>4
  <2> QED BY <1>2, <2>1, CutCount
<1>7. SumFunction([p \in 1 .. n |-> made[p].pkt.size]) = SumFunction(sizes)
  <2>1. [p \in 1 .. n |-> made[p].pkt.size] = [p \in 1 .. n |-> x[p].size]
    BY <1>2
  <2> QED BY <1>2, <2>1, CutSum
<1>8. Reassembles(made, SumFunction(sizes))
  BY <1>2, <1>3, <1>5, <1>6, <1>7 DEF Reassembles, n
<1> QED BY <1>8 DEF made

\* Any number of chunks, of any size, empty ones too, is cut into packets from
\* which the GamePad can put the frame together (video-streamer.cpp:54-105).
THEOREM FramesReassemble == Spec => []FrameReassembles
<1> DEFINE I == StreamInv /\ FrameReassembles
<1>1. Init => I
  BY StreamInit DEF Init, FrameReassembles
<1>2. ASSUME I, [Next]_vars PROVE I'
  <2>1. ASSUME NEW sizes \in [1 .. NumChunks -> Nat], NEW source, NEW fr, NEW flag,
               Generate(sizes, Content(source, fr, flag))
        PROVE  FrameReassembles'
    <3> DEFINE idr == ResyncAfterSend \/ ~inited
    <3>1. packets' = GenerateVstrmPackets(sizes, now, idr, InitFlag, seqid, frame_rate_).packets
      BY <2>1 DEF Generate
    <3>2. queued'.total = SumFunction(sizes)
      BY <2>1 DEF Generate, Content
    <3>3. seqid \in 0 .. VstrmIds - 1
      BY <1>2 DEF StreamInv, Stream
    <3> HIDE DEF idr
    <3>4. Reassembles(packets', queued'.total)
      BY <3>1, <3>2, <3>3, GeneratedReassembles
    <3> QED BY <3>4 DEF FrameReassembles, Reassembles
  <2>2. ASSUME TickChunks PROVE FrameReassembles'
    <3>1. /\ AsChunkArray(chunks'.sizes) \in [1 .. NumChunks -> Nat]
          /\ Generate(AsChunkArray(chunks'.sizes), Content("chunks", 0, chunks'.idr))
      BY <1>2, <2>2, SentSizes DEF TickChunks, StreamInv
    <3> QED BY <2>1, <3>1
  <2>3. ASSUME TickFrame PROVE FrameReassembles'
    <3>1. PICK sizes \in EncodedSizes : Generate(sizes, Content("frame", frame', FALSE))
      BY <2>3 DEF TickFrame
    <3>2. sizes \in [1 .. NumChunks -> Nat]
      BY StreamerAssumption
    <3> QED BY <2>1, <3>1, <3>2
  <2>4. ASSUME UNCHANGED streamVars PROVE FrameReassembles'
    <3>1. packets' = packets /\ queued' = queued /\ inited' = inited
      BY <2>4 DEF streamVars
    <3> QED BY <1>2, <3>1 DEF FrameReassembles, Reassembles
  <2>5. [Next]_vars => TickChunks \/ TickFrame \/ UNCHANGED streamVars
    BY DEF Next, PushFrame, PushH264Chunks, SetRate, ResyncStream, InitEvents, ResyncEvent,
           Tick, TickNothing, vars
  <2> QED BY <1>2, <2>2, <2>3, <2>4, <2>5, StreamNext
<1>3. I => FrameReassembles
  OBVIOUS
<1> QED BY <1>1, <1>2, <1>3, PTL DEF Spec

-----------------------------------------------------------------------------
(* Requests for an IDR and the frames on their way, as long as only frames *)
(* are pushed: chunks, once latched, are sent for ever, whatever is asked  *)
(* for.                                                                    *)
Requests ==
    /\ inited => evtUp
    /\ inited /\ chunks = NoChunks => (sendIdr <=> queued.idr)
    /\ owed => trig \/ resync \/ ~inited \/ queued.idr \/ chunks # NoChunks

Newest ==
    /\ frame_ = pushes \/ (frame_ = 0 /\ frame = pushes)
    /\ inited /\ chunks = NoChunks => queued.frame = frame
    /\ queued.frame \in Nat /\ sent \in Nat
    /\ frame <= pushes /\ (chunks = NoChunks => sent <= frame)

OnTheWay == InputTyped /\ Requests /\ Newest

LEMMA OnTheWayInit == ASSUME Init PROVE OnTheWay
<1>1. Requests
  BY DEF Init, Requests
<1>2. Newest
  BY DEF Init, Newest, Nothing, Content
<1> QED BY <1>1, <1>2, InputInit DEF OnTheWay

LEMMA GeneratedContent ==
  ASSUME NEW sizes, NEW source, NEW fr, NEW flag,
         Generate(sizes, Content(source, fr, flag))
  PROVE  /\ queued'.frame = fr /\ (source # "chunks" => queued'.idr = sendIdr')
         /\ sendIdr' <=> ResyncAfterSend \/ ~inited
         /\ inited' = TRUE /\ resync' = FALSE
<1> DEFINE idr == ResyncAfterSend \/ ~inited
<1>1. sendIdr' = idr /\ inited' = TRUE /\ resync' = FALSE
  BY DEF Generate
<1>2. queued'.frame = fr /\ (source # "chunks" => queued'.idr = idr)
  BY DEF Generate, Content
<1> QED BY <1>1, <1>2

\* A tick latches the newest frame, and nothing unlatches chunks.
LEMMA LatchFacts ==
  ASSUME OnTheWay, LatchOnCurrent
  PROVE  /\ chunks' = NoChunks => chunks = NoChunks
         /\ pushes' = pushes /\ frame_' = 0 /\ frame' = pushes
<1>1. /\ chunks' = Latch(h264_chunks_, NoChunks, chunks) /\ frame' = Latch(frame_, 0, frame)
      /\ pushes' = pushes /\ frame_' = 0
  BY DEF LatchOnCurrent
<1>2. frame \in Nat /\ pushes \in Nat
  BY StreamerAssumption DEF OnTheWay, InputTyped
<1>3. frame <= pushes /\ (frame_ = pushes \/ (frame_ = 0 /\ frame = pushes))
  BY DEF OnTheWay, Newest
<1>4. frame' = pushes
  BY <1>1, <1>2, <1>3 DEF Latch
<1> QED BY <1>1, <1>4 DEF Latch

LEMMA OnTheWayFrame == ASSUME OnTheWay, TickFrame PROVE Requests' /\ Newest'
<1>1. PICK sizes \in EncodedSizes : Generate(sizes, Content("frame", frame', FALSE))
  BY DEF TickFrame
<1>2. /\ queued'.frame = frame'
      /\ queued'.idr = sendIdr' /\ (sendIdr' <=> ResyncAfterSend \/ ~inited)
      /\ inited' = TRUE /\ resync' = FALSE
  <2>1. /\ queued'.frame = frame' /\ ("frame" # "chunks" => queued'.idr = sendIdr')
        /\ sendIdr' <=> ResyncAfterSend \/ ~inited
        /\ inited' = TRUE /\ resync' = FALSE
    BY <1>1, GeneratedContent, Zenon
  <2> QED BY <2>1
<1>3. /\ evtUp /\ evtUp' = evtUp /\ trig' = trig /\ chunks' = NoChunks
      /\ SendQueued /\ LatchOnCurrent
  BY DEF TickFrame, TimerFires
<1>4. /\ chunks = NoChunks /\ pushes' = pushes /\ frame_' = 0 /\ frame' = pushes
  BY <1>3, LatchFacts
<1>5. Requests'
  <2>1. ASSUME owed' PROVE trig' \/ queued'.idr
    <3>1. CASE ~inited
      BY <1>2, <3>1
    <3>2. CASE inited
      <4>1. owed /\ ~queued.idr
        BY <1>3, <2>1, <3>2 DEF SendQueued
      <4>2. ~sendIdr /\ (trig \/ resync)
        BY <1>4, <3>2, <4>1 DEF OnTheWay, Requests
      <4> QED BY <1>2, <1>3, <4>2 DEF ResyncAfterSend
    <3> QED BY <3>1, <3>2
  <2> QED BY <1>2, <1>3, <2>1 DEF Requests
<1>6. Newest'
  <2>1. pushes \in Nat /\ frame \in Nat /\ frame <= pushes /\ sent \in Nat /\ sent <= frame
    BY <1>4, StreamerAssumption DEF OnTheWay, InputTyped, Newest
  <2>2. sent' = sent \/ sent' = frame
    BY <1>3, <1>4 DEF SendQueued, padVars, OnTheWay, Newest
  <2>3. sent' \in Nat /\ sent' <= pushes
    BY <2>1, <2>2
  <2> QED BY <1>2, <1>4, <2>1, <2>3 DEF Newest
<1> QED BY <1>5, <1>6

LEMMA OnTheWayOther ==
  ASSUME OnTheWay, TickChunks \/ TickNothing PROVE Requests' /\ Newest'
<1>1. /\ evtUp /\ evtUp' = evtUp /\ LatchOnCurrent
  BY DEF TickChunks, TickNothing, TimerFires
<1>2. /\ chunks' = NoChunks => chunks = NoChunks
      /\ pushes' = pushes /\ frame_' = 0 /\ frame' = pushes
  BY <1>1, LatchFacts
<1>3. /\ pushes \in Nat /\ frame \in Nat /\ sent \in Nat /\ queued.frame \in Nat
      /\ frame <= pushes
  BY StreamerAssumption DEF OnTheWay, InputTyped, Newest
<1>4. CASE TickNothing
  <2>1. UNCHANGED <<trig, resync, owed, inited, sendIdr, queued, sent>> /\ ~inited
    BY <1>4 DEF TickNothing, streamVars, padVars
  <2>2. chunks = NoChunks
    BY <1>2, <1>4 DEF TickNothing
  <2>3. sent <= frame
    BY <2>2 DEF OnTheWay, Newest
  <2> QED BY <1>1, <1>2, <1>3, <2>1, <2>3 DEF Requests, Newest
<1>5. CASE TickChunks
  <2>1. chunks' # NoChunks
    BY <1>5 DEF TickChunks
  <2>2. sent' \in Nat
    BY <1>3, <1>5 DEF TickChunks, SendQueued, padVars, OnTheWay, Newest
  <2>3. queued'.frame = 0
    BY <1>5, GeneratedContent DEF TickChunks
  <2> QED BY <1>1, <1>2, <1>3, <2>1, <2>2, <2>3 DEF Requests, Newest
<1> QED BY <1>4, <1>5

LEMMA OnTheWayNext == ASSUME OnTheWay, [Next]_vars PROVE OnTheWay'
<1>1. InputTyped'
  BY InputNext DEF OnTheWay
<1>2. CASE PushFrame
  <2>1. UNCHANGED <<evtUp, trig, resync, owed, frame, chunks, inited, sendIdr, queued, sent>>
    BY <1>2 DEF PushFrame, latchVars, streamVars, padVars
  <2>2. pushes' = pushes + 1 /\ frame_' = pushes + 1
    BY <1>2 DEF PushFrame
  <2>3. pushes \in Nat /\ frame \in Nat
    BY StreamerAssumption DEF OnTheWay, InputTyped
  <2>4. Requests'
    BY <2>1 DEF OnTheWay, Requests
  <2>5. Newest'
    BY <2>1, <2>2, <2>3 DEF OnTheWay, Newest
  <2> QED BY <1>1, <2>4, <2>5 DEF OnTheWay
<1>3. CASE ResyncStream \/ InitEvents \/ ResyncEvent \/ UNCHANGED vars
           \/ (\E c \in ChunkPushes : PushH264Chunks(c))
           \/ (\E rate \in FrameRates : SetRate(rate))
  <2>1. UNCHANGED <<pushes, frame_, frame, chunks, inited, sendIdr, queued, sent>>
    BY <1>3 DEF ResyncStream, InitEvents, ResyncEvent, vars, PushH264Chunks, SetRate,
                latchVars, streamVars, padVars, pushVars
  <2>2. Newest'
    BY <2>1 DEF OnTheWay, Newest
  <2>3. Requests'
    <3>1. CASE ResyncStream
      <4>1. trig' = (trig \/ evtUp) /\ evtUp' = evtUp
        BY <3>1 DEF ResyncStream
      <4> QED BY <2>1, <4>1 DEF OnTheWay, Requests
    <3>2. CASE InitEvents \/ ResyncEvent
      BY <2>1, <3>2 DEF InitEvents, ResyncEvent, OnTheWay, Requests
    <3>3. CASE UNCHANGED <<evtUp, trig, resync, owed>>
      BY <2>1, <3>3 DEF OnTheWay, Requests
    <3> QED BY <1>3, <3>1, <3>2, <3>3 DEF vars, PushH264Chunks, SetRate
  <2> QED BY <1>1, <2>2, <2>3 DEF OnTheWay
<1>4. CASE Tick
  BY <1>1, <1>4, OnTheWayFrame, OnTheWayOther DEF Tick, OnTheWay
<1> QED BY <1>2, <1>3, <1>4 DEF Next

\* ResyncStream is never lost (video-streamer.cpp:186-190, 214-243): until the
\* IDR it asks for has been sent, the event is triggered or noted, an IDR waits
\* to be sent, or no frame has been made at all, and the first one is an IDR.
\* That includes a request made before the thread has created the event, and one
\* dropped because an IDR has just gone out.  Chunks, which have the
\* application's own IDRs, are excepted.
THEOREM RequestNeverLost ==
  Spec => [](owed => trig \/ resync \/ ~inited \/ queued.idr \/ chunks # NoChunks)
<1>1. OnTheWay => (owed => trig \/ resync \/ ~inited \/ queued.idr \/ chunks # NoChunks)
  BY DEF OnTheWay, Requests
<1> QED BY <1>1, OnTheWayInit, OnTheWayNext, PTL DEF Spec

\* The newest frame that was pushed is not lost between PushFrame and the
\* streamer's thread: it waits or is the latched one (video-streamer.cpp:176-179,
\* 259-264).
THEOREM NewestNeverLost ==
  Spec => [](frame_ = pushes \/ (frame_ = 0 /\ frame = pushes))
<1>1. OnTheWay => frame_ = pushes \/ (frame_ = 0 /\ frame = pushes)
  BY DEF OnTheWay, Newest
<1> QED BY <1>1, OnTheWayInit, OnTheWayNext, PTL DEF Spec

\* As long as no chunks are latched, frames are sent in the order in which they
\* were pushed, older ones never after newer ones: what is sent is what was
\* latched by the tick before (video-streamer.cpp:213-243).
THEOREM FramesInOrder ==
  Spec => [][chunks' = NoChunks => sent <= sent' /\ sent' \in {sent, frame}]_vars
<1>1. OnTheWay /\ [Next]_vars
        => [chunks' = NoChunks => sent <= sent' /\ sent' \in {sent, frame}]_vars
  <2> SUFFICES ASSUME OnTheWay, Next, chunks' = NoChunks
               PROVE  sent <= sent' /\ sent' \in {sent, frame}
    OBVIOUS
  <2>1. CASE TickFrame
    <3>1. SendQueued /\ LatchOnCurrent
      BY <2>1 DEF TickFrame
    <3>2. chunks = NoChunks
      BY <3>1, LatchFacts
    <3>3. sent' = sent \/ sent' = frame
      BY <3>1, <3>2 DEF SendQueued, padVars, OnTheWay, Newest
    <3>4. sent \in Nat /\ frame \in Nat /\ sent <= frame
      BY <3>2, StreamerAssumption DEF OnTheWay, InputTyped, Newest
    <3> QED BY <3>3, <3>4
  <2>2. CASE sent' = sent
    BY <2>2 DEF OnTheWay, Newest
  <2>3. TickFrame \/ sent' = sent
    BY DEF Next, PushFrame, PushH264Chunks, SetRate, ResyncStream, InitEvents, ResyncEvent,
           Tick, TickChunks, TickNothing, padVars
  <2> QED BY <2>1, <2>2, <2>3
<1> QED BY <1>1, OnTheWayInit, OnTheWayNext, PTL DEF Spec
=============================================================================
