------------------------ MODULE InputReceiverProofs -------------------------
(***************************************************************************)
(* Theorems about InputReceiver, for any timeout and any queue of the      *)
(* socket.                                                                 *)
(***************************************************************************)
EXTENDS InputReceiver, SequenceTheorems, TLAPS

Descriptors == {"sock", "timer"}

\* A list of descriptors in which none is listed twice.
Listing(seq) ==
    /\ seq \in Seq(Descriptors)
    /\ \A i, j \in 1 .. Len(seq) : seq[i] = seq[j] => i = j

-----------------------------------------------------------------------------
(* What the operations on lists of descriptors do.                         *)
LEMMA ListingFacts ==
  ASSUME NEW seq, Listing(seq)
  PROVE  Len(seq) \in Nat /\ DOMAIN seq = 1 .. Len(seq)
  BY LenProperties DEF Listing

LEMMA EmptyFacts == Listing(<<>>) /\ \A x : ~Pending(<<>>, x)
  BY DEF Listing, Pending

LEMMA WithFacts ==
  ASSUME NEW seq, Listing(seq), NEW x \in Descriptors
  PROVE  /\ Listing(With(seq, x))
         /\ \A y : Pending(With(seq, x), y) <=> y = x \/ Pending(seq, y)
<1>1. CASE Pending(seq, x)
  BY <1>1 DEF With, Pending
<1>2. CASE ~Pending(seq, x)
  <2> DEFINE n == Len(seq)
             s == Append(seq, x)
  <2>1. n \in Nat /\ DOMAIN seq = 1 .. n /\ With(seq, x) = s
    BY <1>2, ListingFacts DEF With
  <2>2. /\ s \in Seq(Descriptors) /\ Len(s) = n + 1 /\ DOMAIN s = 1 .. n + 1
        /\ \A i \in 1 .. n : s[i] = seq[i]
        /\ s[n + 1] = x
    BY AppendProperties, LenProperties DEF Listing
  <2> HIDE DEF s
  <2>3. \A i \in 1 .. n : seq[i] # x
    BY <1>2, <2>1 DEF Pending
  <2>4. Listing(s)
    <3> SUFFICES ASSUME NEW i \in 1 .. n + 1, NEW j \in 1 .. n + 1, s[i] = s[j]
                 PROVE  i = j
      BY <2>2 DEF Listing
    <3>1. i \in 1 .. n \/ i = n + 1
      BY <2>1
    <3>2. j \in 1 .. n \/ j = n + 1
      BY <2>1
    <3> QED BY <2>2, <2>3, <3>1, <3>2 DEF Listing
  <2>5. ASSUME NEW y PROVE Pending(s, y) <=> y = x \/ Pending(seq, y)
    <3>1. \A i : i \in 1 .. n + 1 <=> i \in 1 .. n \/ i = n + 1
      BY <2>1
    <3> QED BY <2>1, <2>2, <3>1 DEF Pending
  <2> QED BY <2>1, <2>4, <2>5
<1> QED BY <1>1, <1>2

LEMMA TailFacts ==
  ASSUME NEW seq, Listing(seq), seq # <<>>
  PROVE  /\ Head(seq) \in Descriptors /\ Pending(seq, Head(seq))
         /\ Listing(Tail(seq))
         /\ \A y : Pending(Tail(seq), y) <=> y # Head(seq) /\ Pending(seq, y)
<1> DEFINE n == Len(seq)
           t == Tail(seq)
<1>1. n \in Nat /\ DOMAIN seq = 1 .. n /\ seq \in Seq(Descriptors)
  BY ListingFacts DEF Listing
<1>2. n > 0 /\ Head(seq) = seq[1]
  BY <1>1
<1>3. /\ Head(seq) \in Descriptors
      /\ t \in Seq(Descriptors) /\ Len(t) = n - 1
      /\ \A i \in 1 .. Len(t) : t[i] = seq[i + 1]
  BY <1>1, HeadTailProperties
<1>4. DOMAIN t = 1 .. n - 1
  BY <1>3, LenProperties
<1> HIDE DEF t
<1>5. \A i, j \in 1 .. n : seq[i] = seq[j] => i = j
  BY DEF Listing
<1>6. Pending(seq, Head(seq))
  BY <1>1, <1>2 DEF Pending
<1>7. Listing(t)
  <2> SUFFICES ASSUME NEW i \in 1 .. n - 1, NEW j \in 1 .. n - 1, t[i] = t[j]
               PROVE  i = j
    BY <1>3 DEF Listing
  <2>1. i + 1 \in 1 .. n /\ j + 1 \in 1 .. n
    BY <1>1
  <2>2. i + 1 = j + 1
    BY <1>3, <1>5, <2>1
  <2> QED BY <1>1, <2>2
<1>8. ASSUME NEW y PROVE Pending(t, y) <=> y # Head(seq) /\ Pending(seq, y)
  <2>1. ASSUME NEW i \in 1 .. n - 1, t[i] = y
        PROVE  y # Head(seq) /\ Pending(seq, y)
    <3>1. i + 1 \in 1 .. n /\ 1 \in 1 .. n /\ i + 1 # 1
      BY <1>1, <1>2
    <3>2. t[i] = seq[i + 1]
      BY <1>3, <2>1
    <3> QED BY <1>1, <1>2, <1>5, <2>1, <3>1, <3>2 DEF Pending
  <2>2. ASSUME NEW i \in 1 .. n, seq[i] = y, y # Head(seq)
        PROVE  Pending(t, y)
    <3>1. i - 1 \in 1 .. n - 1 /\ (i - 1) + 1 = i
      BY <1>1, <1>2, <2>2
    <3> QED BY <1>3, <1>4, <2>2, <3>1 DEF Pending
  <2> QED BY <1>1, <1>4, <2>1, <2>2 DEF Pending
<1> QED BY <1>3, <1>6, <1>7, <1>8 DEF t

LEMMA WithoutFacts ==
  ASSUME NEW seq, Listing(seq), NEW x
  PROVE  /\ Listing(Without(seq, x))
         /\ \A y : Pending(Without(seq, x), y) <=> y # x /\ Pending(seq, y)
<1> DEFINE n == Len(seq)
<1>1. n \in Nat /\ DOMAIN seq = 1 .. n /\ seq \in Seq(Descriptors)
  BY ListingFacts DEF Listing
<1>2. CASE ~Pending(seq, x)
  <2>1. Without(seq, x) = seq
    BY <1>1, <1>2 DEF Without, RemoveFirst, Pending
  <2> QED BY <1>2, <2>1
<1>3. ASSUME NEW p \in 1 .. n, seq[p] = x
      PROVE  /\ Listing(Without(seq, x))
             /\ \A y : Pending(Without(seq, x), y) <=> y # x /\ Pending(seq, y)
  <2> DEFINE w == RemoveAt(seq, p)
             a == SubSeq(seq, 1, p - 1)
             b == SubSeq(seq, p + 1, n)
  <2>1. \A i, j \in 1 .. n : seq[i] = seq[j] => i = j
    BY DEF Listing
  <2>2. Without(seq, x) = w
    <3>1. {i \in 1 .. n : seq[i] = x} = {p}
      BY <1>3, <2>1
    <3>2. SelectInSeq(seq, LAMBDA v : v = x) = Min({p})
      BY <3>1 DEF SelectInSeq
    <3>3. Min({p}) = p
      BY <1>1 DEF Min
    <3> QED BY <1>3, <3>2, <3>3 DEF Without, RemoveFirst
  <2>3. /\ a \in Seq(Descriptors) /\ Len(a) = p - 1
        /\ \A i \in 1 .. p - 1 : a[i] = seq[i]
    <3>1. \A i \in 1 .. p - 1 : seq[i] \in Descriptors
      BY <1>1, ElementOfSeq
    <3> QED BY <1>1, <3>1, SubSeqProperties
  <2>4. /\ b \in Seq(Descriptors) /\ Len(b) = n - p
        /\ \A i \in 1 .. n - p : b[i] = seq[p + i]
    <3> DEFINE q == p + 1
    <3>1. q \in Int /\ n \in Int /\ \A i \in q .. n : seq[i] \in Descriptors
      BY <1>1, ElementOfSeq
    <3> HIDE DEF q, n
    <3>2. /\ SubSeq(seq, q, n) \in Seq(Descriptors)
          /\ Len(SubSeq(seq, q, n)) = IF q <= n THEN n - q + 1 ELSE 0
          /\ \A i \in 1 .. n - q + 1 : SubSeq(seq, q, n)[i] = seq[q + i - 1]
      BY <1>1, <3>1, SubSeqProperties
    <3> QED BY <1>1, <3>2 DEF q
  <2>5. w = a \o b
    BY DEF RemoveAt
  <2> HIDE DEF a, b, w
  <2>6. /\ w \in Seq(Descriptors) /\ Len(w) = n - 1
        /\ \A i \in 1 .. n - 1 : w[i] = IF i <= p - 1 THEN a[i] ELSE b[i - (p - 1)]
    <3>1. /\ a \o b \in Seq(Descriptors) /\ Len(a \o b) = Len(a) + Len(b)
          /\ \A i \in 1 .. Len(a) + Len(b) :
               (a \o b)[i] = IF i <= Len(a) THEN a[i] ELSE b[i - Len(a)]
      BY <2>3, <2>4, ConcatProperties
    <3>2. Len(a) + Len(b) = n - 1
      BY <1>1, <2>3, <2>4
    <3> QED BY <2>3, <2>5, <3>1, <3>2
  <2>7. DOMAIN w = 1 .. n - 1
    BY <2>6, LenProperties
  <2>8. \A i \in 1 .. n - 1 : w[i] = IF i < p THEN seq[i] ELSE seq[i + 1]
    <3> SUFFICES ASSUME NEW i \in 1 .. n - 1
                 PROVE  w[i] = IF i < p THEN seq[i] ELSE seq[i + 1]
      OBVIOUS
    <3>1. CASE i < p
      <4>1. i \in 1 .. p - 1 /\ i <= p - 1
        BY <1>1, <3>1
      <4> QED BY <2>3, <2>6, <3>1, <4>1
    <3>2. CASE ~(i < p)
      <4>1. i - (p - 1) \in 1 .. n - p /\ ~(i <= p - 1) /\ p + (i - (p - 1)) = i + 1
        BY <1>1, <3>2
      <4> QED BY <2>4, <2>6, <3>2, <4>1
    <3> QED BY <3>1, <3>2
  <2>9. Listing(w)
    <3> SUFFICES ASSUME NEW i \in 1 .. n - 1, NEW j \in 1 .. n - 1, w[i] = w[j]
                 PROVE  i = j
      BY <2>6 DEF Listing
    <3>1. i \in 1 .. n /\ j \in 1 .. n /\ i + 1 \in 1 .. n /\ j + 1 \in 1 .. n
      BY <1>1
    <3>2. (IF i < p THEN i ELSE i + 1) = (IF j < p THEN j ELSE j + 1)
      BY <2>1, <2>8, <3>1
    <3> QED BY <1>1, <3>2
  <2>10. ASSUME NEW y PROVE Pending(w, y) <=> y # x /\ Pending(seq, y)
    <3>1. ASSUME NEW i \in 1 .. n - 1, w[i] = y PROVE y # x /\ Pending(seq, y)
      <4> DEFINE k == IF i < p THEN i ELSE i + 1
      <4>1. k \in 1 .. n /\ k # p
        BY <1>1
      <4>2. seq[k] = y
        BY <2>8, <3>1
      <4> QED BY <1>1, <1>3, <2>1, <4>1, <4>2 DEF Pending
    <3>2. ASSUME NEW i \in 1 .. n, seq[i] = y, y # x PROVE Pending(w, y)
      <4> DEFINE k == IF i < p THEN i ELSE i - 1
      <4>1. k \in 1 .. n - 1 /\ (IF k < p THEN k ELSE k + 1) = i
        BY <1>1, <1>3, <3>2
      <4>2. w[k] = y
        BY <2>8, <3>2, <4>1
      <4> QED BY <2>7, <4>1, <4>2 DEF Pending
    <3> QED BY <1>1, <2>7, <3>1, <3>2 DEF Pending
  <2> QED BY <2>2, <2>9, <2>10
<1> QED BY <1>1, <1>2, <1>3 DEF Pending

-----------------------------------------------------------------------------
(* Types.  A socket that epoll_wait reported still has its datagram when   *)
(* the batch comes to it: the event machine alone takes datagrams out, and *)
(* no batch lists the socket twice.                                        *)
Lists ==
    /\ Listing(order) /\ Listing(batch)
    /\ expired <=> Pending(order, "timer")
    /\ socket # <<>> <=> Pending(order, "sock")
    /\ Pending(batch, "sock") => socket # <<>>

Scalars ==
    /\ current \in {"valid", "invalid"}
    /\ socket \in Seq({"hid", "other"}) /\ Len(socket) <= MaxQueue
    /\ timer \in 1 .. Off
    /\ expired \in BOOLEAN
    /\ silence \in 0 .. Timeout
    /\ quiet \in BOOLEAN

TypeInv == Lists /\ Scalars

LEMMA TypeInit == ASSUME Init PROVE TypeInv
<1>1. Lists
  BY EmptyFacts DEF Init, Lists
<1>2. timer \in 1 .. Off /\ silence \in 0 .. Timeout /\ Len(socket) <= MaxQueue
  BY TimesAssumption DEF Init, Off
<1>3. expired \in BOOLEAN /\ quiet \in BOOLEAN
  BY DEF Init
<1>4. Scalars
  BY <1>2, <1>3 DEF Init, Scalars
<1> QED BY <1>1, <1>4 DEF TypeInv

LEMMA TypeTick == ASSUME TypeInv, Tick PROVE TypeInv'
<1>1. Lists'
  <2>1. batch' = batch /\ socket' = socket
    BY DEF Tick
  <2>2. CASE Expire
    <3>1. order' = With(order, "timer") /\ expired' = TRUE
      BY <2>2 DEF Expire
    <3>2. /\ Listing(With(order, "timer"))
          /\ \A y : Pending(With(order, "timer"), y) <=> y = "timer" \/ Pending(order, y)
      BY WithFacts DEF TypeInv, Lists, Descriptors
    <3>3. expired' <=> Pending(order', "timer")
      BY <3>1, <3>2
    <3>4. Pending(order', "sock") <=> Pending(order, "sock")
      BY <3>1, <3>2
    <3> QED BY <2>1, <3>1, <3>2, <3>3, <3>4 DEF TypeInv, Lists
  <2>3. CASE CountDown
    BY <2>1, <2>3 DEF CountDown, TypeInv, Lists
  <2> QED BY <2>2, <2>3 DEF Tick
<1>2. Scalars'
  <2>1. timer' \in 1 .. Off /\ silence' \in 0 .. Timeout
    BY TimesAssumption DEF Tick, Expire, CountDown, TypeInv, Scalars, Off
  <2>2. expired' \in BOOLEAN
    BY DEF Tick, Expire, CountDown, TypeInv, Scalars
  <2> QED BY <2>1, <2>2 DEF Tick, TypeInv, Scalars
<1> QED BY <1>1, <1>2 DEF TypeInv

LEMMA TypeArrive ==
  ASSUME TypeInv, NEW kind \in {"hid", "other"}, Arrive(kind)
  PROVE  TypeInv'
<1>1. /\ socket' \in Seq({"hid", "other"}) /\ socket' # <<>>
      /\ Len(socket') = Len(socket) + 1
  BY AppendProperties DEF TypeInv, Scalars, Arrive
<1>2. Lists'
  <2>1. order' = With(order, "sock") /\ expired' = expired /\ batch' = batch
    BY DEF Arrive
  <2>2. /\ Listing(With(order, "sock"))
        /\ \A y : Pending(With(order, "sock"), y) <=> y = "sock" \/ Pending(order, y)
    BY WithFacts DEF TypeInv, Lists, Descriptors
  <2>3. Pending(order', "timer") <=> Pending(order, "timer")
    BY <2>1, <2>2
  <2>4. Pending(order', "sock")
    BY <2>1, <2>2
  <2> QED BY <1>1, <2>1, <2>2, <2>3, <2>4 DEF TypeInv, Lists
<1>3. Scalars'
  <2>1. Len(socket) \in Nat /\ Len(socket) < MaxQueue /\ MaxQueue \in Nat
    BY LenProperties, TimesAssumption DEF TypeInv, Scalars, Arrive
  <2>2. Len(socket') <= MaxQueue
    BY <1>1, <2>1
  <2> QED BY <1>1, <2>2 DEF Arrive, TypeInv, Scalars
<1> QED BY <1>2, <1>3 DEF TypeInv

LEMMA TypeEpollWait == ASSUME TypeInv, EpollWait PROVE TypeInv'
  BY DEF EpollWait, TypeInv, Lists, Scalars

LEMMA TypeReceived == ASSUME TypeInv, Received PROVE TypeInv'
<1>1. batch # <<>> /\ Head(batch) = "sock" /\ batch' = Tail(batch)
  BY DEF Received
<1>2. /\ Pending(batch, "sock") /\ Listing(Tail(batch))
      /\ \A y : Pending(Tail(batch), y) <=> y # "sock" /\ Pending(batch, y)
  BY <1>1, TailFacts DEF TypeInv, Lists
<1>3. socket # <<>>
  BY <1>2 DEF TypeInv, Lists
<1>4. /\ Len(socket) \in Nat /\ Len(socket) > 0
      /\ Head(socket) \in {"hid", "other"}
      /\ socket' \in Seq({"hid", "other"}) /\ Len(socket') = Len(socket) - 1
  <2>1. socket \in Seq({"hid", "other"}) /\ socket' = Tail(socket)
    BY DEF TypeInv, Scalars, Received
  <2>2. Len(socket) \in Nat /\ Len(socket) # 0
    BY <1>3, <2>1, LenProperties, EmptySeq
  <2> QED BY <1>3, <2>1, <2>2, HeadTailProperties
<1>5. socket' # <<>> <=> Len(socket) > 1
  <2>1. socket' = <<>> <=> Len(socket') = 0
    BY <1>4, EmptySeq
  <2> QED BY <1>4, <2>1
<1>6. Scalars'
  <2>1. Len(socket') <= MaxQueue
    BY <1>4, TimesAssumption DEF TypeInv, Scalars
  <2>2. current' \in {"valid", "invalid"}
    BY DEF Received, ProcessInputMessage, TypeInv, Scalars
  <2>3. timer' \in 1 .. Off /\ silence' \in 0 .. Timeout
    BY TimesAssumption DEF Received, RearmTimer, Off
  <2> QED BY <1>4, <2>1, <2>2, <2>3 DEF Received, RearmTimer, TypeInv, Scalars
<1>7. Lists'
  <2> DEFINE o == Without(order, "timer")
  <2>1. /\ Listing(o)
        /\ \A y : Pending(o, y) <=> y # "timer" /\ Pending(order, y)
    BY WithoutFacts DEF TypeInv, Lists
  <2> HIDE DEF o
  <2>2. order' = IF Len(socket) > 1 THEN o ELSE Without(o, "sock")
    BY DEF Received, o
  <2>3. /\ Listing(Without(o, "sock"))
        /\ \A y : Pending(Without(o, "sock"), y) <=> y # "sock" /\ Pending(o, y)
    BY <2>1, WithoutFacts
  <2>4. Listing(order') /\ ~Pending(order', "timer")
    BY <2>1, <2>2, <2>3
  <2>5. Pending(order', "sock") <=> Len(socket) > 1
    BY <1>3, <2>1, <2>2, <2>3 DEF TypeInv, Lists
  <2>6. expired' = FALSE
    BY DEF Received, RearmTimer
  <2>7. Listing(batch') /\ ~Pending(batch', "sock")
    BY <1>1, <1>2
  <2> QED BY <1>5, <2>4, <2>5, <2>6, <2>7 DEF Lists
<1> QED BY <1>6, <1>7 DEF TypeInv

LEMMA TypeTimedOut == ASSUME TypeInv, TimedOut PROVE TypeInv'
<1>1. batch # <<>> /\ Head(batch) = "timer" /\ batch' = Tail(batch)
  BY DEF TimedOut
<1>2. /\ Listing(Tail(batch))
      /\ \A y : Pending(Tail(batch), y) <=> y # "timer" /\ Pending(batch, y)
  BY <1>1, TailFacts DEF TypeInv, Lists
<1>3. /\ Listing(Without(order, "timer"))
      /\ \A y : Pending(Without(order, "timer"), y) <=> y # "timer" /\ Pending(order, y)
  BY WithoutFacts DEF TypeInv, Lists
<1>4. order' = Without(order, "timer") /\ expired' = FALSE /\ socket' = socket
  BY DEF TimedOut
<1>5. ~Pending(order', "timer") /\ (Pending(order', "sock") <=> Pending(order, "sock"))
  BY <1>3, <1>4
<1>6. Pending(batch', "sock") => Pending(batch, "sock")
  BY <1>1, <1>2
<1>7. Lists'
  BY <1>1, <1>2, <1>3, <1>4, <1>5, <1>6 DEF TypeInv, Lists
<1>8. Scalars'
  BY DEF TimedOut, ProcessInputTimeout, TypeInv, Scalars
<1> QED BY <1>7, <1>8 DEF TypeInv

LEMMA TypeNext == ASSUME TypeInv, [Next]_vars PROVE TypeInv'
<1>1. CASE GoQuiet
  BY <1>1 DEF GoQuiet, TypeInv, Lists, Scalars
<1>2. CASE UNCHANGED vars
  BY <1>2 DEF vars, TypeInv, Lists, Scalars
<1> QED BY <1>1, <1>2, TypeTick, TypeArrive, TypeEpollWait, TypeReceived, TypeTimedOut
        DEF Next, ProcessEvents

\* The types hold; what the event machine believes to be ready is ready, and
\* the callback of the socket never finds it empty (udp.cpp:149-163).
THEOREM TypeCorrect == Spec => []TypeOK
<1>1. TypeInv => TypeOK
  BY DEF TypeInv, Lists, Scalars, Listing, Descriptors, TypeOK
<1> QED BY <1>1, TypeInit, TypeNext, PTL DEF Spec

-----------------------------------------------------------------------------
(* Valid input that is not about to be timed out was received so recently  *)
(* that the timer still has to run for what is left of the timeout.        *)
TimeoutDue ==
    current = "valid" =>
        \/ Pending(order, "timer") \/ Pending(batch, "timer")
        \/ timer + silence <= Timeout

LEMMA TimeoutNext == ASSUME TypeInv, TimeoutDue, [Next]_vars PROVE TimeoutDue'
<1> SUFFICES ASSUME current' = "valid"
             PROVE  \/ Pending(order', "timer") \/ Pending(batch', "timer")
                    \/ timer' + silence' <= Timeout
  BY DEF TimeoutDue
<1>0. timer \in 1 .. Off /\ silence \in 0 .. Timeout /\ Timeout \in Nat
  BY TimesAssumption DEF TypeInv, Scalars
<1>1. CASE Tick
  <2>1. current = "valid" /\ batch' = batch
    BY <1>1 DEF Tick
  <2>2. CASE Expire
    <3>1. Pending(With(order, "timer"), "timer")
      BY WithFacts DEF TypeInv, Lists, Descriptors
    <3> QED BY <2>2, <3>1 DEF Expire
  <2>3. CASE CountDown
    <3>1. order' = order
      BY <2>3 DEF CountDown
    <3>2. timer + silence <= Timeout => timer' + silence' <= Timeout
      BY <1>0, <1>1, <2>3 DEF Tick, CountDown, Off
    <3> QED BY <2>1, <3>1, <3>2 DEF TimeoutDue
  <2> QED BY <1>1, <2>2, <2>3 DEF Tick
<1>2. ASSUME NEW kind \in {"hid", "other"}, Arrive(kind)
      PROVE  \/ Pending(order', "timer") \/ Pending(batch', "timer")
             \/ timer' + silence' <= Timeout
  <2>1. /\ current = "valid" /\ batch' = batch /\ timer' = timer /\ silence' = silence
        /\ order' = With(order, "sock")
    BY <1>2 DEF Arrive
  <2>2. Pending(order, "timer") => Pending(With(order, "sock"), "timer")
    BY WithFacts DEF TypeInv, Lists, Descriptors
  <2> QED BY <2>1, <2>2 DEF TimeoutDue
<1>3. CASE GoQuiet \/ UNCHANGED vars
  BY <1>3 DEF GoQuiet, vars, TimeoutDue
<1>4. CASE EpollWait
  <2>1. batch' = order /\ ~Pending(batch, "timer")
    BY <1>4, EmptyFacts DEF EpollWait
  <2> QED BY <1>4, <2>1 DEF EpollWait, TimeoutDue
<1>5. CASE Received
  BY <1>0, <1>5 DEF Received, RearmTimer
<1>6. CASE TimedOut
  BY <1>6 DEF TimedOut, ProcessInputTimeout
<1> QED BY <1>1, <1>2, <1>3, <1>4, <1>5, <1>6 DEF Next, ProcessEvents

\* However arrivals, expiries and batches interleave, input that is valid after
\* a timeout without packets has its timeout pending: rearming the timer
\* (udp.cpp:150) forgets an expiration only together with a fresh packet.
THEOREM NeverForgotten == Spec => []StaleNotForgotten
<1>1. Init => TimeoutDue
  BY DEF Init, TimeoutDue
<1>2. TypeInv /\ TimeoutDue => StaleNotForgotten
  BY TimesAssumption DEF TypeInv, Scalars, TimeoutDue, StaleNotForgotten
<1> QED BY <1>1, <1>2, TypeInit, TypeNext, TimeoutNext, PTL DEF Spec
=============================================================================
