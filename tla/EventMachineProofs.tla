------------------------ MODULE EventMachineProofs --------------------------
(***************************************************************************)
(* Theorems about EventMachine, for any events, descriptors and firings.   *)
(***************************************************************************)
EXTENDS EventMachine, SequenceTheorems, FiniteSetTheorems, TLAPS

-----------------------------------------------------------------------------
(* What epoll_wait returned: every descriptor at most once.                *)
Holds(seq, e) == \E i \in 1 .. Len(seq) : seq[i] = e

Batch(seq) ==
    /\ seq \in Seq(Fds)
    /\ \A i, j \in 1 .. Len(seq) : seq[i] = seq[j] => i = j

LEMMA EmptyFacts == Batch(<<>>) /\ \A e : ~Holds(<<>>, e)
  BY DEF Batch, Holds

\* An order of the ready descriptors holds these and no other.
LEMMA OrderingFacts ==
  ASSUME NEW S \in SUBSET Fds, NEW seq \in Orderings(S)
  PROVE  Batch(seq) /\ \A e : Holds(seq, e) => e \in S
<1>1. IsFiniteSet(Fds)
  BY EventsAssumption
<1>2. Cardinality(S) \in Nat
  BY <1>1, FS_Subset, FS_CardinalityType
<1> DEFINE n == Cardinality(S)
<1>3. /\ seq \in [1 .. n -> S]
      /\ \A i, j \in DOMAIN seq : seq[i] = seq[j] => i = j
  BY DEF Orderings
<1> HIDE DEF n
<1>4. n \in Nat /\ seq \in [1 .. n -> Fds]
  BY <1>2, <1>3 DEF n
<1>5. seq \in Seq(Fds)
  BY <1>4, SeqDef
<1>6. Len(seq) = n
  BY <1>3, <1>4, <1>5, LenProperties
<1> QED BY <1>3, <1>5, <1>6 DEF Batch, Holds

LEMMA TailFacts ==
  ASSUME NEW seq, Batch(seq), seq # <<>>
  PROVE  /\ Head(seq) \in Fds /\ Holds(seq, Head(seq))
         /\ Batch(Tail(seq))
         /\ \A e : Holds(Tail(seq), e) => e # Head(seq) /\ Holds(seq, e)
<1> DEFINE n == Len(seq)
           t == Tail(seq)
<1>1. seq \in Seq(Fds) /\ n \in Nat /\ n > 0 /\ Head(seq) = seq[1]
  BY LenProperties, EmptySeq DEF Batch
<1>2. /\ Head(seq) \in Fds
      /\ t \in Seq(Fds) /\ Len(t) = n - 1
      /\ \A i \in 1 .. n - 1 : t[i] = seq[i + 1]
  BY <1>1, HeadTailProperties
<1> HIDE DEF t
<1>3. \A i, j \in 1 .. n : seq[i] = seq[j] => i = j
  BY DEF Batch
<1>4. Holds(seq, Head(seq))
  BY <1>1 DEF Holds
<1>5. Batch(t)
  <2> SUFFICES ASSUME NEW i \in 1 .. n - 1, NEW j \in 1 .. n - 1, t[i] = t[j]
               PROVE  i = j
    BY <1>2 DEF Batch
  <2>1. i + 1 \in 1 .. n /\ j + 1 \in 1 .. n
    BY <1>1
  <2>2. i + 1 = j + 1
    BY <1>2, <1>3, <2>1
  <2> QED BY <1>1, <2>2
<1>6. ASSUME NEW e, NEW i \in 1 .. n - 1, t[i] = e
      PROVE  e # Head(seq) /\ Holds(seq, e)
  <2>1. i + 1 \in 1 .. n /\ 1 \in 1 .. n /\ i + 1 # 1
    BY <1>1
  <2>2. e = seq[i + 1]
    BY <1>2, <1>6
  <2> QED BY <1>1, <1>3, <2>1, <2>2 DEF Holds
<1>7. \A e : Holds(t, e) => e # Head(seq) /\ Holds(seq, e)
  BY <1>2, <1>6 DEF Holds
<1> QED BY <1>2, <1>4, <1>5, <1>7 DEF t

-----------------------------------------------------------------------------
(* The life of the thread.  The stop event is ready, or in the batch, only *)
(* while the owner waits in StopEM, so running_ is cleared under a StopEM  *)
(* and the thread has ended before that returns.  Its descriptor may have  *)
(* another event later.                                                    *)
Threads == {"none", "init", "loop", "batch", "exited"}

Sets ==
    /\ running \in BOOLEAN
    /\ events \in [Fds -> Events \cup {NULL}] /\ ready \subseteq Fds
    /\ thread \in Threads
    /\ owner \in {"idle", "joining"}
    /\ Batch(batch)
    /\ thread # "batch" => batch = <<>>

Lifetime ==
    /\ running \/ owner = "joining" => thread # "none"
    /\ thread # "none" => running \/ owner = "joining"
    /\ thread = "exited" => ~running
    /\ \A fd \in Fds : events[fd] = Stop =>
          /\ fd = StopFd
          /\ fd \in ready => running /\ owner = "joining"
          /\ Holds(batch, fd) => owner = "joining"

LifeInv == Sets /\ Lifetime

\* Registering a user event disturbs neither.
LEMMA NewEventFacts ==
  ASSUME Sets, NEW e \in Users, NEW fd \in Fds,
         NEW evts \in [Fds -> Events \cup {NULL}], NewEvent(e, fd, evts)
  PROVE  /\ events' \in [Fds -> Events \cup {NULL}]
         /\ events' = [evts EXCEPT ![fd] = e]
         /\ \A g \in Fds : events'[g] = Stop => evts[g] = Stop
  BY EventsAssumption DEF NewEvent, Events

LEMMA LifeInit == ASSUME Init PROVE LifeInv
<1>1. Batch(batch) /\ \A fd : ~Holds(batch, fd)
  BY EmptyFacts DEF Init
<1>2. running \in BOOLEAN /\ ~running
  BY DEF Init
<1>3. events \in [Fds -> Events \cup {NULL}] /\ \A fd \in Fds : events[fd] = Stop => fd = StopFd
  BY EventsAssumption DEF Init, Events
<1> QED BY <1>1, <1>2, <1>3 DEF Init, LifeInv, Sets, Lifetime, Threads

LEMMA LifeOwner ==
  ASSUME LifeInv, StartEM \/ StopEM \/ Join
  PROVE  LifeInv'
<1>1. CASE StartEM
  <2>1. Sets'
    BY <1>1 DEF StartEM, LifeInv, Sets, Threads
  <2>2. Lifetime'
    BY <1>1 DEF StartEM, LifeInv, Lifetime
  <2> QED BY <2>1, <2>2 DEF LifeInv
<1>2. CASE StopEM
  <2>1. Sets'
    BY <1>2, EventsAssumption DEF StopEM, LifeInv, Sets, Threads
  <2>2. Lifetime'
    BY <1>2 DEF StopEM, LifeInv, Lifetime
  <2> QED BY <2>1, <2>2 DEF LifeInv
<1>3. CASE Join
  <2>1. Sets'
    BY <1>3 DEF Join, LifeInv, Sets, Threads
  <2>2. batch' = <<>>
    BY <1>3 DEF Join, LifeInv, Sets
  <2>3. \A fd : ~Holds(batch', fd)
    BY <2>2, EmptyFacts
  <2>4. Lifetime'
    BY <1>3, <2>3 DEF Join, LifeInv, Lifetime
  <2> QED BY <2>1, <2>4 DEF LifeInv
<1> QED BY <1>1, <1>2, <1>3

LEMMA LifeLoop ==
  ASSUME LifeInv, InitEventsAndRun \/ LoopExit \/ EpollWait \/ EndOfBatch
  PROVE  LifeInv'
<1>1. CASE InitEventsAndRun
  BY <1>1 DEF InitEventsAndRun, LifeInv, Sets, Lifetime, Threads
<1>2. CASE LoopExit
  BY <1>2 DEF LoopExit, LifeInv, Sets, Lifetime, Threads
<1>3. CASE EndOfBatch
  BY <1>3 DEF EndOfBatch, LifeInv, Sets, Lifetime, Threads
<1>4. CASE EpollWait
  <2>1. ready \in SUBSET Fds /\ batch' \in Orderings(ready)
    BY <1>4 DEF EpollWait, LifeInv, Sets
  <2>3. Batch(batch') /\ \A e : Holds(batch', e) => e \in ready
    BY <2>1, OrderingFacts
  <2>4. Sets'
    BY <1>4, <2>3 DEF EpollWait, LifeInv, Sets, Threads
  <2>5. Lifetime'
    BY <1>4, <2>3 DEF EpollWait, LifeInv, Lifetime
  <2> QED BY <2>4, <2>5 DEF LifeInv
<1> QED BY <1>1, <1>2, <1>3, <1>4

\* Handling a descriptor of the batch.
Handles == \/ SkipErased \/ UserCallback \/ StopCallback
           \/ \E e \in OneShot, fd \in Fds : RetryCallback(e, fd)

LEMMA HandlesFacts ==
  ASSUME Sets, Handles
  PROVE  /\ batch # <<>> /\ batch' = Tail(batch) /\ thread = "batch" /\ thread' = "batch"
         /\ owner' = owner /\ fired' = fired /\ starts' = starts
         /\ Head(batch) \in Fds /\ Holds(batch, Head(batch)) /\ Batch(batch')
         /\ \A e : Holds(batch', e) => e # Head(batch) /\ Holds(batch, e)
<1>1. batch # <<>> /\ batch' = Tail(batch) /\ thread = "batch" /\ thread' = "batch"
      /\ owner' = owner /\ fired' = fired /\ starts' = starts
  BY DEF Handles, SkipErased, UserCallback, StopCallback, RetryCallback, Call, Take
<1> QED BY <1>1, TailFacts DEF Sets

\* What the two kinds of callback leave in events_.
LEMMA ErasedFacts ==
  ASSUME Sets, NEW fd \in Fds
  PROVE  /\ Erased(fd) \in [Fds -> Events \cup {NULL}]
         /\ Erased(fd)[fd] = NULL
         /\ \A g \in Fds : g # fd => Erased(fd)[g] = events[g]
  BY DEF Erased, Sets

LEMMA RetryFacts ==
  ASSUME Sets, Handles, NEW e \in OneShot, NEW fd \in Fds, RetryCallback(e, fd)
  PROVE  LET h == Head(batch) IN
         /\ h \in Fds /\ fd # h /\ events[fd] = NULL /\ events[h] \in OneShot
         /\ events' \in [Fds -> Events \cup {NULL}]
         /\ events'[fd] = e /\ events'[h] = NULL
         /\ \A g \in Fds : g # fd /\ g # h => events'[g] = events[g]
         /\ ready' = ready \ {h} /\ running' = running
         /\ runs' = [runs EXCEPT ![events[h]] = @ + 1]
         /\ e \notin created /\ created' = created \cup {e} /\ fresh' = fresh \cup {e}
<1> DEFINE h == Head(batch)
<1>1. h \in Fds
  BY HandlesFacts
<1>2. /\ events[h] \in OneShot /\ events[fd] = NULL /\ NewEvent(e, fd, Erased(h))
      /\ ready' = ready \ {h} /\ running' = running
      /\ runs' = [runs EXCEPT ![events[h]] = @ + 1]
  BY DEF RetryCallback, Call
<1>3. fd # h
  BY <1>2, EventsAssumption DEF Events, Users
<1>4. /\ Erased(h) \in [Fds -> Events \cup {NULL}] /\ Erased(h)[h] = NULL
      /\ \A g \in Fds : g # h => Erased(h)[g] = events[g]
  BY <1>1, ErasedFacts
<1>5. /\ events' \in [Fds -> Events \cup {NULL}] /\ events' = [Erased(h) EXCEPT ![fd] = e]
  BY <1>2, <1>4, NewEventFacts DEF Users
<1>6. e \notin created /\ created' = created \cup {e} /\ fresh' = fresh \cup {e}
  BY <1>2 DEF NewEvent
<1> HIDE DEF h
<1>7. /\ events'[fd] = e /\ events'[h] = NULL
      /\ \A g \in Fds : g # fd /\ g # h => events'[g] = events[g]
  BY <1>1, <1>3, <1>4, <1>5
<1> QED BY <1>1, <1>2, <1>3, <1>5, <1>6, <1>7 DEF h

LEMMA CallbackFacts ==
  ASSUME Sets, Handles, UserCallback
  PROVE  LET h == Head(batch) IN
         /\ h \in Fds /\ events[h] \in Users
         /\ events' \in [Fds -> Events \cup {NULL}]
         /\ events'[h] = IF events[h] \in Repeated THEN events[h] ELSE NULL
         /\ \A g \in Fds : g # h => events'[g] = events[g]
         /\ ready' = ready \ {h} /\ running' = running
         /\ runs' = [runs EXCEPT ![events[h]] = @ + 1]
         /\ created' = created /\ fresh' = fresh
<1> DEFINE h == Head(batch)
<1>1. h \in Fds
  BY HandlesFacts
<1>2. /\ events[h] \in Users /\ ready' = ready \ {h} /\ running' = running
      /\ runs' = [runs EXCEPT ![events[h]] = @ + 1]
      /\ created' = created /\ fresh' = fresh
      /\ events' = IF events[h] \in Repeated THEN events ELSE Erased(h)
  BY DEF UserCallback, Call, Read
<1> HIDE DEF h
<1>3. /\ events' \in [Fds -> Events \cup {NULL}]
      /\ events'[h] = IF events[h] \in Repeated THEN events[h] ELSE NULL
      /\ \A g \in Fds : g # h => events'[g] = events[g]
  BY <1>1, <1>2, ErasedFacts DEF Sets
<1> QED BY <1>1, <1>2, <1>3 DEF h

LEMMA LifeCallback ==
  ASSUME LifeInv, Handles
  PROVE  LifeInv'
<1> DEFINE h == Head(batch)
<1>1. /\ batch # <<>> /\ thread = "batch" /\ thread' = "batch" /\ owner' = owner
      /\ h \in Fds /\ Holds(batch, h) /\ Batch(batch')
      /\ \A e : Holds(batch', e) => e # h /\ Holds(batch, e)
  BY HandlesFacts DEF LifeInv
<1>2. Stop # NULL /\ Stop \notin Users
  BY EventsAssumption DEF Events
<1>3. CASE SkipErased
  BY <1>1, <1>3 DEF SkipErased, LifeInv, Sets, Lifetime
<1>4. ASSUME /\ events' \in [Fds -> Events \cup {NULL}] /\ ready' = ready \ {h}
             /\ \A g \in Fds : events'[g] = Stop => events[g] = Stop
             /\ running' = running
      PROVE  LifeInv'
  BY <1>1, <1>4 DEF LifeInv, Sets, Lifetime
<1>5. CASE UserCallback
  <2>1. \A g \in Fds : events'[g] = Stop => events[g] = Stop
    BY <1>2, <1>5, CallbackFacts DEF LifeInv
  <2> QED BY <1>4, <1>5, <2>1, CallbackFacts DEF LifeInv
<1>6. ASSUME NEW e \in OneShot, NEW fd \in Fds, RetryCallback(e, fd) PROVE LifeInv'
  <2>1. \A g \in Fds : events'[g] = Stop => events[g] = Stop
    BY <1>2, <1>6, RetryFacts DEF LifeInv, Users
  <2> QED BY <1>4, <1>6, <2>1, RetryFacts DEF LifeInv
<1>7. CASE StopCallback
  <2>1. owner = "joining" /\ running' = FALSE /\ ready' = ready \ {h}
    BY <1>1, <1>7 DEF StopCallback, LifeInv, Lifetime
  <2>2. /\ events' \in [Fds -> Events \cup {NULL}]
        /\ \A g \in Fds : events'[g] # Stop
    BY <1>2, <1>7 DEF StopCallback, ClearUserEvents, LifeInv, Sets
  <2>3. Sets'
    BY <1>1, <2>1, <2>2 DEF LifeInv, Sets
  <2>4. Lifetime'
    BY <1>1, <2>1, <2>2 DEF Lifetime
  <2> QED BY <2>3, <2>4 DEF LifeInv
<1> QED BY <1>3, <1>5, <1>6, <1>7 DEF Handles

LEMMA LifeNext == ASSUME LifeInv, [Next]_vars PROVE LifeInv'
<1>1. ASSUME NEW fd \in Fds, CancelEvent(fd) PROVE LifeInv'
  <2>1. /\ events' \in [Fds -> Events \cup {NULL}] /\ ready' \subseteq ready
        /\ \A g \in Fds : events'[g] = Stop => events[g] = Stop
    BY <1>1, ErasedFacts, EventsAssumption DEF CancelEvent, LifeInv, Events
  <2> QED BY <1>1, <2>1 DEF CancelEvent, LifeInv, Sets, Lifetime
<1>2. ASSUME NEW fd \in Fds, Fire(fd) PROVE LifeInv'
  <2>1. events[fd] # Stop
    BY <1>2, EventsAssumption DEF Fire
  <2> QED BY <1>2, <2>1 DEF Fire, LifeInv, Sets, Lifetime
<1>3. ASSUME NEW e \in Users, NEW fd \in Fds, NewEvent(e, fd, events),
             UNCHANGED <<running, ready, thread, batch, owner>>
      PROVE  LifeInv'
  <2>1. /\ events' \in [Fds -> Events \cup {NULL}]
        /\ \A g \in Fds : events'[g] = Stop => events[g] = Stop
    BY <1>3, NewEventFacts DEF LifeInv, Sets
  <2> QED BY <1>3, <2>1 DEF LifeInv, Sets, Lifetime
<1>4. ASSUME NEW e \in Repeated, NEW fd \in Fds, InitEvent(e, fd) PROVE LifeInv'
  BY <1>3, <1>4 DEF InitEvent, Users
<1>5. ASSUME NEW e \in OneShot, NEW fd \in Fds, NewTimerEvent(e, fd) PROVE LifeInv'
  BY <1>3, <1>5 DEF NewTimerEvent, Users
<1>6. CASE UNCHANGED vars
  BY <1>6 DEF vars, LifeInv, Sets, Lifetime
<1> QED BY <1>1, <1>2, <1>4, <1>5, <1>6, LifeOwner, LifeLoop, LifeCallback
        DEF Next, ProcessEvents, Handles

\* The types hold: StartEM sets running_ before the thread exists and Join ends
\* the thread's life (events.cpp:184-194), so no machine runs without its thread.
THEOREM TypeCorrect == Spec => []TypeOK
<1>1. LifeInv => TypeOK
  BY DEF LifeInv, Sets, Lifetime, Batch, Threads, TypeOK
<1> QED BY <1>1, LifeInit, LifeNext, PTL DEF Spec

\* Only the thread, in a batch, calls callbacks.
LEMMA WhoRuns ==
  ASSUME Next, runs' # runs
  PROVE  Handles /\ (UserCallback \/ \E e \in OneShot, fd \in Fds : RetryCallback(e, fd))
  BY DEF Next, ProcessEvents, StartEM, StopEM, Join, InitEvent, InitEventsAndRun, LoopExit,
         EpollWait, EndOfBatch, SkipErased, StopCallback, NewTimerEvent, CancelEvent, Fire,
         Handles

\* Once StopEM has returned no callback runs, whatever the batch still held
\* when the stop event was handled (events.cpp:128-151).
THEOREM AlwaysQuietAfterStop == Spec => QuietAfterStop
<1>1. LifeInv /\ [Next]_vars => [runs' # runs => running \/ owner = "joining"]_vars
  <2> SUFFICES ASSUME LifeInv, Next, runs' # runs PROVE running \/ owner = "joining"
    OBVIOUS
  <2>1. Handles
    BY WhoRuns
  <2>2. thread # "none"
    BY <2>1, HandlesFacts DEF LifeInv
  <2> QED BY <2>2 DEF LifeInv, Lifetime
<1> QED BY <1>1, LifeInit, LifeNext, PTL DEF Spec, QuietAfterStop

-----------------------------------------------------------------------------
(* Callbacks and firings.  A descriptor that epoll_wait reported and that  *)
(* still has the event it had then is still ready: it is listed once, and  *)
(* who erases the event makes it unready.  If it has another event, that   *)
(* was made since, and so is a one-shot timer.                             *)
Lives ==
    /\ created \subseteq Users /\ fresh \subseteq created
    /\ fired \in [Users -> Nat] /\ runs \in [Users -> Nat]
    /\ \A fd \in Fds : events[fd] \in Users => events[fd] \in created
    /\ \A fd, g \in Fds : events[fd] \in Users /\ events[fd] = events[g] => fd = g
    /\ \A fd \in ready : events[fd] # NULL
    /\ \A e \in Users \ created : runs[e] = 0 /\ fired[e] = 0

Counted ==
    /\ \A e \in OneShot : fired[e] <= 1 /\ runs[e] <= 1
    /\ \A e \in Repeated : runs[e] <= fired[e]
    /\ \A fd \in Fds : events[fd] \in OneShot => runs[events[fd]] = 0
    /\ \A fd \in ready : events[fd] \in Users => runs[events[fd]] < fired[events[fd]]

Reported ==
    /\ thread = "batch" => fresh \subseteq OneShot
    /\ \A fd \in Fds : Holds(batch, fd) /\ events[fd] \in Users =>
          fd \in ready \/ events[fd] \in fresh

RunsInv == Lives /\ Counted /\ Reported

LEMMA RunsInit == ASSUME Init PROVE RunsInv
<1>1. \A fd \in Fds : events[fd] \notin Users
  BY EventsAssumption DEF Init, Events
<1> QED BY <1>1, EmptyFacts DEF Init, RunsInv, Lives, Counted, Reported, Users

\* Steps that touch no user event.
LEMMA RunsFrame ==
  ASSUME Sets, RunsInv,
         UNCHANGED <<created, fired, runs>>, fresh' \in {fresh, {}},
         events' \in [Fds -> Events \cup {NULL}],
         \A fd \in Fds : events'[fd] \in Users => events'[fd] = events[fd],
         \A fd \in ready' : /\ fd \in Fds /\ events'[fd] # NULL
                            /\ events'[fd] \in Users => fd \in ready
  PROVE  Lives' /\ Counted'
<1>1. Lives'
  BY DEF RunsInv, Lives
<1>2. \A e \in OneShot : e \in Users
  BY DEF Users
<1>3. Counted'
  BY <1>2 DEF RunsInv, Counted
<1> QED BY <1>1, <1>3

LEMMA RunsQuiet ==
  ASSUME LifeInv, RunsInv,
         \/ StartEM \/ StopEM \/ Join \/ InitEventsAndRun \/ LoopExit \/ EpollWait
         \/ EndOfBatch \/ SkipErased \/ StopCallback \/ UNCHANGED vars
         \/ \E fd \in Fds : CancelEvent(fd)
  PROVE  RunsInv'
<1>1. Stop \notin Users /\ Stop # NULL /\ NULL \notin Users
  BY EventsAssumption DEF Events
<1>2. CASE StartEM \/ StopEM \/ Join \/ InitEventsAndRun \/ LoopExit \/ EndOfBatch
           \/ UNCHANGED vars
  <2>1. /\ fired' = fired /\ runs' = runs /\ batch' = batch /\ events' = events
        /\ created' = created /\ fresh' = fresh
        /\ (thread' = "batch" => thread = "batch")
        /\ ready \subseteq ready'
        /\ \A fd \in ready' : fd \in ready \/ (fd = StopFd /\ events[fd] = Stop)
    BY <1>2 DEF StartEM, StopEM, Join, InitEventsAndRun, LoopExit, EndOfBatch, vars
  <2>2. Lives' /\ Counted'
    BY <1>1, <2>1, RunsFrame, EventsAssumption DEF LifeInv, Sets, RunsInv, Lives
  <2>3. Reported'
    BY <2>1 DEF RunsInv, Reported
  <2> QED BY <2>2, <2>3 DEF RunsInv
<1>3. CASE EpollWait
  <2>1. /\ UNCHANGED <<created, fired, runs, events, ready>> /\ fresh' = {}
        /\ batch' \in Orderings(ready) /\ ready \in SUBSET Fds
    BY <1>3 DEF EpollWait, LifeInv, Sets
  <2>2. \A fd : Holds(batch', fd) => fd \in ready
    BY <2>1, OrderingFacts
  <2>3. Lives' /\ Counted'
    BY <2>1, RunsFrame DEF LifeInv, Sets, RunsInv, Lives
  <2>4. Reported'
    BY <2>1, <2>2 DEF Reported
  <2> QED BY <2>3, <2>4 DEF RunsInv
<1>4. CASE SkipErased \/ StopCallback
  <2> DEFINE h == Head(batch)
  <2>1. /\ thread' = thread /\ h \in Fds
        /\ \A e : Holds(batch', e) => e # h /\ Holds(batch, e)
    BY <1>4, HandlesFacts DEF Handles, LifeInv
  <2>2. /\ events' \in [Fds -> Events \cup {NULL}]
        /\ UNCHANGED <<created, fired, runs, fresh>>
        /\ \A fd \in Fds : events'[fd] \in Users => events'[fd] = events[fd]
        /\ \A fd \in ready' : fd \in ready /\ events'[fd] # NULL
        /\ ready \ {h} \subseteq ready'
    <3>1. CASE SkipErased
      BY <3>1 DEF SkipErased, LifeInv, Sets, RunsInv, Lives
    <3>2. CASE StopCallback
      <4>1. h = StopFd
        BY <2>1, <3>2 DEF StopCallback, LifeInv, Lifetime
      <4>2. /\ events' = [fd \in Fds |-> IF events[fd] = Stop THEN NULL ELSE events[fd]]
            /\ ready' = ready \ {h} /\ UNCHANGED <<created, fired, runs, fresh>>
        BY <3>2 DEF StopCallback, ClearUserEvents
      <4>3. \A fd \in Fds : fd # h => events[fd] # Stop
        BY <4>1 DEF LifeInv, Lifetime
      <4> HIDE DEF h
      <4> QED BY <1>1, <4>2, <4>3 DEF LifeInv, Sets, RunsInv, Lives
    <3> QED BY <1>4, <3>1, <3>2
  <2> HIDE DEF h
  <2>3. Lives' /\ Counted'
    BY <2>2, RunsFrame DEF LifeInv, Sets
  <2>4. Reported'
    BY <2>1, <2>2 DEF RunsInv, Reported
  <2> QED BY <2>3, <2>4 DEF RunsInv
<1>5. ASSUME NEW fd \in Fds, CancelEvent(fd) PROVE RunsInv'
  <2>1. /\ events' = Erased(fd) /\ ready' = ready \ {fd}
        /\ UNCHANGED <<created, fired, runs, fresh, thread, batch>>
    BY <1>5 DEF CancelEvent
  <2>2. /\ events' \in [Fds -> Events \cup {NULL}] /\ events'[fd] = NULL
        /\ \A g \in Fds : g # fd => events'[g] = events[g]
    BY <2>1, ErasedFacts DEF LifeInv
  <2>3. Lives' /\ Counted'
    BY <1>1, <2>1, <2>2, RunsFrame DEF LifeInv, Sets, RunsInv, Lives
  <2>4. Reported'
    BY <1>1, <2>1, <2>2 DEF RunsInv, Reported
  <2> QED BY <2>3, <2>4 DEF RunsInv
<1> QED BY <1>2, <1>3, <1>4, <1>5

\* A new event has not fired and has not run.
LEMMA RunsNewEvent ==
  ASSUME Sets, RunsInv, NEW e \in Users, NEW fd \in Fds, NewEvent(e, fd, events),
         UNCHANGED <<ready, thread, batch, fired, runs>>,
         thread = "batch" => e \in OneShot
  PROVE  RunsInv'
<1>1. /\ events' \in [Fds -> Events \cup {NULL}] /\ events'[fd] = e
      /\ \A g \in Fds : g # fd => events'[g] = events[g]
  BY NewEventFacts DEF Sets
<1>2. /\ e \notin created /\ created' = created \cup {e} /\ fresh' = fresh \cup {e}
      /\ events[fd] = NULL
  BY DEF NewEvent
<1>3. e # NULL /\ runs[e] = 0 /\ fired[e] = 0 /\ fd \notin ready
  BY <1>2, EventsAssumption DEF Events, RunsInv, Lives
<1>4. Lives'
  <2>1. \A f, g \in Fds : events'[f] \in Users /\ events'[f] = events'[g] => f = g
    BY <1>1, <1>2 DEF RunsInv, Lives
  <2> QED BY <1>1, <1>2, <1>3, <2>1 DEF RunsInv, Lives, Sets
<1>5. Counted'
  BY <1>1, <1>3 DEF RunsInv, Counted, Sets
<1>6. Reported'
  BY <1>1, <1>2 DEF RunsInv, Reported
<1> QED BY <1>4, <1>5, <1>6 DEF RunsInv

\* The callback that a descriptor of the batch leads to is due, or fresh.
LEMMA DueFacts ==
  ASSUME LifeInv, RunsInv, NEW h \in Fds, Holds(batch, h), thread = "batch",
         events[h] \in Users
  PROVE  /\ events[h] \in Repeated => runs[events[h]] < fired[events[h]]
         /\ events[h] \in OneShot  => /\ runs[events[h]] = 0
                                      /\ fired[events[h]] = 1 \/ events[h] \in fresh
<1>1. h \in ready \/ events[h] \in fresh
  BY DEF RunsInv, Reported
<1>2. fresh \subseteq OneShot
  BY DEF RunsInv, Reported
<1>3. h \in ready => runs[events[h]] < fired[events[h]]
  BY DEF RunsInv, Counted
<1>4. runs[events[h]] \in Nat /\ fired[events[h]] \in Nat
  BY DEF RunsInv, Lives
<1>5. CASE events[h] \in Repeated
  BY <1>1, <1>2, <1>3, <1>5, EventsAssumption
<1>6. CASE events[h] \in OneShot
  <2>1. runs[events[h]] = 0 /\ fired[events[h]] <= 1
    BY <1>6 DEF RunsInv, Counted
  <2>2. events[h] \notin Repeated
    BY <1>6, EventsAssumption
  <2>3. CASE h \in ready
    BY <1>3, <1>4, <2>1, <2>2, <2>3
  <2>4. CASE events[h] \in fresh
    BY <2>1, <2>2, <2>4
  <2> QED BY <1>1, <2>3, <2>4
<1> QED BY <1>5, <1>6 DEF Users

\* The counters after the callback of an event that was due, or fresh.
LEMMA CountRun ==
  ASSUME LifeInv, RunsInv, NEW h \in Fds, Holds(batch, h), thread = "batch",
         events[h] \in Users, runs' = [runs EXCEPT ![events[h]] = @ + 1], fired' = fired
  PROVE  /\ runs' \in [Users -> Nat]
         /\ runs'[events[h]] = runs[events[h]] + 1
         /\ \A e \in Users : e # events[h] => runs'[e] = runs[e]
         /\ \A e \in OneShot : fired'[e] <= 1 /\ runs'[e] <= 1
         /\ \A e \in Repeated : runs'[e] <= fired'[e]
<1> DEFINE c == events[h]
<1>1. /\ c \in Repeated => runs[c] < fired[c]
      /\ c \in OneShot  => runs[c] = 0
  BY DueFacts
<1>2. runs \in [Users -> Nat] /\ fired \in [Users -> Nat] /\ c \in Users
  BY DEF RunsInv, Lives
<1> HIDE DEF c
<1>3. /\ runs' \in [Users -> Nat] /\ runs'[c] = runs[c] + 1
      /\ \A e \in Users : e # c => runs'[e] = runs[e]
  BY <1>2 DEF c
<1>4. ASSUME NEW e \in OneShot PROVE fired'[e] <= 1 /\ runs'[e] <= 1
  <2>1. e \in Users /\ fired[e] <= 1 /\ runs[e] <= 1
    BY DEF RunsInv, Counted, Users
  <2>2. CASE e = c
    BY <1>1, <1>3, <2>1, <2>2
  <2>3. CASE e # c
    BY <1>3, <2>1, <2>3
  <2> QED BY <2>2, <2>3
<1>5. ASSUME NEW e \in Repeated PROVE runs'[e] <= fired'[e]
  <2>1. e \in Users /\ runs[e] <= fired[e]
    BY DEF RunsInv, Counted, Users
  <2>2. CASE e = c
    BY <1>1, <1>2, <1>3, <2>1, <2>2
  <2>3. CASE e # c
    BY <1>3, <2>1, <2>3
  <2> QED BY <2>2, <2>3
<1> QED BY <1>3, <1>4, <1>5 DEF c

LEMMA RunsCallback ==
  ASSUME LifeInv, RunsInv, Handles, UserCallback
  PROVE  RunsInv'
<1> DEFINE h == Head(batch)
           c == events[h]
<1>1. /\ h \in Fds /\ Holds(batch, h) /\ thread = "batch" /\ thread' = "batch"
      /\ fired' = fired
      /\ \A e : Holds(batch', e) => e # h /\ Holds(batch, e)
  BY HandlesFacts DEF LifeInv
<1>2. /\ c \in Users /\ events' \in [Fds -> Events \cup {NULL}]
      /\ events'[h] = IF c \in Repeated THEN c ELSE NULL
      /\ \A g \in Fds : g # h => events'[g] = events[g]
      /\ ready' = ready \ {h} /\ runs' = [runs EXCEPT ![c] = @ + 1]
      /\ created' = created /\ fresh' = fresh
  BY CallbackFacts DEF LifeInv
<1>3. /\ runs' \in [Users -> Nat] /\ \A e \in Users : e # c => runs'[e] = runs[e]
      /\ \A e \in OneShot : fired'[e] <= 1 /\ runs'[e] <= 1
      /\ \A e \in Repeated : runs'[e] <= fired'[e]
  BY <1>1, <1>2, CountRun
<1>4. NULL \notin Users /\ c \in created
  BY <1>1, <1>2, EventsAssumption DEF Events, RunsInv, Lives
<1>5. \A g \in Fds : g # h => events[g] # c
  BY <1>1, <1>2 DEF RunsInv, Lives
<1>6. \A g \in Fds : events'[g] \in Users => events'[g] = events[g]
  BY <1>2, <1>4
<1> HIDE DEF h, c
<1>7. Lives'
  <2>1. \A e \in Users \ created' : runs'[e] = 0 /\ fired'[e] = 0
    BY <1>1, <1>2, <1>3, <1>4 DEF RunsInv, Lives
  <2>2. \A f, g \in Fds : events'[f] \in Users /\ events'[f] = events'[g] => f = g
    BY <1>6 DEF RunsInv, Lives
  <2>3. \A fd \in Fds : events'[fd] \in Users => events'[fd] \in created'
    BY <1>2, <1>6 DEF RunsInv, Lives
  <2>4. \A fd \in ready' : events'[fd] # NULL
    BY <1>2 DEF RunsInv, Lives, LifeInv, Sets
  <2> QED BY <1>1, <1>2, <1>3, <2>1, <2>2, <2>3, <2>4 DEF RunsInv, Lives
<1>8. Counted'
  <2>1. \A fd \in Fds : events'[fd] \in OneShot => runs'[events'[fd]] = 0
    <3> SUFFICES ASSUME NEW fd \in Fds, events'[fd] \in OneShot
                 PROVE  runs'[events'[fd]] = 0
      OBVIOUS
    <3>1. events'[fd] \in Users /\ events'[fd] = events[fd]
      BY <1>6 DEF Users
    <3>2. fd # h
      BY <1>2, <3>1, <1>4, EventsAssumption
    <3> QED BY <1>3, <1>5, <3>1, <3>2 DEF RunsInv, Counted
  <2>2. \A fd \in ready' : events'[fd] \in Users => runs'[events'[fd]] < fired'[events'[fd]]
    <3> SUFFICES ASSUME NEW fd \in ready', events'[fd] \in Users
                 PROVE  runs'[events'[fd]] < fired'[events'[fd]]
      OBVIOUS
    <3>1. fd \in Fds /\ fd \in ready /\ fd # h
      BY <1>2 DEF LifeInv, Sets
    <3>2. events'[fd] = events[fd]
      BY <1>6, <3>1
    <3> QED BY <1>1, <1>3, <1>5, <3>1, <3>2 DEF RunsInv, Counted
  <2> QED BY <1>3, <2>1, <2>2 DEF Counted
<1>9. Reported'
  BY <1>1, <1>2, <1>6 DEF RunsInv, Reported
<1> QED BY <1>7, <1>8, <1>9 DEF RunsInv

LEMMA RunsRetry ==
  ASSUME LifeInv, RunsInv, Handles, NEW n \in OneShot, NEW fd \in Fds, RetryCallback(n, fd)
  PROVE  RunsInv'
<1> DEFINE h == Head(batch)
           c == events[h]
<1>1. /\ h \in Fds /\ Holds(batch, h) /\ thread = "batch" /\ thread' = "batch"
      /\ fired' = fired
      /\ \A e : Holds(batch', e) => e # h /\ Holds(batch, e)
  BY HandlesFacts DEF LifeInv
<1>2. /\ fd # h /\ events[fd] = NULL /\ c \in OneShot
      /\ events'[fd] = n /\ events'[h] = NULL
      /\ \A g \in Fds : g # fd /\ g # h => events'[g] = events[g]
      /\ ready' = ready \ {h} /\ runs' = [runs EXCEPT ![c] = @ + 1]
      /\ n \notin created /\ created' = created \cup {n} /\ fresh' = fresh \cup {n}
  BY RetryFacts DEF LifeInv
<1>3. /\ runs' \in [Users -> Nat] /\ \A e \in Users : e # c => runs'[e] = runs[e]
      /\ \A e \in OneShot : fired'[e] <= 1 /\ runs'[e] <= 1
      /\ \A e \in Repeated : runs'[e] <= fired'[e]
  BY <1>1, <1>2, CountRun DEF Users
<1>4. NULL \notin Users /\ c \in created /\ n \in Users /\ c \in Users /\ n # c
  BY <1>1, <1>2, EventsAssumption DEF Events, Users, RunsInv, Lives
<1>5. \A g \in Fds : g # h => events[g] # c
  BY <1>1, <1>4 DEF RunsInv, Lives
<1>6. \A g \in Fds : events'[g] \in Users => g # h /\ (g = fd \/ events'[g] = events[g])
  BY <1>2, <1>4
<1>7. runs'[n] = 0 /\ fired'[n] = 0
  BY <1>1, <1>2, <1>3, <1>4 DEF RunsInv, Lives
<1> HIDE DEF h, c
<1>8. fd \notin ready
  BY <1>2 DEF RunsInv, Lives
<1>9. Lives'
  <2>1. \A e \in Users \ created' : runs'[e] = 0 /\ fired'[e] = 0
    BY <1>1, <1>2, <1>3, <1>4 DEF RunsInv, Lives
  <2>2. \A g \in Fds : events'[g] \in Users => events'[g] \in created' /\ (g # fd => events'[g] # n)
    BY <1>2, <1>4, <1>6 DEF RunsInv, Lives
  <2>3. \A f, g \in Fds : events'[f] \in Users /\ events'[f] = events'[g] => f = g
    BY <1>2, <1>6, <2>2 DEF RunsInv, Lives
  <2>4. \A g \in ready' : events'[g] # NULL
    BY <1>2, <1>8 DEF RunsInv, Lives, LifeInv, Sets
  <2> QED BY <1>1, <1>2, <1>3, <1>4, <2>1, <2>2, <2>3, <2>4 DEF RunsInv, Lives
<1>10. Counted'
  <2>1. \A g \in Fds : events'[g] \in OneShot => runs'[events'[g]] = 0
    <3> SUFFICES ASSUME NEW g \in Fds, events'[g] \in OneShot, g # fd
                 PROVE  runs'[events'[g]] = 0
      BY <1>2, <1>7
    <3>1. events'[g] \in Users /\ events'[g] = events[g] /\ g # h
      BY <1>6 DEF Users
    <3> QED BY <1>3, <1>5, <3>1 DEF RunsInv, Counted
  <2>2. \A g \in ready' : events'[g] \in Users => runs'[events'[g]] < fired'[events'[g]]
    <3> SUFFICES ASSUME NEW g \in ready', events'[g] \in Users
                 PROVE  runs'[events'[g]] < fired'[events'[g]]
      OBVIOUS
    <3>1. g \in Fds /\ g \in ready /\ g # h /\ g # fd
      BY <1>2, <1>8 DEF LifeInv, Sets
    <3>2. events'[g] = events[g]
      BY <1>6, <3>1
    <3> QED BY <1>1, <1>3, <1>5, <3>1, <3>2 DEF RunsInv, Counted
  <2> QED BY <1>3, <2>1, <2>2 DEF Counted
<1>11. Reported'
  BY <1>1, <1>2, <1>6 DEF RunsInv, Reported
<1> QED BY <1>9, <1>10, <1>11 DEF RunsInv

LEMMA RunsFire ==
  ASSUME LifeInv, RunsInv, NEW fd \in Fds, Fire(fd)
  PROVE  RunsInv'
<1> DEFINE c == events[fd]
<1>1. /\ c \in Users /\ fired' = [fired EXCEPT ![c] = @ + 1] /\ ready' = ready \cup {fd}
      /\ UNCHANGED <<events, thread, batch, created, fresh, runs>>
      /\ c \in OneShot => fired[c] < 1
  BY DEF Fire
<1>2. fired \in [Users -> Nat] /\ runs \in [Users -> Nat] /\ c \in created
  BY <1>1 DEF RunsInv, Lives
<1>3. \A g \in Fds : g # fd => events[g] # c
  BY <1>1 DEF RunsInv, Lives
<1> HIDE DEF c
<1>4. /\ fired' \in [Users -> Nat] /\ fired'[c] = fired[c] + 1
      /\ \A e \in Users : e # c => fired'[e] = fired[e]
  BY <1>1, <1>2
<1>5. runs[c] <= fired[c]
  <2>1. CASE c \in Repeated
    BY <2>1 DEF RunsInv, Counted
  <2>2. CASE c \in OneShot
    <3>1. runs[c] = 0
      BY <2>2 DEF RunsInv, Counted, c
    <3> QED BY <1>1, <1>2, <3>1
  <2> QED BY <1>1, <2>1, <2>2 DEF Users
<1>6. NULL \notin Users
  BY EventsAssumption DEF Events
<1>7. Lives'
  <2>1. \A e \in Users \ created' : runs'[e] = 0 /\ fired'[e] = 0
    BY <1>1, <1>2, <1>4 DEF RunsInv, Lives
  <2>2. \A g \in ready' : events'[g] # NULL
    BY <1>1, <1>6 DEF RunsInv, Lives, c
  <2> QED BY <1>1, <1>2, <1>4, <2>1, <2>2 DEF RunsInv, Lives
<1>8. Counted'
  <2>1. ASSUME NEW e \in OneShot PROVE fired'[e] <= 1 /\ runs'[e] <= 1
    <3>1. e \in Users /\ fired[e] <= 1 /\ runs[e] <= 1
      BY DEF RunsInv, Counted, Users
    <3>2. CASE e = c
      BY <1>1, <1>2, <1>4, <3>1, <3>2
    <3>3. CASE e # c
      BY <1>1, <1>4, <3>1, <3>3
    <3> QED BY <3>2, <3>3
  <2>2. ASSUME NEW e \in Repeated PROVE runs'[e] <= fired'[e]
    <3>1. e \in Users /\ runs[e] <= fired[e] /\ runs[e] \in Nat /\ fired[e] \in Nat
      BY <1>2 DEF RunsInv, Counted, Users
    <3>2. CASE e = c
      BY <1>1, <1>4, <3>1, <3>2
    <3>3. CASE e # c
      BY <1>1, <1>4, <3>1, <3>3
    <3> QED BY <3>2, <3>3
  <2>3. ASSUME NEW g \in ready', events'[g] \in Users
        PROVE  runs'[events'[g]] < fired'[events'[g]]
    <3>1. CASE g = fd
      BY <1>1, <1>2, <1>4, <1>5, <3>1 DEF c
    <3>2. CASE g # fd
      <4>1. g \in Fds /\ g \in ready /\ events[g] # c /\ events'[g] = events[g]
        BY <1>1, <1>3, <3>2, <2>3 DEF LifeInv, Sets
      <4> QED BY <1>1, <1>4, <2>3, <4>1 DEF RunsInv, Counted
    <3> QED BY <3>1, <3>2
  <2> QED BY <1>1, <2>1, <2>2, <2>3 DEF RunsInv, Counted
<1>9. Reported'
  BY <1>1 DEF RunsInv, Reported
<1> QED BY <1>7, <1>8, <1>9 DEF RunsInv

LEMMA RunsNext == ASSUME LifeInv, RunsInv, [Next]_vars PROVE RunsInv'
<1>1. ASSUME NEW e \in Repeated, NEW fd \in Fds, InitEvent(e, fd) PROVE RunsInv'
  BY <1>1, RunsNewEvent DEF InitEvent, Users, LifeInv
<1>2. ASSUME NEW e \in OneShot, NEW fd \in Fds, NewTimerEvent(e, fd) PROVE RunsInv'
  BY <1>2, RunsNewEvent DEF NewTimerEvent, Users, LifeInv
<1>3. CASE UserCallback
  BY <1>3, RunsCallback DEF Handles
<1>4. ASSUME NEW e \in OneShot, NEW fd \in Fds, RetryCallback(e, fd) PROVE RunsInv'
  BY <1>4, RunsRetry DEF Handles
<1>5. ASSUME NEW fd \in Fds, Fire(fd) PROVE RunsInv'
  BY <1>5, RunsFire
<1> QED BY <1>1, <1>2, <1>3, <1>4, <1>5, RunsQuiet DEF Next, ProcessEvents

\* Over any number of starts and stops and any reuse of descriptors, the
\* callback of a repeated event runs at most once for each time it fired and
\* that of a one-shot timer at most once: the turn that runs a fresh timer
\* before it expired takes the place of its own (events.cpp:128-151).
THEOREM RunsBounded ==
  Spec => []((\A e \in Repeated : runs[e] <= fired[e]) /\ (\A e \in OneShot : runs[e] <= 1))
<1>1. RunsInv => (\A e \in Repeated : runs[e] <= fired[e]) /\ (\A e \in OneShot : runs[e] <= 1)
  BY DEF RunsInv, Counted
<1> QED BY <1>1, LifeInit, LifeNext, RunsInit, RunsNext, PTL DEF Spec

\* The callback that runs is that of a registered event which is due, or else
\* of a one-shot timer made since epoll_wait returned, with a descriptor that
\* was reported for an event erased since (events.cpp:129-150): never of an
\* event that was cancelled or dropped, and never a repeated one that did not
\* fire.
THEOREM AlwaysRunsOnlyWhenDue == Spec => RunsOnlyWhenDue
<1> DEFINE Due == \A e \in Users : runs'[e] # runs[e] =>
                      /\ \E fd \in Fds : events[fd] = e
                      /\ e \in Repeated => runs[e] < fired[e]
                      /\ e \in OneShot  => runs[e] = 0 /\ (fired[e] = 1 \/ e \in fresh)
<1>1. LifeInv /\ RunsInv /\ [Next]_vars => [Due]_vars
  <2> SUFFICES ASSUME LifeInv, RunsInv, Next, NEW e \in Users, runs'[e] # runs[e]
               PROVE  /\ \E fd \in Fds : events[fd] = e
                      /\ e \in Repeated => runs[e] < fired[e]
                      /\ e \in OneShot  => runs[e] = 0 /\ (fired[e] = 1 \/ e \in fresh)
    OBVIOUS
  <2> DEFINE h == Head(batch)
  <2>1. Handles /\ (UserCallback \/ \E n \in OneShot, fd \in Fds : RetryCallback(n, fd))
    BY WhoRuns
  <2>2. h \in Fds /\ Holds(batch, h) /\ thread = "batch"
    BY <2>1, HandlesFacts DEF LifeInv
  <2>3. events[h] \in Users /\ runs' = [runs EXCEPT ![events[h]] = @ + 1]
    BY <2>1 DEF UserCallback, RetryCallback, Call
  <2>4. e = events[h]
    BY <2>3 DEF RunsInv, Lives
  <2> HIDE DEF h
  <2>5. /\ events[h] \in Repeated => runs[events[h]] < fired[events[h]]
        /\ events[h] \in OneShot  => /\ runs[events[h]] = 0
                                     /\ fired[events[h]] = 1 \/ events[h] \in fresh
    BY <2>2, <2>3, DueFacts
  <2> QED BY <2>2, <2>4, <2>5
<1> QED BY <1>1, LifeInit, LifeNext, RunsInit, RunsNext, PTL DEF Spec, RunsOnlyWhenDue

-----------------------------------------------------------------------------
(* Stopping.  While the machine runs for the first time its stop event is  *)
(* registered, and from StopEM's Trigger to the stop callback it is ready. *)
Heard ==
    /\ starts \in Nat
    /\ starts = 0 => ~running /\ thread = "none"
    /\ running \/ starts = 0 => events[StopFd] = Stop
    /\ owner = "joining" /\ running => StopFd \in ready

LEMMA HeardNext ==
  ASSUME MaxStarts = 1, LifeInv, Heard, [Next]_vars
  PROVE  Heard'
<1>1. Stop \notin Users /\ Stop # NULL /\ StopFd \in Fds /\ OneShot \subseteq Users
  BY EventsAssumption DEF Events, Users
<1>2. CASE StartEM
  <2>1. starts = 0 /\ starts' = 1
    BY <1>2 DEF StartEM, Heard
  <2> QED BY <1>2, <2>1 DEF StartEM, Heard
<1>3. CASE StopEM
  BY <1>3 DEF StopEM, Heard
<1>4. CASE Join
  BY <1>4 DEF Join, Heard
<1>5. CASE InitEventsAndRun \/ LoopExit \/ EpollWait \/ EndOfBatch \/ SkipErased
           \/ UNCHANGED vars
  <2>1. /\ running' = running /\ starts' = starts /\ owner' = owner /\ ready' = ready
        /\ events' = events /\ (thread = "none" => thread' = "none")
    BY <1>5 DEF InitEventsAndRun, LoopExit, EpollWait, EndOfBatch, SkipErased, Take, vars
  <2> QED BY <2>1 DEF Heard
<1>6. ASSUME /\ running' = running /\ starts' = starts /\ owner' = owner
             /\ (thread = "none" => thread' = "none")
             /\ events[StopFd] = Stop => /\ events'[StopFd] = Stop
                                         /\ StopFd \in ready => StopFd \in ready'
      PROVE  Heard'
  BY <1>6 DEF Heard
<1>7. CASE UserCallback
  <2>1. Handles
    BY <1>7 DEF Handles
  <2>2. /\ starts' = starts /\ owner' = owner /\ thread = "batch"
        /\ Head(batch) \in Fds /\ events[Head(batch)] \in Users
    BY <1>7, <2>1, HandlesFacts, CallbackFacts DEF LifeInv
  <2>3. /\ \A g \in Fds : g # Head(batch) => events'[g] = events[g]
        /\ ready' = ready \ {Head(batch)} /\ running' = running
    BY <1>7, <2>1, CallbackFacts DEF LifeInv
  <2> QED BY <1>1, <1>6, <2>2, <2>3
<1>8. ASSUME NEW e \in OneShot, NEW fd \in Fds, RetryCallback(e, fd) PROVE Heard'
  <2>1. Handles
    BY <1>8 DEF Handles
  <2>2. /\ starts' = starts /\ owner' = owner /\ thread = "batch" /\ Head(batch) \in Fds
    BY <2>1, HandlesFacts DEF LifeInv
  <2>3. /\ \A g \in Fds : g # fd /\ g # Head(batch) => events'[g] = events[g]
        /\ ready' = ready \ {Head(batch)} /\ running' = running
        /\ events[fd] = NULL /\ events[Head(batch)] \in OneShot
    BY <1>8, <2>1, RetryFacts DEF LifeInv
  <2> QED BY <1>1, <1>6, <2>2, <2>3
<1>9. CASE StopCallback
  <2>1. starts # 0
    BY <1>9 DEF StopCallback, Take, Heard
  <2> QED BY <1>9, <2>1 DEF StopCallback, Heard
<1>10. ASSUME NEW e \in Users, NEW fd \in Fds, NewEvent(e, fd, events),
              UNCHANGED <<running, ready, thread, owner, starts>>
       PROVE  Heard'
  <2>1. events[StopFd] = Stop => events'[StopFd] = Stop
    BY <1>1, <1>10 DEF NewEvent, LifeInv, Sets
  <2> QED BY <1>6, <1>10, <2>1
<1>11. ASSUME NEW e \in Repeated, NEW fd \in Fds, InitEvent(e, fd) PROVE Heard'
  BY <1>10, <1>11 DEF InitEvent, Users
<1>12. ASSUME NEW e \in OneShot, NEW fd \in Fds, NewTimerEvent(e, fd) PROVE Heard'
  BY <1>10, <1>12 DEF NewTimerEvent, Users
<1>13. ASSUME NEW fd \in Fds, CancelEvent(fd) PROVE Heard'
  BY <1>1, <1>6, <1>13, ErasedFacts DEF CancelEvent, LifeInv
<1>14. ASSUME NEW fd \in Fds, Fire(fd) PROVE Heard'
  BY <1>6, <1>14 DEF Fire
<1> QED BY <1>2, <1>3, <1>4, <1>5, <1>7, <1>8, <1>9, <1>11, <1>12, <1>13, <1>14
        DEF Next, ProcessEvents

\* A StopEM is never lost, in the first life of a machine: while the owner
\* waits for the thread, either running_ is cleared or the stop event is among
\* what epoll_wait returns, so the thread cannot sleep there (events.cpp:118-122,
\* 189-194).  A machine started again has no stop event (events.cpp:158).
THEOREM StopNeverLost ==
  ASSUME MaxStarts = 1
  PROVE  Spec => [](owner = "joining" => ~running \/ (StopFd \in ready /\ events[StopFd] = Stop))
<1> DEFINE Inv == LifeInv /\ Heard
<1>1. Init => Inv
  <2> SUFFICES ASSUME Init PROVE Inv
    OBVIOUS
  <2>1. Heard
    BY EventsAssumption DEF Init, Heard
  <2> QED BY <2>1, LifeInit
<1>2. Inv /\ [Next]_vars => Inv'
  BY LifeNext, HeardNext
<1>3. Inv => (owner = "joining" => ~running \/ (StopFd \in ready /\ events[StopFd] = Stop))
  BY DEF Heard
<1> QED BY <1>1, <1>2, <1>3, PTL DEF Spec
=============================================================================
