---------------------------- MODULE EventMachine ----------------------------
(***************************************************************************)
(* ThreadedEventMachine (events.cpp): an epoll loop on a thread of its     *)
(* own, the events registered with it, and StartEM / StopEM called by the  *)
(* thread that owns it.  Every server and streamer of libdrc is one.       *)
(*                                                                         *)
(* epoll and events_ know an event by its descriptor alone.  The system    *)
(* gives a closed descriptor out again, to the next timer or to any other  *)
(* part of the process, so a new event may have any free descriptor.  An   *)
(* Event object, on the other hand, is made once.                          *)
(*                                                                         *)
(* epoll is external: epoll_wait returns every descriptor that is ready    *)
(* (far fewer than the 64 it is asked for), in any order.                  *)
(***************************************************************************)
EXTENDS Naturals, Sequences, FiniteSets

CONSTANTS
    Repeated,     \* Events whose callback returns true: made by InitEventsAndRun
    OneShot,      \* Events whose callback returns false: CmdClient's timeouts
    Stop,         \* the stop event, made by the constructor
    NULL,         \* no event
    Fds, StopFd,  \* descriptors; the one of the stop event
    MaxFirings,   \* bound: how often each repeated event becomes ready
    MaxStarts     \* bound: how often StartEM is called

Users  == Repeated \cup OneShot
Events == Users \cup {Stop}

ASSUME EventsAssumption ==
    /\ Repeated \cap OneShot = {} /\ Stop \notin Users /\ NULL \notin Events
    /\ IsFiniteSet(Fds) /\ StopFd \in Fds
    /\ MaxFirings \in Nat /\ MaxStarts \in Nat

VARIABLES
    running,     \* running_
    events,      \* events_: per descriptor the event registered, or NULL
    ready,       \* descriptors that are readable
    thread,      \* "none", "init", "loop", "batch" or "exited"
    batch,       \* what the last epoll_wait returned and is still to be handled
    owner,       \* the owning thread: "idle", or "joining" inside StopEM
    starts,      \* calls of StartEM
    created,     \* user events ever made
    fresh,       \* those made since epoll_wait last returned
    fired,       \* per user event, how often it became ready
    runs         \* per user event, how often its callback ran

vars == <<running, events, ready, thread, batch, owner, starts, created, fresh, fired, runs>>

Init ==
    /\ running = FALSE
    /\ events = [fd \in Fds |-> IF fd = StopFd THEN Stop ELSE NULL]
    /\ ready = {}
    /\ thread = "none"
    /\ batch = <<>>
    /\ owner = "idle"
    /\ starts = 0
    /\ created = {}
    /\ fresh = {}
    /\ fired = [e \in Users |-> 0]
    /\ runs = [e \in Users |-> 0]

-----------------------------------------------------------------------------
\* The owner.  running_ is set before the thread exists, so that a StopEM that
\* comes before the thread has run at all is not lost.
StartEM ==
    /\ owner = "idle"
    /\ thread = "none"
    /\ starts < MaxStarts
    /\ running' = TRUE
    /\ thread' = "init"
    /\ starts' = starts + 1
    /\ UNCHANGED <<events, ready, batch, owner, created, fresh, fired, runs>>

\* stop_evt_->Trigger(), which reaches nothing once the event was erased.
StopEMUntriggered ==      \* the thread is not woken up
    /\ owner = "idle"
    /\ running
    /\ owner' = "joining"
    /\ UNCHANGED <<running, events, ready, thread, batch, starts, created, fresh, fired, runs>>

StopEM ==
    /\ owner = "idle"
    /\ running
    /\ ready' = IF events[StopFd] = Stop THEN ready \cup {StopFd} ELSE ready
    /\ owner' = "joining"
    /\ UNCHANGED <<running, events, thread, batch, starts, created, fresh, fired, runs>>

JoinDetached ==           \* the owner goes on without waiting
    /\ owner = "joining"
    /\ thread' = "none"
    /\ owner' = "idle"
    /\ UNCHANGED <<running, events, ready, batch, starts, created, fresh, fired, runs>>

JoinOmitted ==            \* the thread is left to end by itself
    /\ owner = "joining"
    /\ owner' = "idle"
    /\ UNCHANGED <<running, events, ready, thread, batch, starts, created, fresh, fired, runs>>

Join ==
    /\ owner = "joining"
    /\ thread = "exited"
    /\ thread' = "none"
    /\ owner' = "idle"
    /\ UNCHANGED <<running, events, ready, batch, starts, created, fresh, fired, runs>>

-----------------------------------------------------------------------------
\* NewEvent, with a descriptor that was free and is not readable yet.
NewEvent(e, fd, evts) ==
    /\ e \notin created
    /\ evts[fd] = NULL
    /\ events' = [evts EXCEPT ![fd] = e]
    /\ created' = created \cup {e}
    /\ fresh' = fresh \cup {e}

\* The thread.  InitEventsAndRun registers its events one by one ...
InitEvent(e, fd) ==
    /\ thread = "init"
    /\ NewEvent(e, fd, events)
    /\ UNCHANGED <<running, ready, thread, batch, owner, starts, fired, runs>>

\* ... and ends in ProcessEvents, which loops while running_.
InitEventsAndRun ==
    /\ thread = "init"
    /\ thread' = "loop"
    /\ UNCHANGED <<running, events, ready, batch, owner, starts, created, fresh, fired, runs>>

LoopExit ==
    /\ thread = "loop"
    /\ ~running
    /\ thread' = "exited"
    /\ UNCHANGED <<running, events, ready, batch, owner, starts, created, fresh, fired, runs>>

Orderings(S) ==
    {f \in [1 .. Cardinality(S) -> S] : \A i, j \in DOMAIN f : f[i] = f[j] => i = j}

EpollWait ==
    /\ thread = "loop"
    /\ running
    /\ ready # {}
    /\ batch' \in Orderings(ready)
    /\ fresh' = {}
    /\ thread' = "batch"
    /\ UNCHANGED <<running, events, ready, owner, starts, created, fired, runs>>

EndOfBatch ==
    /\ thread = "batch"
    /\ batch = <<>>
    /\ thread' = "loop"
    /\ UNCHANGED <<running, events, ready, batch, owner, starts, created, fresh, fired, runs>>

Take == thread = "batch" /\ batch # <<>> /\ batch' = Tail(batch)

\* No event has this descriptor any more.
SkipErasedReturns ==      \* the loop is left, not the turn
    /\ Take
    /\ events[Head(batch)] = NULL
    /\ thread' = "exited"
    /\ UNCHANGED <<running, events, ready, owner, starts, created, fresh, fired, runs>>

SkipErased ==
    /\ Take
    /\ events[Head(batch)] = NULL
    /\ UNCHANGED <<running, events, ready, thread, owner, starts, created, fresh, fired, runs>>

\* read() of read_size bytes makes the descriptor unready.
ReadSkipped(fd) == ready
Read(fd) == ready \ {fd}

\* Erasing an event closes its descriptor, which epoll then forgets.
Erased(fd) == [events EXCEPT ![fd] = NULL]

\* The event that has the descriptor now is read and its callback called, be it
\* the one epoll_wait reported or one made since with the same descriptor: then
\* read() fails, which is logged, and the callback is called all the same.
Call(fd) ==
    /\ events[fd] \in Users
    /\ runs' = [runs EXCEPT ![events[fd]] = @ + 1]
    /\ UNCHANGED <<running, thread, owner, starts, fired>>

\* A callback that makes no event is kept or dropped.
UserCallback ==
    /\ Take
    /\ Call(Head(batch))
    /\ IF events[Head(batch)] \in Repeated
           THEN events' = events /\ ready' = Read(Head(batch))
           ELSE events' = Erased(Head(batch)) /\ ready' = ready \ {Head(batch)}
    /\ UNCHANGED <<created, fresh>>

\* RetryOperation makes the next timer, while its own is still registered, and
\* returns false.
RetryCallback(e, fd) ==
    /\ Take
    /\ Call(Head(batch))
    /\ events[Head(batch)] \in OneShot
    /\ events[fd] = NULL
    /\ NewEvent(e, fd, Erased(Head(batch)))
    /\ ready' = ready \ {Head(batch)}

\* ClearUserEvents erases the event that equals stop_evt_ and steps over the
\* others.
ClearUserEvents(evts) == [fd \in Fds |-> IF evts[fd] = Stop THEN NULL ELSE evts[fd]]

StopCallback ==
    /\ Take
    /\ events[Head(batch)] = Stop
    /\ ready' = ready \ {Head(batch)}
    /\ running' = FALSE
    /\ events' = ClearUserEvents(events)
    /\ UNCHANGED <<thread, owner, starts, created, fresh, fired, runs>>

ProcessEvents ==
    \/ LoopExit \/ EpollWait \/ EndOfBatch \/ SkipErased \/ UserCallback \/ StopCallback
    \/ \E e \in OneShot, fd \in Fds : RetryCallback(e, fd)

-----------------------------------------------------------------------------
\* NewTimerEvent, called by another thread that issues a command.
NewTimerEvent(e, fd) ==
    /\ NewEvent(e, fd, events)
    /\ UNCHANGED <<running, ready, thread, batch, owner, starts, fired, runs>>

\* CancelEvent, called by another thread (CmdClient's UDP thread) between two
\* callbacks.  That the descriptor is still the event's own, and the assert
\* that it is registered, are the caller's business: see CmdThreads.
CancelEvent(fd) ==
    /\ events[fd] \in OneShot
    /\ events' = Erased(fd)
    /\ ready' = ready \ {fd}
    /\ UNCHANGED <<running, thread, batch, owner, starts, created, fresh, fired, runs>>

\* A timer expires, a packet arrives, someone triggers an event (external).  A
\* timeout's timer has no interval: it expires once.
Fire(fd) ==
    /\ events[fd] \in Users
    /\ fired[events[fd]] < IF events[fd] \in OneShot THEN 1 ELSE MaxFirings
    /\ ready' = ready \cup {fd}
    /\ fired' = [fired EXCEPT ![events[fd]] = @ + 1]
    /\ UNCHANGED <<running, events, thread, batch, owner, starts, created, fresh, runs>>

Next ==
    \/ StartEM \/ StopEM \/ Join
    \/ \E e \in Repeated, fd \in Fds : InitEvent(e, fd)
    \/ InitEventsAndRun \/ ProcessEvents
    \/ \E e \in OneShot, fd \in Fds : NewTimerEvent(e, fd)
    \/ \E fd \in Fds : CancelEvent(fd) \/ Fire(fd)

Spec == Init /\ [][Next]_vars

\* The thread is scheduled and callbacks return; join() returns once the
\* thread has ended.
FairSpec == Spec /\ WF_vars(InitEventsAndRun \/ ProcessEvents) /\ WF_vars(Join)

-----------------------------------------------------------------------------
\* Types; a machine that runs, and one that is being joined, has its thread.
TypeOK ==
    /\ running \in BOOLEAN
    /\ events \in [Fds -> Events \cup {NULL}] /\ ready \subseteq Fds
    /\ thread \in {"none", "init", "loop", "batch", "exited"}
    /\ batch \in Seq(Fds)
    /\ owner \in {"idle", "joining"}
    /\ running \/ owner = "joining" => thread # "none"

\* StopEM returns, however it interleaves with the start of the thread, with
\* epoll_wait and with the callbacks.
StopReturns == (owner = "joining") ~> (owner = "idle")

\* A user event's descriptor that is ready is handled, unless the machine stops.
ReadyHandled ==
    \A fd \in Fds : (fd \in ready) ~> (fd \notin ready \/ ~running)

\* A callback only runs when it is due: while its event is registered, not more
\* often than a repeated event fired, and once for a one-shot event, after it
\* fired.  One exception is the code's: epoll_wait's report is taken to be about
\* whatever event has the descriptor when its turn comes, so a timer made since
\* epoll_wait returned, with the descriptor of one that was erased since, may
\* be run before it has expired.
RunsOnlyWhenDue ==
    [][\A e \in Users : runs'[e] # runs[e] =>
            /\ \E fd \in Fds : events[fd] = e
            /\ e \in Repeated => runs[e] < fired[e]
            /\ e \in OneShot  => runs[e] = 0 /\ (fired[e] = 1 \/ e \in fresh)]_vars

\* No callback runs after StopEM has returned, although the rest of the batch
\* that held the stop event is still handled: what callbacks refer to may then
\* be destroyed.
QuietAfterStop == [][runs' # runs => running \/ owner = "joining"]_vars
=============================================================================
