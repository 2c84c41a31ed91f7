----------------------------- MODULE CmdThreads -----------------------------
(***************************************************************************)
(* CmdClient (cmd-protocol.cpp) at the grain at which its threads really   *)
(* interleave: the threads that call AsyncQuery, the UDP server's thread   *)
(* that runs PacketReceived, and the event machine's thread that runs      *)
(* RetryOperation.  state_mutex_ only covers single accesses to the map    *)
(* cmd_in_flight_; what its entries point to and the map events_ are       *)
(* shared without a lock.                                                  *)
(*                                                                         *)
(* A step that follows a pointer to a CmdState or an Event that another    *)
(* thread has freed is undefined behaviour: fault becomes "ub" and nothing *)
(* is said about what follows.  A failing assert stops the program too.    *)
(*                                                                         *)
(* The network and the GamePad are reduced to what the UDP thread can see: *)
(* any acknowledgement or reply, any number of times, for a query that was *)
(* sent.  Sequence ids do not wrap round here (see CmdProtocol).           *)
(***************************************************************************)
EXTENDS Integers, FiniteSets

CONSTANTS
    Callers,       \* threads, each of which calls AsyncQuery once
    MaxRetries,    \* kMaxRetries
    Fds,           \* file descriptors; the kernel hands out the lowest
    NULL

ASSUME ThreadsAssumption ==
    IsFiniteSet(Callers) /\ MaxRetries \in Nat \ {0} /\ Fds \subseteq Nat

SeqIds  == 0 .. Cardinality(Callers) - 1
Threads == Callers \cup {"udp", "em"}

VARIABLES
    seqid,     \* seqid_
    cmd,       \* cmd_in_flight_; state "none" where there is no entry
    events,    \* events_: the Event that owns each descriptor, with its command
    nevt,      \* Event objects created so far: the address of the last one
    pc,        \* where each thread is
    sid,       \* local: the sequence id a thread works on
    ev,        \* local: the event the event machine is handling
    made,      \* local: the event a thread has just created
    fdv,       \* local: a descriptor it has read
    type,      \* the type of the packet the UDP thread works on
    sentIds,   \* ids of the queries that were sent
    calls,     \* per id, calls of reply_callback
    fault      \* "none", "ub", or the function whose assert failed

shared == <<seqid, cmd, events, nevt>>
locals == <<pc, sid, ev, made, fdv, type>>
vars   == <<shared, locals, sentIds, calls, fault>>

\* What a step that writes to one CmdState leaves alone.
allButCmd == <<seqid, events, nevt, sid, ev, made, fdv, type, sentIds, calls, fault>>

NoState == [state |-> "none", cb |-> FALSE, timeout_evt |-> NULL, retries |-> 0]

Init ==
    /\ seqid = 0
    /\ cmd = [s \in SeqIds |-> NoState]
    /\ events = [fd \in Fds |-> NULL]
    /\ nevt = 0
    /\ pc = [t \in Threads |-> IF t = "udp" THEN "idle"
                               ELSE IF t = "em" THEN "wait" ELSE "start"]
    /\ sid = [t \in Threads |-> NULL]
    /\ ev = NULL
    /\ made = [t \in Threads |-> NULL]
    /\ fdv = [t \in Threads |-> NULL]
    /\ type = NULL
    /\ sentIds = {}
    /\ calls = [s \in SeqIds |-> 0]
    /\ fault = "none"

-----------------------------------------------------------------------------
At(t, label)   == fault = "none" /\ pc[t] = label
Goto(t, label) == pc' = [pc EXCEPT ![t] = label]

InFlight(s)  == cmd[s].state # "none"
EventLive(e) == e # NULL /\ events[e.fd] = e

\* The next step of thread t follows a dangling pointer.
Dangles(t) ==
    \/ /\ pc[t] \in {"fill", "timer", "publish", "expect", "check", "acked",
                     "cancel", "nullevt", "call", "count", "giveup"}
       /\ ~InFlight(sid[t])
    \/ pc[t] = "cancel" /\ InFlight(sid[t]) /\ ~EventLive(cmd[sid[t]].timeout_evt)
    \/ pc[t] \in {"enter", "erase"} /\ ~EventLive(ev)

Undefined(t) ==
    /\ fault = "none"
    /\ Dangles(t)
    /\ fault' = "ub"
    /\ UNCHANGED <<shared, locals, sentIds, calls>>

\* Thread t can take its step at this label.
Safely(t, label) == At(t, label) /\ ~Dangles(t)

-----------------------------------------------------------------------------
\* AsyncQuery: the part under state_mutex_, which value-initialises the entry
\* (so that its state is kQuery, which no received packet has) ...
InsertUnfilled(c) ==      \* the callback assigned too late
    /\ At(c, "start")
    /\ sid' = [sid EXCEPT ![c] = seqid]
    /\ seqid' = seqid + 1
    /\ cmd' = [cmd EXCEPT ![seqid] = [NoState EXCEPT !.state = "kQuery"]]
    /\ Goto(c, "timer")
    /\ UNCHANGED <<events, nevt, ev, made, fdv, type, sentIds, calls, fault>>

Insert(c) ==
    /\ At(c, "start")
    /\ sid' = [sid EXCEPT ![c] = seqid]
    /\ seqid' = seqid + 1
    /\ cmd' = [cmd EXCEPT ![seqid] = [NoState EXCEPT !.state = "kQuery"]]
    /\ Goto(c, "fill")
    /\ UNCHANGED <<events, nevt, ev, made, fdv, type, sentIds, calls, fault>>

\* ... and the part outside it.
Fill(c) ==
    /\ Safely(c, "fill")
    /\ cmd' = [cmd EXCEPT ![sid[c]] = [state |-> "kQuery", cb |-> TRUE,
                                       timeout_evt |-> @.timeout_evt, retries |-> 0]]
    /\ Goto(c, "timer")
    /\ UNCHANGED allButCmd

-----------------------------------------------------------------------------
\* SendQuery, by a caller or by the event machine.
LowestFree == CHOOSE fd \in Fds : /\ events[fd] = NULL
                                  /\ \A g \in Fds : events[g] = NULL => fd <= g

NewTimer(t) ==
    /\ Safely(t, "timer")
    /\ nevt' = nevt + 1
    /\ made' = [made EXCEPT ![t] = [addr |-> nevt + 1, fd |-> LowestFree, seqid |-> sid[t]]]
    /\ events' = [events EXCEPT ![LowestFree] = made'[t]]
    /\ Goto(t, "publish")
    /\ UNCHANGED <<seqid, cmd, sid, ev, fdv, type, sentIds, calls, fault>>

Publish(t) ==
    /\ Safely(t, "publish")
    /\ cmd' = [cmd EXCEPT ![sid[t]].timeout_evt = made[t]]
    /\ Goto(t, "expect")
    /\ UNCHANGED allButCmd

Expect(t) ==
    /\ Safely(t, "expect")
    /\ cmd' = [cmd EXCEPT ![sid[t]].state = "kQueryAck"]
    /\ Goto(t, "send")
    /\ UNCHANGED allButCmd

Send(t) ==
    /\ At(t, "send")
    /\ sentIds' = sentIds \cup {sid[t]}
    /\ Goto(t, IF t = "em" THEN "erase" ELSE "done")
    /\ UNCHANGED <<shared, sid, ev, made, fdv, type, calls, fault>>

SendQuery(t) == NewTimer(t) \/ Publish(t) \/ Expect(t) \/ Send(t)

-----------------------------------------------------------------------------
\* PacketReceived, on the UDP server's thread.
Receive(ty, s) ==
    /\ At("udp", "idle")
    /\ s \in sentIds
    /\ type' = ty
    /\ sid' = [sid EXCEPT !["udp"] = s]
    /\ Goto("udp", "find")
    /\ UNCHANGED <<shared, ev, made, fdv, sentIds, calls, fault>>

FindState ==
    /\ At("udp", "find")
    /\ Goto("udp", IF InFlight(sid["udp"]) THEN "check" ELSE "idle")
    /\ UNCHANGED <<shared, sid, ev, made, fdv, type, sentIds, calls, fault>>

CheckType ==
    /\ Safely("udp", "check")
    /\ Goto("udp", IF type # cmd[sid["udp"]].state THEN "idle"
                   ELSE IF type = "kReply" THEN "cancel" ELSE "acked")
    /\ UNCHANGED <<shared, sid, ev, made, fdv, type, sentIds, calls, fault>>

Acked ==
    /\ Safely("udp", "acked")
    /\ cmd' = [cmd EXCEPT ![sid["udp"]].state = "kReply"]
    /\ Goto("udp", "idle")
    /\ UNCHANGED allButCmd

\* CancelEvent(st->timeout_evt): reads the descriptor, then searches the map.
CancelRead ==
    /\ Safely("udp", "cancel")
    /\ fdv' = [fdv EXCEPT !["udp"] = cmd[sid["udp"]].timeout_evt.fd]
    /\ Goto("udp", "cancelfind")
    /\ UNCHANGED <<shared, sid, ev, made, type, sentIds, calls, fault>>

CancelErase ==
    /\ At("udp", "cancelfind")
    /\ events[fdv["udp"]] # NULL
    /\ events' = [events EXCEPT ![fdv["udp"]] = NULL]
    /\ Goto("udp", "nullevt")
    /\ UNCHANGED <<seqid, cmd, nevt, sid, ev, made, fdv, type,
                   sentIds, calls, fault>>

CancelAborts ==
    /\ At("udp", "cancelfind")
    /\ events[fdv["udp"]] = NULL
    /\ fault' = "CancelEvent"
    /\ UNCHANGED <<shared, locals, sentIds, calls>>

NullEvent ==
    /\ Safely("udp", "nullevt")
    /\ cmd' = [cmd EXCEPT ![sid["udp"]].timeout_evt = NULL]
    /\ Goto("udp", "call")
    /\ UNCHANGED allButCmd

CallSuccess ==
    /\ Safely("udp", "call")
    /\ calls' = [calls EXCEPT ![sid["udp"]] = @ + 1]
    /\ Goto("udp", "remove")
    /\ UNCHANGED <<shared, sid, ev, made, fdv, type, sentIds, fault>>

RemoveReplied ==
    /\ At("udp", "remove")
    /\ cmd' = [cmd EXCEPT ![sid["udp"]] = NoState]
    /\ Goto("udp", "idle")
    /\ UNCHANGED allButCmd

PacketReceived ==
    \/ \E ty \in {"kQueryAck", "kReply"}, s \in SeqIds : Receive(ty, s)
    \/ FindState \/ CheckType \/ Acked
    \/ CancelRead \/ CancelErase \/ CancelAborts \/ NullEvent
    \/ CallSuccess \/ RemoveReplied

-----------------------------------------------------------------------------
\* The event machine's thread: epoll_wait reports an expired timer ...
Poll(fd) ==
    /\ At("em", "wait")
    /\ events[fd] # NULL
    /\ fdv' = [fdv EXCEPT !["em"] = fd]
    /\ Goto("em", "lookup")
    /\ UNCHANGED <<shared, sid, ev, made, type, sentIds, calls, fault>>

\* ... which is looked up by descriptor, ...
Lookup ==
    /\ At("em", "lookup")
    /\ ev' = events[fdv["em"]]
    /\ Goto("em", IF ev' = NULL THEN "wait" ELSE "enter")
    /\ UNCHANGED <<shared, sid, made, fdv, type, sentIds, calls, fault>>

\* ... read, and its callback entered: RetryOperation(seqid).
EnterCallback ==
    /\ Safely("em", "enter")
    /\ sid' = [sid EXCEPT !["em"] = ev.seqid]
    /\ Goto("em", "retry")
    /\ UNCHANGED <<shared, ev, made, fdv, type, sentIds, calls, fault>>

RetryFind ==
    /\ At("em", "retry")
    /\ InFlight(sid["em"])
    /\ Goto("em", "count")
    /\ UNCHANGED <<shared, sid, ev, made, fdv, type, sentIds, calls, fault>>

RetryAborts ==
    /\ At("em", "retry")
    /\ ~InFlight(sid["em"])
    /\ fault' = "RetryOperation"
    /\ UNCHANGED <<shared, locals, sentIds, calls>>

Count ==
    /\ Safely("em", "count")
    /\ cmd' = [cmd EXCEPT ![sid["em"]].retries = @ + 1]
    /\ Goto("em", IF cmd[sid["em"]].retries + 1 >= MaxRetries THEN "giveup" ELSE "timer")
    /\ UNCHANGED allButCmd

CallFailure ==
    /\ Safely("em", "giveup")
    /\ calls' = [calls EXCEPT ![sid["em"]] = @ + 1]
    /\ Goto("em", "emremove")
    /\ UNCHANGED <<shared, sid, ev, made, fdv, type, sentIds, fault>>

RemoveFailed ==
    /\ At("em", "emremove")
    /\ cmd' = [cmd EXCEPT ![sid["em"]] = NoState]
    /\ Goto("em", "erase")
    /\ UNCHANGED allButCmd

\* The callback returned false: events_.erase(it).
EraseEvent ==
    /\ Safely("em", "erase")
    /\ events' = [events EXCEPT ![fdv["em"]] = NULL]
    /\ Goto("em", "wait")
    /\ UNCHANGED <<seqid, cmd, nevt, sid, ev, made, fdv, type,
                   sentIds, calls, fault>>

RetryTimer ==
    \/ \E fd \in Fds : Poll(fd)
    \/ Lookup \/ EnterCallback \/ RetryFind \/ RetryAborts \/ Count
    \/ CallFailure \/ RemoveFailed \/ EraseEvent

-----------------------------------------------------------------------------
Next ==
    \/ \E c \in Callers : Insert(c) \/ Fill(c)
    \/ \E t \in Callers \cup {"em"} : SendQuery(t)
    \/ PacketReceived
    \/ RetryTimer
    \/ \E t \in Threads : Undefined(t)

Spec == Init /\ [][Next]_vars

-----------------------------------------------------------------------------
\* A thread that calls a reply_callback, or counts a retry, finds what
\* AsyncQuery assigns outside the lock already assigned: publishing the entry
\* in the map first is harmless because its state matches no packet and its
\* timer does not exist yet.
CallbackAssigned ==
    \A t \in {"udp", "em"} :
        /\ At(t, "call") \/ At(t, "count") \/ At(t, "giveup")
        /\ InFlight(sid[t])
        => cmd[sid[t]].cb

\* assert(state != NULL) in RetryOperation, assert(it != events_.end()) in
\* CancelEvent: the timer of a command does not outlive it, and a timer that
\* is cancelled is still registered, although two threads end commands.
AssertsHold == fault \notin {"RetryOperation", "CancelEvent"}

AtRest == /\ fault = "none"
          /\ pc["udp"] = "idle" /\ pc["em"] = "wait"
          /\ \A c \in Callers : pc[c] \in {"start", "done"}

\* Query "can take up to 10s to retry and detect timeout" (cmd-protocol.h):
\* when no handler is running, a command in flight has a timer that will end
\* it.
NoneForgotten ==
    AtRest => \A s \in SeqIds : InFlight(s) =>
                \E fd \in Fds : events[fd] # NULL /\ events[fd].seqid = s
=============================================================================
