---------------------------- MODULE CmdProtocol -----------------------------
(***************************************************************************)
(* The command channel between the PC and the GamePad: CmdClient           *)
(* (cmd-protocol.cpp) over UDP.  A query goes through four packets,        *)
(* Query / QueryAck / Reply / ReplyAck; each command in flight owns a one  *)
(* second timer whose expiry sends the query again, kMaxRetries times.     *)
(*                                                                         *)
(* Here every handler (AsyncQuery, PacketReceived, RetryOperation) is one  *)
(* step; module CmdThreads looks at the same handlers when the three       *)
(* threads that run them overlap.                                          *)
(*                                                                         *)
(* The network loses, duplicates and reorders: a packet stays deliverable  *)
(* until it is lost.  The GamePad is external: it acknowledges a query,    *)
(* carries it out, and repeats its reply until that is acknowledged.       *)
(***************************************************************************)
EXTENDS Integers, FiniteSets

CONSTANTS
    NumQueries,   \* bound: how many times AsyncQuery is called
    SeqIdMod,     \* sequence ids are u16: 2^16 in the code
    MaxRetries,   \* kMaxRetries
    Fds,          \* file descriptors timers can get
    NULL          \* no event, no descriptor

ASSUME SizesAssumption ==
    /\ NumQueries \in Nat \ {0}
    /\ SeqIdMod \in Nat \ {0}
    /\ MaxRetries \in Nat \ {0}

ASSUME NullAssumption == NULL \notin Fds /\ NULL \notin Int

Queries == 0 .. NumQueries - 1     \* the n-th call of AsyncQuery is query n
SeqIds  == 0 .. SeqIdMod - 1

\* Struct CmdState; state "none" stands for "no entry in cmd_in_flight_".
CmdState == [state       : {"none", "kQueryAck", "kReply"},
             query       : Queries,
             timeout_evt : Fds \cup {NULL},
             retries     : 0 .. MaxRetries]

NoState == [state |-> "none", query |-> 0, timeout_evt |-> NULL, retries |-> 0]

\* Packets; the body of a query or a reply is the query it belongs to.
QueryPkt(s, q) == [type |-> "kQuery", seqid |-> s, body |-> q]
QueryAckPkt(s) == [type |-> "kQueryAck", seqid |-> s, body |-> 0]
ReplyPkt(s, q) == [type |-> "kReply", seqid |-> s, body |-> q]
ReplyAckPkt(s) == [type |-> "kReplyAck", seqid |-> s, body |-> 0]

PadBound == [type : {"kQuery", "kReplyAck"}, seqid : SeqIds, body : Queries]
PcBound  == [type : {"kQueryAck", "kReply"}, seqid : SeqIds, body : Queries]

VARIABLES
    phase,      \* "new", "up", "emstopped" (Stop has joined the EM), "down"
    crashed,    \* TRUE once an assert() of the code has failed
    next,       \* number of AsyncQuery calls made so far
    seqid,      \* seqid_
    cmd,        \* cmd_in_flight_
    events,     \* events_: per descriptor, the command its timer retries
    toPad,      \* packets on their way to the GamePad
    toPc,       \* packets on their way to the PC
    unacked,    \* GamePad: replies it keeps sending
    executed,   \* GamePad: queries it carried out
    calls,      \* per query, calls of its reply_callback
    outcome,    \* per query, what the last of those calls said
    answer,     \* per query, the replies handed to its callback
    sent        \* per query, how many times it was sent

clientVars == <<phase, crashed, next, seqid, cmd, events>>
padVars    == <<unacked, executed>>
callVars   == <<calls, outcome, answer>>
vars == <<clientVars, padVars, callVars, toPad, toPc, sent>>

FreeFds == {fd \in Fds : events[fd] = NULL}

SocketsOpen == phase \in {"up", "emstopped"}

-----------------------------------------------------------------------------
Init ==
    /\ phase = "new"
    /\ crashed = FALSE
    /\ next = 0
    /\ seqid = 0
    /\ cmd = [s \in SeqIds |-> NoState]
    /\ events = [fd \in Fds |-> NULL]
    /\ toPad = {} /\ toPc = {}
    /\ unacked = {} /\ executed = {}
    /\ calls = [q \in Queries |-> 0]
    /\ outcome = [q \in Queries |-> "none"]
    /\ answer = [q \in Queries |-> {}]
    /\ sent = [q \in Queries |-> 0]

\* CmdClient::Start.  When a socket cannot be opened, Start calls Stop, which
\* finds nothing running, and the client is as it was.
Start ==
    /\ ~crashed
    /\ phase = "new"
    /\ phase' = "up"
    /\ UNCHANGED <<crashed, next, seqid, cmd, events, padVars, callVars,
                   toPad, toPc, sent>>

\* CmdClient::Stop, first half: StopEM() joins the event machine's thread.
StopEM ==
    /\ ~crashed
    /\ phase = "up"
    /\ phase' = "emstopped"
    /\ UNCHANGED <<crashed, next, seqid, cmd, events, padVars, callVars,
                   toPad, toPc, sent>>

\* Second half: the UDP server's thread is joined and both sockets are closed.
StopUdp ==
    /\ ~crashed
    /\ phase = "emstopped"
    /\ phase' = "down"
    /\ UNCHANGED <<crashed, next, seqid, cmd, events, padVars, callVars,
                   toPad, toPc, sent>>

-----------------------------------------------------------------------------
\* seqid_++ on a u16.
NextSeqIdUnwrapped(s) == s + 1                    \* the width forgotten
NextSeqIdStuck(s) == s                            \* not incremented
NextSeqId(s) == (s + 1) % SeqIdMod

\* SendQuery(s, c): arms a fresh timer, expects a QueryAck, sends the packet
\* (sendto() on a closed socket fails, and the failure is ignored).
SendQueryUntimed(s, c, evts, fd) ==               \* no timer for a retry
    /\ cmd' = [cmd EXCEPT ![s] = [c EXCEPT !.timeout_evt = fd, !.state = "kQueryAck"]]
    /\ events' = IF c.retries = 0 THEN [evts EXCEPT ![fd] = s] ELSE evts
    /\ toPad' = toPad \cup {QueryPkt(s, c.query)}
    /\ sent' = [sent EXCEPT ![c.query] = @ + 1]

SendQuery(s, c, evts, fd) ==
    /\ cmd' = [cmd EXCEPT ![s] =
                 [c EXCEPT !.timeout_evt = fd, !.state = "kQueryAck"]]
    /\ events' = [evts EXCEPT ![fd] = s]
    /\ toPad' = IF SocketsOpen THEN toPad \cup {QueryPkt(s, c.query)} ELSE toPad
    /\ sent' = [sent EXCEPT ![c.query] = @ + 1]

\* The reply_callback of query q is called.
Callback(q, result, bodies) ==
    /\ calls' = [calls EXCEPT ![q] = @ + 1]
    /\ outcome' = [outcome EXCEPT ![q] = result]
    /\ answer' = [answer EXCEPT ![q] = @ \cup bodies]

RemoveStateForgotten(s) == cmd' = cmd
RemoveState(s) == cmd' = [cmd EXCEPT ![s] = NoState]

AsyncQuery ==
    /\ ~crashed
    /\ next < NumQueries
    /\ cmd[seqid].state = "none"
    /\ next' = next + 1
    /\ seqid' = NextSeqId(seqid)
    /\ \E fd \in FreeFds :
         SendQuery(seqid, [NoState EXCEPT !.query = next], events, fd)
    /\ UNCHANGED <<phase, crashed, padVars, callVars, toPc>>

\* assert(cmd_in_flight_.find(seqid) == cmd_in_flight_.end()) fails.
AsyncQueryAborts ==
    /\ ~crashed
    /\ next < NumQueries
    /\ cmd[seqid].state # "none"
    /\ crashed' = TRUE
    /\ UNCHANGED <<phase, next, seqid, cmd, events, padVars, callVars,
                   toPad, toPc, sent>>

-----------------------------------------------------------------------------
\* PacketReceived.  A reply is always acknowledged ...
AckIfReply(p) ==
    toPad' = IF p.type = "kReply" THEN toPad \cup {ReplyAckPkt(p.seqid)} ELSE toPad

\* ... then ignored unless it is what its command waits for.
Expected(p) == cmd[p.seqid].state = p.type

PacketIgnored(p) ==
    /\ ~crashed
    /\ SocketsOpen
    /\ ~Expected(p)
    /\ AckIfReply(p)
    /\ UNCHANGED <<clientVars, padVars, callVars, toPc, sent>>

QueryAckReceived(p) ==
    /\ ~crashed
    /\ SocketsOpen
    /\ p.type = "kQueryAck"
    /\ Expected(p)
    /\ cmd' = [cmd EXCEPT ![p.seqid].state = "kReply"]
    /\ UNCHANGED <<phase, crashed, next, seqid, events, padVars, callVars,
                   toPad, toPc, sent>>

\* CancelEvent asserts that the event is registered, then erases it.
CancelEventForgotten(fd) == UNCHANGED <<crashed, events>>

CancelEvent(fd) ==
    /\ crashed' = (fd \notin {f \in Fds : events[f] # NULL})
    /\ events' = [events EXCEPT ![fd] = NULL]

ReplyReceived(p) ==
    /\ ~crashed
    /\ SocketsOpen
    /\ p.type = "kReply"
    /\ Expected(p)
    /\ AckIfReply(p)
    /\ CancelEvent(cmd[p.seqid].timeout_evt)
    /\ Callback(cmd[p.seqid].query, "ok", {p.body})
    /\ RemoveState(p.seqid)
    /\ UNCHANGED <<phase, next, seqid, padVars, toPc, sent>>

-----------------------------------------------------------------------------
\* RetryOperation, run by the event machine when the timer on fd expires.  It
\* asserts that the command is still in flight.  Its return value is false, so
\* the event is erased afterwards; the fresh timer is created before that and
\* so cannot get the descriptor of the old one.
RetriesLeftOneMore(c) == c.retries + 1 <= MaxRetries
RetriesLeft(c) == c.retries + 1 < MaxRetries

GiveUp(fd) ==
    /\ ~crashed
    /\ phase = "up"
    /\ events[fd] # NULL
    /\ LET s == events[fd]
       IN  /\ crashed' = (cmd[s].state = "none")
           /\ ~RetriesLeft(cmd[s])
           /\ Callback(cmd[s].query, "failed", {})
           /\ RemoveState(s)
    /\ events' = [events EXCEPT ![fd] = NULL]
    /\ UNCHANGED <<phase, next, seqid, padVars, toPad, toPc, sent>>

Resend(fd) ==
    /\ ~crashed
    /\ phase = "up"
    /\ events[fd] # NULL
    /\ LET s == events[fd]
       IN  /\ crashed' = (cmd[s].state = "none")
           /\ RetriesLeft(cmd[s])
           /\ \E new \in FreeFds :
                SendQuery(s, [cmd[s] EXCEPT !.retries = @ + 1],
                          [events EXCEPT ![fd] = NULL], new)
    /\ UNCHANGED <<phase, next, seqid, padVars, callVars, toPc>>

RetryOperation(fd) == GiveUp(fd) \/ Resend(fd)

-----------------------------------------------------------------------------
\* The GamePad (external).
PadQuery(p) ==
    /\ p.type = "kQuery"
    /\ executed' = executed \cup {p.body}
    /\ unacked' = unacked \cup {ReplyPkt(p.seqid, p.body)}
    /\ toPc' = toPc \cup {QueryAckPkt(p.seqid)}
    /\ UNCHANGED <<clientVars, callVars, toPad, sent>>

PadReply(r) ==
    /\ toPc' = toPc \cup {r}
    /\ UNCHANGED <<clientVars, padVars, callVars, toPad, sent>>

PadReplyAck(p) ==
    /\ p.type = "kReplyAck"
    /\ unacked' = {r \in unacked : r.seqid # p.seqid}
    /\ UNCHANGED <<clientVars, executed, callVars, toPad, toPc, sent>>

\* The network drops a packet.  Delivery does not consume one, so this is
\* also how a packet that was delivered disappears.
LosePadBound(p) ==
    /\ toPad' = toPad \ {p}
    /\ UNCHANGED <<clientVars, padVars, callVars, toPc, sent>>

LosePcBound(p) ==
    /\ toPc' = toPc \ {p}
    /\ UNCHANGED <<clientVars, padVars, callVars, toPad, sent>>

-----------------------------------------------------------------------------
Next ==
    \/ Start \/ StopEM \/ StopUdp
    \/ AsyncQuery \/ AsyncQueryAborts
    \/ \E p \in toPc : PacketIgnored(p) \/ QueryAckReceived(p) \/ ReplyReceived(p)
    \/ \E fd \in Fds : GiveUp(fd) \/ Resend(fd)
    \/ \E p \in toPad : PadQuery(p) \/ PadReplyAck(p) \/ LosePadBound(p)
    \/ \E r \in unacked : PadReply(r)
    \/ \E p \in toPc : LosePcBound(p)

\* The timer of command s is served.
RetryFor(s) == \E fd \in Fds : events[fd] = s /\ RetryOperation(fd)

Spec == Init /\ [][Next]_vars

\* timerfds expire and epoll reports them as long as the event machine runs.
FairSpec == Spec /\ \A s \in SeqIds : WF_vars(RetryFor(s))

-----------------------------------------------------------------------------
\* Every variable has its type; in particular seqid_ stays a sequence id and
\* retries_count within kMaxRetries.
TypeOK ==
    /\ phase \in {"new", "up", "emstopped", "down"}
    /\ crashed \in BOOLEAN
    /\ next \in 0 .. NumQueries
    /\ seqid \in SeqIds
    /\ cmd \in [SeqIds -> CmdState]
    /\ events \in [Fds -> SeqIds \cup {NULL}]
    /\ toPad \subseteq PadBound
    /\ toPc \subseteq PcBound
    /\ unacked \subseteq PcBound
    /\ executed \subseteq Queries
    /\ calls \in [Queries -> Nat]
    /\ outcome \in [Queries -> {"none", "ok", "failed"}]
    /\ answer \in [Queries -> SUBSET Queries]
    /\ sent \in [Queries -> Nat]

InFlight(s) == cmd[s].state # "none"

\* Every command in flight owns exactly one registered timer and every
\* registered timer belongs to a command in flight.  This is what the asserts
\* of RetryOperation and CancelEvent rely on, and what keeps Query from
\* waiting for a callback that nothing would ever make.
TimersMatch ==
    /\ \A fd \in Fds : events[fd] # NULL =>
         /\ InFlight(events[fd])
         /\ cmd[events[fd]].timeout_evt = fd
    /\ \A s \in SeqIds : InFlight(s) =>
         /\ cmd[s].timeout_evt \in Fds
         /\ events[cmd[s].timeout_evt] = s

\* A query is issued, then in flight, and leaves cmd_in_flight_ together with
\* the one and only call of its callback, whatever the network repeats.
CallbackOnce ==
    \A q \in Queries :
        calls[q] = IF q < next /\ ~(\E s \in SeqIds : InFlight(s) /\ cmd[s].query = q)
                   THEN 1 ELSE 0

\* While ids do not wrap round, a callback only ever gets the reply to its own
\* query, and success means that the GamePad carried the query out.
AnswersMatch ==
    \A q \in Queries :
        /\ answer[q] \subseteq {q}
        /\ outcome[q] = "ok" => q \in executed /\ answer[q] # {}

\* A query is sent at most kMaxRetries times, and reported as failed only
\* after all of them: the "up to 10s" of cmd-protocol.h is exact.
SendBudget ==
    \A q \in Queries :
        /\ sent[q] <= MaxRetries
        /\ outcome[q] = "failed" => sent[q] = MaxRetries

\* No assert of the command client fails (handlers one at a time, ids that do
\* not wrap round).
NoAssertFails == ~crashed

\* While the client runs, every query is called back.
QueryAnswered ==
    \A q \in Queries :
        (q < next) ~> (outcome[q] # "none" \/ phase # "up" \/ crashed)

-----------------------------------------------------------------------------
(* The client implements QueryService.                                     *)
Status == [q \in Queries |->
             IF q >= next THEN "idle"
             ELSE IF outcome[q] = "none" THEN "pending" ELSE outcome[q]]

QS == INSTANCE QueryService
        WITH status <- Status, executed <- executed,
             serving <- (phase = "up" /\ ~crashed)

\* Each step of the client is a step of QueryService or none, and a pending
\* query completes while the client is up.
ImplementsQueryService == QS!SSpec
=============================================================================
