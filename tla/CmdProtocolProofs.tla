------------------------- MODULE CmdProtocolProofs --------------------------
(***************************************************************************)
(* Proofs about CmdProtocol, for every number of queries, every width of   *)
(* the sequence ids, every retry limit and every set of descriptors.       *)
(***************************************************************************)
EXTENDS CmdProtocol, FiniteSetTheorems, TLAPS

\* seqid_++ stays within the width of the id.
LEMMA NextSeqIdType == ASSUME NEW s \in SeqIds PROVE NextSeqId(s) \in SeqIds
BY SizesAssumption, SMT DEF NextSeqId, SeqIds

\* The value-initialised CmdState is one.
LEMMA NoStateType == NoState \in CmdState
BY SizesAssumption DEF NoState, CmdState, Queries

\* A command that is sent again or for the first time keeps the types.
LEMMA SendQueryType ==
    ASSUME TypeOK, NEW s \in SeqIds, NEW c \in CmdState,
           NEW evts \in [Fds -> SeqIds \cup {NULL}], NEW fd \in Fds,
           SendQuery(s, c, evts, fd)
    PROVE  /\ cmd' \in [SeqIds -> CmdState]
           /\ events' \in [Fds -> SeqIds \cup {NULL}]
           /\ toPad' \subseteq PadBound
           /\ sent' \in [Queries -> Nat]
<1>1. [c EXCEPT !.timeout_evt = fd, !.state = "kQueryAck"] \in CmdState
  BY DEF CmdState
<1>2. c.query \in Queries
  BY DEF CmdState
<1>3. QueryPkt(s, c.query) \in PadBound
  BY <1>2 DEF QueryPkt, PadBound
<1> QED BY <1>1, <1>2, <1>3 DEF TypeOK, SendQuery

\* The callback's history keeps its types.
LEMMA CallbackType ==
    ASSUME TypeOK, NEW q \in Queries, NEW result \in {"ok", "failed"},
           NEW bodies \in SUBSET Queries, Callback(q, result, bodies)
    PROVE  /\ calls' \in [Queries -> Nat]
           /\ outcome' \in [Queries -> {"none", "ok", "failed"}]
           /\ answer' \in [Queries -> SUBSET Queries]
BY DEF TypeOK, Callback

\* A freshly constructed client has the types.
LEMMA TypeInit == ASSUME Init PROVE TypeOK
<1>1. next \in 0 .. NumQueries /\ seqid \in SeqIds
  BY SizesAssumption DEF Init, SeqIds
<1>2. cmd \in [SeqIds -> CmdState] /\ events \in [Fds -> SeqIds \cup {NULL}]
  BY NoStateType DEF Init
<1>3. /\ calls \in [Queries -> Nat]
      /\ outcome \in [Queries -> {"none", "ok", "failed"}]
      /\ answer \in [Queries -> SUBSET Queries]
      /\ sent \in [Queries -> Nat]
  BY DEF Init
<1> QED BY <1>1, <1>2, <1>3 DEF Init, TypeOK

\* Every handler, every step of the GamePad and of the network keeps the types.
LEMMA TypeStep == ASSUME TypeOK, [Next]_vars PROVE TypeOK'
<1>1. CASE Start
  BY <1>1 DEF Start, TypeOK, padVars, callVars
<1>2. CASE StopEM
  BY <1>2 DEF StopEM, TypeOK, padVars, callVars
<1>3. CASE StopUdp
  BY <1>3 DEF StopUdp, TypeOK, padVars, callVars
<1>4. CASE AsyncQuery
  <2>1. PICK fd \in Fds :
          SendQuery(seqid, [NoState EXCEPT !.query = next], events, fd)
    BY <1>4 DEF AsyncQuery, FreeFds
  <2>2. [NoState EXCEPT !.query = next] \in CmdState
    <3>1. next \in Queries
      BY <1>4, SizesAssumption DEF AsyncQuery, TypeOK, Queries
    <3> QED BY <3>1, SizesAssumption DEF NoState, CmdState
  <2>3. seqid \in SeqIds /\ events \in [Fds -> SeqIds \cup {NULL}]
    BY DEF TypeOK
  <2>4. /\ cmd' \in [SeqIds -> CmdState]
        /\ events' \in [Fds -> SeqIds \cup {NULL}]
        /\ toPad' \subseteq PadBound
        /\ sent' \in [Queries -> Nat]
    BY <2>1, <2>2, <2>3, SendQueryType
  <2>5. next' \in 0 .. NumQueries
    BY <1>4, SizesAssumption DEF AsyncQuery, TypeOK
  <2>6. seqid' \in SeqIds
    BY <1>4, <2>3, NextSeqIdType DEF AsyncQuery
  <2> QED BY <1>4, <2>4, <2>5, <2>6 DEF AsyncQuery, TypeOK, padVars, callVars
<1>5. CASE AsyncQueryAborts
  BY <1>5 DEF AsyncQueryAborts, TypeOK, padVars, callVars
<1>6. ASSUME NEW p \in toPc, PacketIgnored(p) PROVE TypeOK'
  <2>1. ReplyAckPkt(p.seqid) \in PadBound
    BY SizesAssumption DEF TypeOK, PcBound, PadBound, ReplyAckPkt, Queries
  <2> QED BY <1>6, <2>1 DEF PacketIgnored, AckIfReply, TypeOK, clientVars,
                            padVars, callVars
<1>7. ASSUME NEW p \in toPc, QueryAckReceived(p) PROVE TypeOK'
  <2>1. p.seqid \in SeqIds
    BY DEF TypeOK, PcBound
  <2>2. cmd' \in [SeqIds -> CmdState]
    BY <1>7, <2>1 DEF QueryAckReceived, TypeOK, CmdState
  <2> QED BY <1>7, <2>2 DEF QueryAckReceived, TypeOK, padVars, callVars
<1>8. ASSUME NEW p \in toPc, ReplyReceived(p) PROVE TypeOK'
  <2>1. /\ p.seqid \in SeqIds
        /\ p.body \in Queries
    BY DEF TypeOK, PcBound
  <2>2. ReplyAckPkt(p.seqid) \in PadBound
    BY <2>1, SizesAssumption DEF PadBound, ReplyAckPkt, Queries
  <2>3. cmd[p.seqid].query \in Queries
    BY <2>1 DEF TypeOK, CmdState
  <2>4. /\ calls' \in [Queries -> Nat]
        /\ outcome' \in [Queries -> {"none", "ok", "failed"}]
        /\ answer' \in [Queries -> SUBSET Queries]
    BY <1>8, <2>1, <2>3, CallbackType DEF ReplyReceived
  <2>5. cmd' \in [SeqIds -> CmdState]
    BY <1>8, NoStateType DEF ReplyReceived, RemoveState, TypeOK
  <2>6. crashed' \in BOOLEAN /\ events' \in [Fds -> SeqIds \cup {NULL}]
    BY <1>8 DEF ReplyReceived, CancelEvent, TypeOK
  <2> QED BY <1>8, <2>2, <2>4, <2>5, <2>6
          DEF ReplyReceived, AckIfReply, TypeOK, padVars
<1>9. ASSUME NEW fd \in Fds, GiveUp(fd) PROVE TypeOK'
  <2>1. events[fd] \in SeqIds
    BY <1>9 DEF GiveUp, TypeOK
  <2>2. cmd[events[fd]].query \in Queries
    BY <2>1 DEF TypeOK, CmdState
  <2>3. /\ calls' \in [Queries -> Nat]
        /\ outcome' \in [Queries -> {"none", "ok", "failed"}]
        /\ answer' \in [Queries -> SUBSET Queries]
    BY <1>9, <2>2, CallbackType DEF GiveUp
  <2>4. cmd' \in [SeqIds -> CmdState]
    BY <1>9, NoStateType DEF GiveUp, RemoveState, TypeOK
  <2> QED BY <1>9, <2>3, <2>4 DEF GiveUp, TypeOK, padVars
<1>10. ASSUME NEW fd \in Fds, Resend(fd) PROVE TypeOK'
  <2> DEFINE s == events[fd]
             c == [cmd[s] EXCEPT !.retries = @ + 1]
  <2>1. s \in SeqIds
    BY <1>10 DEF Resend, TypeOK
  <2>2. c \in CmdState
    <3>1. cmd[s] \in CmdState
      BY <2>1 DEF TypeOK
    <3>2. cmd[s].retries + 1 \in 0 .. MaxRetries
      BY <1>10, <3>1, SizesAssumption DEF Resend, RetriesLeft, CmdState
    <3> QED BY <3>1, <3>2 DEF CmdState
  <2>3. PICK new \in Fds : SendQuery(s, c, [events EXCEPT ![fd] = NULL], new)
    BY <1>10 DEF Resend, FreeFds
  <2>4. [events EXCEPT ![fd] = NULL] \in [Fds -> SeqIds \cup {NULL}]
    BY DEF TypeOK
  <2> HIDE DEF s, c
  <2>5. /\ cmd' \in [SeqIds -> CmdState]
        /\ events' \in [Fds -> SeqIds \cup {NULL}]
        /\ toPad' \subseteq PadBound
        /\ sent' \in [Queries -> Nat]
    BY <2>1, <2>2, <2>3, <2>4, SendQueryType
  <2>6. crashed' \in BOOLEAN
    BY <1>10 DEF Resend
  <2> QED BY <1>10, <2>5, <2>6 DEF Resend, TypeOK, padVars, callVars
<1>11. ASSUME NEW p \in toPad, PadQuery(p) PROVE TypeOK'
  <2>1. p.seqid \in SeqIds /\ p.body \in Queries
    BY DEF TypeOK, PadBound
  <2>2. ReplyPkt(p.seqid, p.body) \in PcBound /\ QueryAckPkt(p.seqid) \in PcBound
    BY <2>1, SizesAssumption DEF PcBound, ReplyPkt, QueryAckPkt, Queries
  <2> QED BY <1>11, <2>1, <2>2 DEF PadQuery, TypeOK, clientVars, callVars
<1>12. ASSUME NEW p \in toPad, PadReplyAck(p) PROVE TypeOK'
  BY <1>12 DEF PadReplyAck, TypeOK, clientVars, callVars
<1>13. ASSUME NEW p \in toPad, LosePadBound(p) PROVE TypeOK'
  BY <1>13 DEF LosePadBound, TypeOK, clientVars, padVars, callVars
<1>14. ASSUME NEW r \in unacked, PadReply(r) PROVE TypeOK'
  BY <1>14 DEF PadReply, TypeOK, clientVars, padVars, callVars
<1>15. ASSUME NEW p \in toPc, LosePcBound(p) PROVE TypeOK'
  BY <1>15 DEF LosePcBound, TypeOK, clientVars, padVars, callVars
<1>16. CASE UNCHANGED vars
  BY <1>16 DEF vars, TypeOK, clientVars, padVars, callVars
<1> QED BY <1>1, <1>2, <1>3, <1>4, <1>5, <1>6, <1>7, <1>8, <1>9, <1>10,
           <1>11, <1>12, <1>13, <1>14, <1>15, <1>16 DEF Next

\* Every variable of the command client keeps its type: sequence ids stay in
\* the width of u16, retry counters within kMaxRetries.
THEOREM TypeCorrect == Spec => []TypeOK
BY TypeInit, TypeStep, PTL DEF Spec

-----------------------------------------------------------------------------
(* The inductive invariant.  CallbackOnce and the asserts depend on each   *)
(* command in flight being the only one for its query, and on the exact    *)
(* match of timers and commands; SendBudget on the retry counter being one *)
(* behind the number of packets sent.                                      *)

\* A query is in flight under at most one sequence id, and only once issued.
Owner ==
    \A s \in SeqIds : InFlight(s) =>
        /\ cmd[s].query < next
        /\ \A t \in SeqIds : InFlight(t) /\ cmd[t].query = cmd[s].query => t = s

\* retries_count counts the packets sent, less one, until the callback.
Budget ==
    /\ \A s \in SeqIds : InFlight(s) =>
         /\ cmd[s].retries < MaxRetries
         /\ sent[cmd[s].query] = cmd[s].retries + 1
         /\ outcome[cmd[s].query] = "none"
    /\ \A q \in Queries : q >= next => sent[q] = 0 /\ outcome[q] = "none"
    /\ SendBudget

Inv == TypeOK /\ TimersMatch /\ Owner /\ CallbackOnce /\ Budget

\* Inv holds of a freshly constructed client.
LEMMA InvInit == ASSUME Init PROVE Inv
<1>1. TypeOK
  BY TypeInit
<1>2. \A s \in SeqIds : ~InFlight(s)
  BY DEF Init, InFlight, NoState
<1>3. TimersMatch /\ Owner
  BY <1>2 DEF Init, TimersMatch, Owner
<1>4. CallbackOnce
  BY DEF Init, CallbackOnce, Queries
<1>5. Budget
  BY <1>2, SizesAssumption DEF Init, Budget, SendBudget
<1> QED BY <1>1, <1>3, <1>4, <1>5 DEF Inv

\* A step that leaves the commands, the timers and the callbacks alone.
LEMMA QuietStep ==
    ASSUME Inv, TypeOK', UNCHANGED <<cmd, events, next, calls, outcome, sent>>
    PROVE  Inv'
BY DEF Inv, TimersMatch, Owner, CallbackOnce, Budget, SendBudget, InFlight

\* A step that calls the callback of the command in flight under s, erases its
\* timer and removes it: what a reply and the last retry have in common.
LEMMA CompletionStep ==
    ASSUME Inv, TypeOK', NEW s \in SeqIds, InFlight(s),
           NEW result, NEW bodies,
           Callback(cmd[s].query, result, bodies), RemoveState(s),
           events' = [events EXCEPT ![cmd[s].timeout_evt] = NULL],
           UNCHANGED <<next, sent>>,
           result = "failed" => sent[cmd[s].query] = MaxRetries
    PROVE  Inv'
<1> DEFINE q == cmd[s].query
           fd == cmd[s].timeout_evt
<1>1. q \in Queries /\ fd \in Fds /\ events[fd] = s
  BY DEF Inv, TypeOK, TimersMatch, CmdState
<1>2. /\ cmd'[s].state = "none"
      /\ \A t \in SeqIds : t # s => cmd'[t] = cmd[t]
  BY DEF Inv, TypeOK, RemoveState, NoState
<1>3. TimersMatch'
  <2>1. ASSUME NEW f \in Fds, events'[f] # NULL
        PROVE  InFlight(events[f])' /\ cmd'[events'[f]].timeout_evt = f
    <3>1. f # fd /\ events'[f] = events[f] /\ events[f] \in SeqIds
      BY <1>1, <2>1 DEF Inv, TypeOK
    <3>2. events[f] # s
      BY <3>1, <2>1 DEF Inv, TimersMatch
    <3> QED BY <3>1, <3>2, <2>1, <1>2 DEF Inv, TimersMatch, InFlight
  <2>2. ASSUME NEW t \in SeqIds, InFlight(t)'
        PROVE  cmd'[t].timeout_evt \in Fds /\ events'[cmd'[t].timeout_evt] = t
    <3>1. t # s /\ cmd'[t] = cmd[t] /\ InFlight(t)
      BY <1>2, <2>2 DEF InFlight
    <3>2. cmd[t].timeout_evt \in Fds /\ events[cmd[t].timeout_evt] = t
      BY <3>1 DEF Inv, TimersMatch
    <3> QED BY <3>1, <3>2, <1>1 DEF Inv, TypeOK
  <2> QED BY <2>1, <2>2 DEF TimersMatch, InFlight
<1>4. Owner'
  BY <1>2 DEF Inv, Owner, InFlight
<1>5. CallbackOnce'
  <2> SUFFICES ASSUME NEW r \in Queries
               PROVE  calls'[r] = IF r < next /\ ~(\E t \in SeqIds :
                                    InFlight(t)' /\ cmd'[t].query = r)
                                  THEN 1 ELSE 0
    BY DEF CallbackOnce, InFlight
  <2>1. CASE r = q
    <3>1. ~(\E t \in SeqIds : InFlight(t)' /\ cmd'[t].query = q)
      BY <1>2 DEF Inv, Owner, InFlight
    <3>2. q < next /\ calls[q] = 0
      BY <1>1 DEF Inv, Owner, CallbackOnce
    <3> QED BY <2>1, <3>1, <3>2, <1>1 DEF Callback, Inv, TypeOK
  <2>2. CASE r # q
    <3>1. calls'[r] = calls[r]
      BY <2>2 DEF Callback, Inv, TypeOK
    <3>2. (\E t \in SeqIds : InFlight(t)' /\ cmd'[t].query = r)
            <=> (\E t \in SeqIds : InFlight(t) /\ cmd[t].query = r)
      BY <1>2, <2>2 DEF InFlight
    <3> QED BY <3>1, <3>2 DEF Inv, CallbackOnce
  <2> QED BY <2>1, <2>2
<1>6. Budget'
  <2>1. q < next /\ next \in Int /\ (\A r \in Queries : r \in Int)
    BY DEF Inv, Owner, TypeOK, Queries
  <2>2. \A r \in Queries : r # q => outcome'[r] = outcome[r]
    BY DEF Callback, Inv, TypeOK
  <2>3. outcome'[q] = result
    BY <1>1 DEF Callback, Inv, TypeOK
  <2>4. \A t \in SeqIds : InFlight(t)' =>
          /\ InFlight(t) /\ cmd'[t] = cmd[t] /\ cmd[t].query # q
          /\ cmd[t].query \in Queries
    BY <1>2 DEF InFlight, Inv, Owner, TypeOK, CmdState
  <2>5. SendBudget'
    BY <2>2, <2>3 DEF SendBudget, Inv, Budget
  <2>6. \A t \in SeqIds : InFlight(t)' =>
          /\ cmd'[t].retries < MaxRetries
          /\ sent'[cmd'[t].query] = cmd'[t].retries + 1
          /\ outcome'[cmd'[t].query] = "none"
    BY <2>2, <2>4 DEF Inv, Budget
  <2>7. \A r \in Queries : r >= next' => sent'[r] = 0 /\ outcome'[r] = "none"
    BY <2>1, <2>2 DEF Inv, Budget
  <2> QED BY <2>5, <2>6, <2>7 DEF Budget, InFlight
<1> QED BY <1>3, <1>4, <1>5, <1>6 DEF Inv

\* AsyncQuery puts a query in flight that never was, under a free id and with
\* a timer of its own.
LEMMA AsyncQueryStep == ASSUME Inv, TypeOK', AsyncQuery PROVE Inv'
<1> DEFINE c == [NoState EXCEPT !.query = next]
<1>1. PICK fd \in FreeFds : SendQuery(seqid, c, events, fd)
  BY DEF AsyncQuery
<1>2. /\ fd \in Fds /\ events[fd] = NULL
      /\ seqid \in SeqIds /\ ~InFlight(seqid)
      /\ next \in Queries /\ next' = next + 1
  BY <1>1, SizesAssumption DEF FreeFds, AsyncQuery, InFlight, Inv, TypeOK, Queries
<1>3. /\ cmd'[seqid].state = "kQueryAck"
      /\ cmd'[seqid].query = next
      /\ cmd'[seqid].timeout_evt = fd
      /\ cmd'[seqid].retries = 0
  BY <1>1, <1>2 DEF SendQuery, NoState, Inv, TypeOK
<1>4. \A t \in SeqIds : t # seqid => cmd'[t] = cmd[t]
  BY <1>1 DEF SendQuery, Inv, TypeOK
<1>5. events'[fd] = seqid /\ \A f \in Fds : f # fd => events'[f] = events[f]
  BY <1>1, <1>2 DEF SendQuery, Inv, TypeOK
<1>6. sent'[next] = sent[next] + 1 /\ \A q \in Queries : q # next => sent'[q] = sent[q]
  BY <1>1, <1>2 DEF SendQuery, NoState, Inv, TypeOK
<1>7. UNCHANGED <<calls, outcome>>
  BY DEF AsyncQuery, callVars
<1>8. \A t \in SeqIds : InFlight(t)' <=> (InFlight(t) \/ t = seqid)
  BY <1>3, <1>4 DEF InFlight
<1>9. \A t \in SeqIds : InFlight(t) => cmd[t].query < next /\ t # seqid
  BY <1>2 DEF Inv, Owner
<1>10. TimersMatch'
  <2>1. ASSUME NEW f \in Fds, events'[f] # NULL
        PROVE  cmd'[events'[f]].state # "none" /\ cmd'[events'[f]].timeout_evt = f
    <3>1. CASE f = fd
      BY <3>1, <1>5, <1>3
    <3>2. CASE f # fd
      <4>1. events'[f] = events[f] /\ events[f] \in SeqIds /\ InFlight(events[f])
        BY <3>2, <2>1, <1>5 DEF Inv, TypeOK, TimersMatch
      <4>2. events[f] # seqid
        BY <4>1, <1>9
      <4> QED BY <4>1, <4>2, <1>4, <2>1 DEF Inv, TimersMatch, InFlight
    <3> QED BY <3>1, <3>2
  <2>2. ASSUME NEW t \in SeqIds, InFlight(t)'
        PROVE  cmd'[t].timeout_evt \in Fds /\ events'[cmd'[t].timeout_evt] = t
    <3>1. CASE t = seqid
      BY <3>1, <1>3, <1>5, <1>2
    <3>2. CASE t # seqid
      <4>1. InFlight(t) /\ cmd'[t] = cmd[t]
        BY <3>2, <2>2, <1>8, <1>4
      <4>2. cmd[t].timeout_evt \in Fds /\ events[cmd[t].timeout_evt] = t
        BY <4>1 DEF Inv, TimersMatch
      <4>3. cmd[t].timeout_evt # fd
        BY <4>2, <1>2, NullAssumption DEF SeqIds
      <4> QED BY <4>1, <4>2, <4>3, <1>5
    <3> QED BY <3>1, <3>2
  <2> QED BY <2>1, <2>2 DEF TimersMatch, InFlight
<1>11. Owner'
  <2> HIDE DEF c
  <2>1. \A t \in SeqIds : InFlight(t)' =>
          \/ t = seqid /\ cmd'[t].query = next
          \/ InFlight(t) /\ cmd'[t].query = cmd[t].query /\ cmd[t].query < next
    BY <1>3, <1>4, <1>8, <1>9
  <2>2. next \in Int /\ \A t \in SeqIds : cmd[t].query \in Int
    BY <1>2 DEF Inv, TypeOK, CmdState, Queries
  <2>3. \A t \in SeqIds : InFlight(t)' => cmd'[t].query < next'
    BY <2>1, <2>2, <1>2
  <2>4. \A t, u \in SeqIds : InFlight(t)' /\ InFlight(u)' /\ cmd'[u].query = cmd'[t].query
                                => u = t
    BY <2>1, <2>2 DEF Inv, Owner
  <2> QED BY <2>3, <2>4 DEF Owner, InFlight
<1>12. CallbackOnce'
  <2> SUFFICES ASSUME NEW q \in Queries
               PROVE  calls'[q] = IF q < next' /\ ~(\E t \in SeqIds :
                                    InFlight(t)' /\ cmd'[t].query = q)
                                  THEN 1 ELSE 0
    BY DEF CallbackOnce, InFlight
  <2>1. calls'[q] = calls[q] /\ q \in Int /\ next \in Int
    BY <1>7, <1>2 DEF Queries
  <2>2. CASE q = next
    BY <2>1, <2>2, <1>2, <1>3, <1>8 DEF Inv, CallbackOnce
  <2>3. CASE q # next
    <3>1. (\E t \in SeqIds : InFlight(t)' /\ cmd'[t].query = q)
            <=> (\E t \in SeqIds : InFlight(t) /\ cmd[t].query = q)
      BY <2>3, <1>3, <1>4, <1>8, <1>9
    <3>2. q < next' <=> q < next
      BY <2>1, <2>3, <1>2
    <3> QED BY <2>1, <3>1, <3>2 DEF Inv, CallbackOnce
  <2> QED BY <2>2, <2>3
<1>13. Budget'
  <2>1. sent[next] = 0 /\ outcome[next] = "none"
    BY <1>2 DEF Inv, Budget, Queries
  <2>2. SendBudget'
    BY <2>1, <1>2, <1>6, <1>7, SizesAssumption DEF SendBudget, Inv, Budget
  <2>3. ASSUME NEW t \in SeqIds, InFlight(t)'
        PROVE  /\ cmd'[t].retries < MaxRetries
               /\ sent'[cmd'[t].query] = cmd'[t].retries + 1
               /\ outcome'[cmd'[t].query] = "none"
    <3>1. CASE t = seqid
      BY <3>1, <2>1, <1>3, <1>6, <1>7, SizesAssumption
    <3>2. CASE t # seqid
      <4>1. InFlight(t) /\ cmd'[t] = cmd[t] /\ cmd[t].query \in Queries
        BY <3>2, <2>3, <1>4, <1>8 DEF Inv, TypeOK, CmdState
      <4>2. cmd[t].query # next
        BY <4>1, <1>9, <1>2 DEF Queries
      <4> QED BY <4>1, <4>2, <1>6, <1>7 DEF Inv, Budget
    <3> QED BY <3>1, <3>2
  <2>4. \A q \in Queries : q >= next' => sent'[q] = 0 /\ outcome'[q] = "none"
    BY <1>2, <1>6, <1>7 DEF Inv, Budget, Queries
  <2> QED BY <2>2, <2>3, <2>4 DEF Budget, InFlight
<1> QED BY <1>10, <1>11, <1>12, <1>13 DEF Inv

\* A retry replaces the timer of its command by another one and counts the
\* packet.
LEMMA ResendStep ==
    ASSUME Inv, TypeOK', NEW old \in Fds, Resend(old) PROVE Inv'
<1> DEFINE s == events[old]
           c == [cmd[s] EXCEPT !.retries = @ + 1]
           evts == [events EXCEPT ![old] = NULL]
<1>1. PICK fd \in FreeFds : SendQuery(s, c, evts, fd)
  BY DEF Resend
<1>2. /\ fd \in Fds /\ events[fd] = NULL /\ fd # old
      /\ s \in SeqIds /\ InFlight(s) /\ cmd[s].timeout_evt = old
      /\ cmd[s] \in CmdState
  BY <1>1 DEF FreeFds, Resend, Inv, TypeOK, TimersMatch
<1>3. /\ cmd'[s].state = "kQueryAck"
      /\ cmd'[s].query = cmd[s].query
      /\ cmd'[s].timeout_evt = fd
      /\ cmd'[s].retries = cmd[s].retries + 1
  BY <1>1, <1>2 DEF SendQuery, CmdState, Inv, TypeOK
<1>4. \A t \in SeqIds : t # s => cmd'[t] = cmd[t]
  BY <1>1 DEF SendQuery, Inv, TypeOK
<1>5. /\ events'[fd] = s
      /\ events'[old] = NULL
      /\ \A f \in Fds : f # fd /\ f # old => events'[f] = events[f]
  BY <1>1, <1>2 DEF SendQuery, Inv, TypeOK
<1>6. /\ sent'[cmd[s].query] = sent[cmd[s].query] + 1
      /\ \A q \in Queries : q # cmd[s].query => sent'[q] = sent[q]
      /\ cmd[s].query \in Queries
  BY <1>1, <1>2 DEF SendQuery, CmdState, Inv, TypeOK
<1>7. UNCHANGED <<calls, outcome, next>>
  BY DEF Resend, callVars
<1>8. \A t \in SeqIds : InFlight(t)' <=> InFlight(t)
  BY <1>2, <1>3, <1>4 DEF InFlight
<1>9. \A t \in SeqIds : cmd'[t].query = cmd[t].query
  BY <1>3, <1>4
<1>10. TimersMatch'
  <2>1. ASSUME NEW f \in Fds, events'[f] # NULL
        PROVE  cmd'[events'[f]].state # "none" /\ cmd'[events'[f]].timeout_evt = f
    <3>1. CASE f = fd
      BY <3>1, <1>5, <1>3
    <3>2. CASE f # fd
      <4>1. /\ f # old /\ events'[f] = events[f] /\ events[f] \in SeqIds
            /\ InFlight(events[f]) /\ cmd[events[f]].timeout_evt = f
        BY <3>2, <2>1, <1>5 DEF Inv, TypeOK, TimersMatch
      <4>2. events[f] # s
        BY <4>1, <1>2
      <4> QED BY <4>1, <4>2, <1>4 DEF InFlight
    <3> QED BY <3>1, <3>2
  <2>2. ASSUME NEW t \in SeqIds, InFlight(t)'
        PROVE  cmd'[t].timeout_evt \in Fds /\ events'[cmd'[t].timeout_evt] = t
    <3>1. CASE t = s
      BY <3>1, <1>3, <1>5, <1>2
    <3>2. CASE t # s
      <4>1. InFlight(t) /\ cmd'[t] = cmd[t]
        BY <3>2, <2>2, <1>8, <1>4
      <4>2. cmd[t].timeout_evt \in Fds /\ events[cmd[t].timeout_evt] = t
        BY <4>1 DEF Inv, TimersMatch
      <4>3. cmd[t].timeout_evt # fd /\ cmd[t].timeout_evt # old
        BY <4>2, <3>2, <1>2, NullAssumption DEF SeqIds
      <4> QED BY <4>1, <4>2, <4>3, <1>5
    <3> QED BY <3>1, <3>2
  <2> QED BY <2>1, <2>2 DEF TimersMatch, InFlight
<1>11. Owner'
  BY <1>7, <1>8, <1>9 DEF Inv, Owner, InFlight
<1>12. CallbackOnce'
  BY <1>7, <1>8, <1>9 DEF Inv, CallbackOnce, InFlight
<1>13. Budget'
  <2>1. /\ cmd[s].retries + 1 < MaxRetries
        /\ sent[cmd[s].query] = cmd[s].retries + 1
        /\ outcome[cmd[s].query] = "none"
        /\ cmd[s].retries \in Nat /\ cmd[s].query < next
    BY <1>2 DEF Resend, RetriesLeft, Inv, Budget, CmdState, Owner
  <2>2. SendBudget'
    BY <2>1, <1>6, <1>7, SizesAssumption DEF SendBudget, Inv, Budget
  <2>3. ASSUME NEW t \in SeqIds, InFlight(t)'
        PROVE  /\ cmd'[t].retries < MaxRetries
               /\ sent'[cmd'[t].query] = cmd'[t].retries + 1
               /\ outcome'[cmd'[t].query] = "none"
    <3>1. CASE t = s
      BY <3>1, <2>1, <1>3, <1>6, <1>7, SizesAssumption
    <3>2. CASE t # s
      <4>1. InFlight(t) /\ cmd'[t] = cmd[t] /\ cmd[t].query \in Queries
        BY <3>2, <2>3, <1>4, <1>8 DEF Inv, TypeOK, CmdState
      <4>2. cmd[t].query # cmd[s].query
        BY <4>1, <3>2, <1>2 DEF Inv, Owner
      <4> QED BY <4>1, <4>2, <1>6, <1>7 DEF Inv, Budget
    <3> QED BY <3>1, <3>2
  <2>4. \A q \in Queries : q >= next' => sent'[q] = 0 /\ outcome'[q] = "none"
    BY <2>1, <1>6, <1>7 DEF Inv, TypeOK, Budget, Queries
  <2> QED BY <2>2, <2>3, <2>4 DEF Budget, InFlight
<1> QED BY <1>10, <1>11, <1>12, <1>13 DEF Inv

\* Inv is inductive.
LEMMA InvStep == ASSUME Inv, [Next]_vars PROVE Inv'
<1> TypeOK'
  BY TypeStep DEF Inv
<1>1. CASE Start \/ StopEM \/ StopUdp \/ AsyncQueryAborts
  BY <1>1, QuietStep DEF Start, StopEM, StopUdp, AsyncQueryAborts, callVars
<1>2. CASE AsyncQuery
  BY <1>2, AsyncQueryStep
<1>3. ASSUME NEW p \in toPc, PacketIgnored(p) PROVE Inv'
  BY <1>3, QuietStep DEF PacketIgnored, clientVars, callVars
<1>4. ASSUME NEW p \in toPc, QueryAckReceived(p) PROVE Inv'
  <2>1. p.seqid \in SeqIds /\ InFlight(p.seqid)
    BY <1>4 DEF Inv, TypeOK, PcBound, QueryAckReceived, Expected, InFlight
  <2>2. \A t \in SeqIds : /\ InFlight(t)' <=> InFlight(t)
                          /\ cmd'[t].query = cmd[t].query
                          /\ cmd'[t].timeout_evt = cmd[t].timeout_evt
                          /\ cmd'[t].retries = cmd[t].retries
    BY <1>4, <2>1 DEF QueryAckReceived, InFlight, Inv, TypeOK, CmdState
  <2>3. UNCHANGED <<events, next, calls, outcome, sent>>
    BY <1>4 DEF QueryAckReceived, callVars
  <2>4. TimersMatch'
    BY <2>2, <2>3 DEF Inv, TypeOK, TimersMatch, InFlight
  <2>5. Owner' /\ CallbackOnce' /\ Budget'
    BY <2>2, <2>3 DEF Inv, Owner, CallbackOnce, Budget, SendBudget, InFlight
  <2> QED BY <2>4, <2>5 DEF Inv
<1>5. ASSUME NEW p \in toPc, ReplyReceived(p) PROVE Inv'
  <2>1. p.seqid \in SeqIds /\ InFlight(p.seqid)
    BY <1>5 DEF Inv, TypeOK, PcBound, ReplyReceived, Expected, InFlight
  <2>2. UNCHANGED <<next, sent>>
    BY <1>5 DEF ReplyReceived
  <2>3. events' = [events EXCEPT ![cmd[p.seqid].timeout_evt] = NULL]
    BY <1>5 DEF ReplyReceived, CancelEvent
  <2>4. Callback(cmd[p.seqid].query, "ok", {p.body}) /\ RemoveState(p.seqid)
    BY <1>5 DEF ReplyReceived
  <2> QED BY <2>1, <2>2, <2>3, <2>4, CompletionStep
<1>6. ASSUME NEW fd \in Fds, GiveUp(fd) PROVE Inv'
  <2> DEFINE s == events[fd]
  <2>1. s \in SeqIds /\ InFlight(s) /\ cmd[s].timeout_evt = fd
    BY <1>6 DEF Inv, TypeOK, GiveUp, TimersMatch
  <2>2. UNCHANGED <<next, sent>>
    BY <1>6 DEF GiveUp
  <2>3. events' = [events EXCEPT ![cmd[s].timeout_evt] = NULL]
    BY <1>6, <2>1 DEF GiveUp
  <2>4. Callback(cmd[s].query, "failed", {}) /\ RemoveState(s)
    BY <1>6 DEF GiveUp
  <2>5. sent[cmd[s].query] = MaxRetries
    <3>1. /\ ~(cmd[s].retries + 1 < MaxRetries)
          /\ cmd[s].retries < MaxRetries
          /\ cmd[s].retries \in Nat
          /\ sent[cmd[s].query] = cmd[s].retries + 1
      BY <1>6, <2>1 DEF GiveUp, RetriesLeft, Inv, Budget, TypeOK, CmdState
    <3> QED BY <3>1, SizesAssumption
  <2> HIDE DEF s
  <2> QED BY <2>1, <2>2, <2>3, <2>4, <2>5, CompletionStep
<1>7. ASSUME NEW fd \in Fds, Resend(fd) PROVE Inv'
  BY <1>7, ResendStep
<1>8. ASSUME NEW p \in toPad, PadQuery(p) \/ PadReplyAck(p) \/ LosePadBound(p)
      PROVE  Inv'
  BY <1>8, QuietStep DEF PadQuery, PadReplyAck, LosePadBound, clientVars, callVars
<1>9. ASSUME NEW r \in unacked, PadReply(r) PROVE Inv'
  BY <1>9, QuietStep DEF PadReply, clientVars, callVars
<1>10. ASSUME NEW p \in toPc, LosePcBound(p) PROVE Inv'
  BY <1>10, QuietStep DEF LosePcBound, clientVars, callVars
<1>11. CASE UNCHANGED vars
  BY <1>11, QuietStep DEF vars, clientVars, callVars
<1> QED BY <1>1, <1>2, <1>3, <1>4, <1>5, <1>6, <1>7, <1>8, <1>9, <1>10, <1>11
        DEF Next

\* The inductive invariant holds of every behaviour of the client.
THEOREM Invariance == Spec => []Inv
BY InvInit, InvStep, PTL DEF Spec

\* Timers and commands in flight always match: no command is left without the
\* timer that will end it, no timer outlives its command.
THEOREM TimersAlwaysMatch == Spec => []TimersMatch
<1>1. Inv => TimersMatch
  BY DEF Inv
<1> QED BY <1>1, Invariance, PTL

\* The callback of a query is called exactly once, when the query leaves
\* cmd_in_flight_, whatever is lost, repeated or reordered.
THEOREM CalledBackOnce == Spec => []CallbackOnce
<1>1. Inv => CallbackOnce
  BY DEF Inv
<1> QED BY <1>1, Invariance, PTL

\* A query fails exactly when it was sent kMaxRetries times without an answer.
THEOREM SendsBounded == Spec => []SendBudget
<1>1. Inv => SendBudget
  BY DEF Inv, Budget
<1> QED BY <1>1, Invariance, PTL

\* The callback of query q is due from the timer on fd, and sends are left.
TimedBy(q, fd) ==
    /\ events[fd] \in SeqIds /\ cmd[events[fd]].query = q
    /\ sent[q] = cmd[events[fd]].retries + 1 /\ sent[q] <= MaxRetries

\* Query (cmd-protocol.cpp:94-119) blocks until its callback is called.  As long
\* as it was not, its timer is registered with the event machine, over all
\* losses, acknowledgements and retries, and of its kMaxRetries sends only
\* sent[q] are spent: nothing waits for a callback that nobody owes.
THEOREM WaitersAreTimed ==
  Spec => [](\A q \in 0 .. next - 1 : calls[q] = 0 => \E fd \in Fds : TimedBy(q, fd))
<1>1. Inv => \A q \in 0 .. next - 1 : calls[q] = 0 => \E fd \in Fds : TimedBy(q, fd)
  <2> SUFFICES ASSUME Inv, NEW q \in 0 .. next - 1, calls[q] = 0
               PROVE  \E fd \in Fds : TimedBy(q, fd)
    OBVIOUS
  <2>1. q \in Queries /\ q < next
    BY SizesAssumption DEF Inv, TypeOK, Queries
  <2>2. PICK s \in SeqIds : InFlight(s) /\ cmd[s].query = q
    BY <2>1 DEF Inv, CallbackOnce
  <2>3. cmd[s].timeout_evt \in Fds /\ events[cmd[s].timeout_evt] = s
    BY <2>2 DEF Inv, TimersMatch
  <2>4. sent[q] = cmd[s].retries + 1 /\ sent[q] <= MaxRetries
    BY <2>1, <2>2 DEF Inv, Budget, SendBudget
  <2> QED BY <2>2, <2>3, <2>4 DEF TimedBy
<1> QED BY <1>1, Invariance, PTL

-----------------------------------------------------------------------------
(* Without wrap-around of the ids: query n travels under id n, so a reply  *)
(* can only meet the command it belongs to.                                *)

NoWrap == NumQueries <= SeqIdMod

NetInv ==
    /\ next < NumQueries => seqid = next
    /\ \A s \in SeqIds : InFlight(s) => cmd[s].query = s
    /\ \A p \in toPad : p.type = "kQuery" => p.body = p.seqid /\ p.body < next
    /\ \A p \in toPc \cup unacked :
         p.type = "kReply" => p.body = p.seqid /\ p.body \in executed
    /\ AnswersMatch
    /\ NoAssertFails

\* NetInv holds of a freshly constructed client.
LEMMA NetInit == ASSUME Init PROVE NetInv
BY DEF Init, NetInv, InFlight, NoState, AnswersMatch, NoAssertFails

\* Until the ids wrap round, seqid_++ is an increment.
LEMMA NoWrapIncrement ==
    ASSUME NoWrap, NEW n \in Nat, n + 1 < NumQueries
    PROVE  NextSeqId(n) = n + 1
BY SizesAssumption, SMT DEF NoWrap, NextSeqId

\* A step of the GamePad or of the network, or one that sends no more than
\* acknowledgements and keeps the commands.
LEMMA NetQuietStep ==
    ASSUME NetInv,
           UNCHANGED <<next, seqid, cmd, outcome, answer, crashed>>,
           executed \subseteq executed',
           \A p \in toPad' : p \in toPad \/ p.type # "kQuery",
           \A p \in toPc' \cup unacked' :
             \/ p \in toPc \cup unacked
             \/ p.type # "kReply"
             \/ p.body = p.seqid /\ p.body \in executed'
    PROVE  NetInv'
<1>1. /\ (next < NumQueries => seqid = next)'
      /\ (\A s \in SeqIds : InFlight(s) => cmd[s].query = s)'
  BY DEF NetInv, InFlight
<1>2. (\A p \in toPad : p.type = "kQuery" => p.body = p.seqid /\ p.body < next)'
  BY DEF NetInv
<1>3. (\A p \in toPc \cup unacked :
         p.type = "kReply" => p.body = p.seqid /\ p.body \in executed)'
  BY DEF NetInv
<1>4. AnswersMatch' /\ NoAssertFails'
  BY DEF NetInv, AnswersMatch, NoAssertFails
<1> QED BY <1>1, <1>2, <1>3, <1>4 DEF NetInv

\* NetInv is inductive relative to Inv.
LEMMA NetStep == ASSUME NoWrap, Inv, NetInv, [Next]_vars PROVE NetInv'
<1>1. CASE Start \/ StopEM \/ StopUdp
  BY <1>1, NetQuietStep DEF Start, StopEM, StopUdp, padVars, callVars
<1>2. CASE AsyncQueryAborts
  <2>1. InFlight(seqid) /\ seqid \in SeqIds /\ next < NumQueries
    BY <1>2 DEF AsyncQueryAborts, InFlight, Inv, TypeOK
  <2>2. seqid = next /\ cmd[seqid].query = seqid /\ cmd[seqid].query < next
    BY <2>1 DEF NetInv, Inv, Owner
  <2> QED BY <2>2 DEF Inv, TypeOK
<1>3. CASE AsyncQuery
  <2> DEFINE c == [NoState EXCEPT !.query = next]
  <2>1. PICK fd \in FreeFds : SendQuery(seqid, c, events, fd)
    BY <1>3 DEF AsyncQuery
  <2>2. seqid \in SeqIds /\ seqid = next /\ next' = next + 1 /\ next \in Nat
    BY <1>3, SizesAssumption DEF AsyncQuery, Inv, TypeOK, NetInv
  <2>3. cmd' = [cmd EXCEPT ![seqid] =
                  [c EXCEPT !.timeout_evt = fd, !.state = "kQueryAck"]]
    BY <2>1 DEF SendQuery
  <2>4. cmd'[seqid].query = next /\ \A t \in SeqIds : t # seqid => cmd'[t] = cmd[t]
    BY <2>2, <2>3 DEF NoState, Inv, TypeOK
  <2>5. (\A s \in SeqIds : InFlight(s) => cmd[s].query = s)'
    BY <2>2, <2>4 DEF NetInv, InFlight
  <2>6. toPad' \subseteq toPad \cup {QueryPkt(seqid, next)}
    BY <2>1 DEF SendQuery, NoState
  <2>7. (\A p \in toPad : p.type = "kQuery" => p.body = p.seqid /\ p.body < next)'
    BY <2>2, <2>6 DEF NetInv, QueryPkt, Inv, TypeOK, PadBound, Queries
  <2>8. (next < NumQueries => seqid = next)'
    BY <1>3, <2>2, NoWrapIncrement DEF AsyncQuery
  <2>9. UNCHANGED <<toPc, unacked, executed, outcome, answer, crashed>>
    BY <1>3 DEF AsyncQuery, padVars, callVars
  <2> QED BY <2>5, <2>7, <2>8, <2>9 DEF NetInv, AnswersMatch, NoAssertFails
<1>4. ASSUME NEW p \in toPc, PacketIgnored(p) PROVE NetInv'
  BY <1>4, NetQuietStep DEF PacketIgnored, AckIfReply, ReplyAckPkt,
                            clientVars, padVars, callVars
<1>5. ASSUME NEW p \in toPc, QueryAckReceived(p) PROVE NetInv'
  <2>1. p.seqid \in SeqIds /\ InFlight(p.seqid)
    BY <1>5 DEF Inv, TypeOK, PcBound, QueryAckReceived, Expected, InFlight
  <2>2. \A t \in SeqIds : /\ InFlight(t)' <=> InFlight(t)
                          /\ cmd'[t].query = cmd[t].query
    BY <1>5, <2>1 DEF QueryAckReceived, InFlight, Inv, TypeOK, CmdState
  <2>3. (\A s \in SeqIds : InFlight(s) => cmd[s].query = s)'
    BY <2>2 DEF NetInv
  <2>4. UNCHANGED <<next, seqid, toPad, toPc, unacked, executed, outcome,
                    answer, crashed>>
    BY <1>5 DEF QueryAckReceived, padVars, callVars
  <2> QED BY <2>3, <2>4 DEF NetInv, AnswersMatch, NoAssertFails
<1>6. ASSUME NEW p \in toPc, ReplyReceived(p) PROVE NetInv'
  <2>1. /\ p.seqid \in SeqIds /\ p.body \in Queries
        /\ InFlight(p.seqid) /\ p.type = "kReply"
    BY <1>6 DEF Inv, TypeOK, PcBound, ReplyReceived, Expected, InFlight
  <2>2. cmd[p.seqid].query = p.seqid /\ p.body = p.seqid /\ p.body \in executed
    BY <2>1 DEF NetInv
  <2>3. ~crashed'
    <3>1. /\ cmd[p.seqid].timeout_evt \in Fds
          /\ events[cmd[p.seqid].timeout_evt] # NULL
      BY <2>1, NullAssumption DEF Inv, TimersMatch, SeqIds
    <3> QED BY <1>6, <3>1 DEF ReplyReceived, CancelEvent
  <2>4. UNCHANGED <<next, seqid, toPc, unacked, executed>>
    BY <1>6 DEF ReplyReceived, padVars
  <2>5. (\A s \in SeqIds : InFlight(s) => cmd[s].query = s)'
    BY <1>6 DEF ReplyReceived, RemoveState, NoState, InFlight, NetInv, Inv, TypeOK
  <2>6. (\A r \in toPad : r.type = "kQuery" => r.body = r.seqid /\ r.body < next)'
    BY <1>6 DEF ReplyReceived, AckIfReply, ReplyAckPkt, NetInv
  <2>7. AnswersMatch'
    <3>1. Callback(p.body, "ok", {p.body})
      BY <1>6, <2>2 DEF ReplyReceived
    <3>2. \A q \in Queries : q # p.body =>
            answer'[q] = answer[q] /\ outcome'[q] = outcome[q]
      BY <3>1 DEF Callback, Inv, TypeOK
    <3>3. answer'[p.body] = answer[p.body] \cup {p.body}
      BY <3>1, <2>1 DEF Callback, Inv, TypeOK
    <3> QED BY <3>2, <3>3, <2>1, <2>2, <2>4 DEF NetInv, AnswersMatch
  <2> QED BY <2>3, <2>4, <2>5, <2>6, <2>7 DEF NetInv, NoAssertFails
<1>7. ASSUME NEW fd \in Fds, GiveUp(fd) PROVE NetInv'
  <2> DEFINE s == events[fd]
             q == cmd[s].query
  <2>1. s \in SeqIds /\ InFlight(s)
    BY <1>7 DEF GiveUp, Inv, TypeOK, TimersMatch
  <2>2. ~crashed'
    BY <1>7, <2>1 DEF GiveUp, InFlight
  <2>3. UNCHANGED <<next, seqid, toPad, toPc, unacked, executed>>
    BY <1>7 DEF GiveUp, padVars
  <2>4. (\A t \in SeqIds : InFlight(t) => cmd[t].query = t)'
    BY <1>7 DEF GiveUp, RemoveState, NoState, InFlight, NetInv, Inv, TypeOK
  <2>5. AnswersMatch'
    <3>1. Callback(q, "failed", {})
      BY <1>7 DEF GiveUp
    <3> HIDE DEF q
    <3>2. \A r \in Queries : answer'[r] = answer[r]
      BY <3>1 DEF Callback, Inv, TypeOK
    <3>3. \A r \in Queries : outcome'[r] = "ok" => outcome[r] = "ok"
      BY <3>1 DEF Callback, Inv, TypeOK
    <3> QED BY <3>2, <3>3, <2>3 DEF NetInv, AnswersMatch
  <2> QED BY <2>2, <2>3, <2>4, <2>5 DEF NetInv, NoAssertFails
<1>8. ASSUME NEW fd \in Fds, Resend(fd) PROVE NetInv'
  <2> DEFINE s == events[fd]
             c == [cmd[s] EXCEPT !.retries = @ + 1]
  <2>1. PICK new \in FreeFds : SendQuery(s, c, [events EXCEPT ![fd] = NULL], new)
    BY <1>8 DEF Resend
  <2>2. s \in SeqIds /\ InFlight(s) /\ cmd[s] \in CmdState
    BY <1>8 DEF Resend, Inv, TypeOK, TimersMatch
  <2>3. ~crashed'
    BY <1>8, <2>2 DEF Resend, InFlight
  <2>4. c.query = cmd[s].query /\ cmd[s].query = s
    BY <2>2 DEF CmdState, NetInv
  <2>5. cmd'[s].query = cmd[s].query /\ \A t \in SeqIds : t # s => cmd'[t] = cmd[t]
    BY <2>1, <2>2 DEF SendQuery, CmdState, Inv, TypeOK
  <2>6. (\A t \in SeqIds : InFlight(t) => cmd[t].query = t)'
    BY <2>4, <2>5 DEF NetInv, InFlight
  <2>7. toPad' \subseteq toPad \cup {QueryPkt(s, s)}
    BY <2>1, <2>4 DEF SendQuery
  <2>8. (\A p \in toPad : p.type = "kQuery" => p.body = p.seqid /\ p.body < next)'
    <3>1. s < next /\ next' = next
      BY <1>8, <2>2, <2>4 DEF Inv, Owner, Resend
    <3> QED BY <2>7, <3>1 DEF NetInv, QueryPkt
  <2>9. UNCHANGED <<next, seqid, toPc, unacked, executed, outcome, answer>>
    BY <1>8 DEF Resend, padVars, callVars
  <2> QED BY <2>3, <2>6, <2>8, <2>9 DEF NetInv, AnswersMatch, NoAssertFails
<1>9. ASSUME NEW p \in toPad, PadQuery(p) PROVE NetInv'
  <2>1. p.body = p.seqid
    BY <1>9 DEF PadQuery, NetInv
  <2>2. UNCHANGED <<next, seqid, cmd, outcome, answer, crashed, toPad>>
    BY <1>9 DEF PadQuery, clientVars, callVars
  <2>3. executed \subseteq executed'
    BY <1>9 DEF PadQuery
  <2>4. \A r \in toPc' \cup unacked' :
          \/ r \in toPc \cup unacked
          \/ r.type # "kReply"
          \/ r.body = r.seqid /\ r.body \in executed'
    BY <1>9, <2>1 DEF PadQuery, ReplyPkt, QueryAckPkt
  <2> QED BY <2>2, <2>3, <2>4, NetQuietStep
<1>10. ASSUME NEW p \in toPad, PadReplyAck(p) \/ LosePadBound(p) PROVE NetInv'
  <2>1. UNCHANGED <<next, seqid, cmd, outcome, answer, crashed, executed, toPc>>
    BY <1>10 DEF PadReplyAck, LosePadBound, clientVars, padVars, callVars
  <2>2. toPad' \subseteq toPad /\ unacked' \subseteq unacked
    BY <1>10 DEF PadReplyAck, LosePadBound, padVars
  <2> QED BY <2>1, <2>2, NetQuietStep
<1>11. ASSUME NEW r \in unacked, PadReply(r) PROVE NetInv'
  BY <1>11, NetQuietStep DEF PadReply, clientVars, padVars, callVars
<1>12. ASSUME NEW p \in toPc, LosePcBound(p) PROVE NetInv'
  BY <1>12, NetQuietStep DEF LosePcBound, clientVars, padVars, callVars
<1>13. CASE UNCHANGED vars
  BY <1>13, NetQuietStep DEF vars, clientVars, padVars, callVars
<1> QED BY <1>1, <1>2, <1>3, <1>4, <1>5, <1>6, <1>7, <1>8, <1>9, <1>10, <1>11,
           <1>12, <1>13 DEF Next

\* As long as sequence ids do not wrap round, a callback only gets the reply
\* to its own query and reports success only if the GamePad carried it out.
THEOREM AnswersAlwaysMatch == ASSUME NoWrap PROVE Spec => []AnswersMatch
<1>1. NetInv => AnswersMatch
  BY DEF NetInv
<1> QED BY <1>1, NetInit, NetStep, Invariance, PTL DEF Spec

\* ... and no assert of the command client fails when its handlers run one at
\* a time: CancelEvent finds its event, RetryOperation its command, AsyncQuery
\* a free id.
THEOREM AssertsHold == ASSUME NoWrap PROVE Spec => []NoAssertFails
<1>1. NetInv => NoAssertFails
  BY DEF NetInv
<1> QED BY <1>1, NetInit, NetStep, Invariance, PTL DEF Spec

-----------------------------------------------------------------------------
(* The steps of the client, seen through Status, are steps of QueryService *)
(* or change nothing that it speaks of.  While ids do not wrap round the   *)
(* client never crashes, so that serving only changes with Start and Stop. *)

Refines == Inv /\ NetInv

\* Nothing that QueryService speaks of has changed.
LEMMA StutterStep ==
    ASSUME UNCHANGED <<next, outcome, executed, phase, crashed>>
    PROVE  UNCHANGED QS!svars
BY DEF QS!svars, Status

\* The outcome of a query in flight becomes known.
LEMMA OutcomeStep ==
    ASSUME Inv, NEW q \in Queries, q < next, outcome[q] = "none",
           NEW result \in {"ok", "failed"}, outcome' = [outcome EXCEPT ![q] = result],
           next' = next
    PROVE  Status[q] = "pending" /\ Status' = [Status EXCEPT ![q] = result]
<1>1. \A r \in Queries : r \in Int /\ next \in Int
  BY DEF Queries, Inv, TypeOK
<1>2. outcome'[q] = result /\ \A r \in Queries : r # q => outcome'[r] = outcome[r]
  BY DEF Inv, TypeOK
<1>3. Status[q] = "pending"
  BY <1>1 DEF Status
<1>4. \A r \in Queries : Status'[r] = IF r = q THEN result ELSE Status[r]
  BY <1>1, <1>2 DEF Status
<1>5. /\ Status = [r \in Queries |-> Status[r]]
      /\ Status' = [r \in Queries |-> Status'[r]]
  BY DEF Status
<1> QED BY <1>3, <1>4, <1>5

\* Every step of the client is one of QueryService, or a stutter.
LEMMA SimulationStep ==
    ASSUME NoWrap, Refines, [Next]_vars, NetInv'
    PROVE  [QS!SNext]_(QS!svars)
<1> USE DEF Refines
<1>0. crashed = FALSE /\ crashed' = FALSE
  BY TypeStep, Zenon DEF NetInv, NoAssertFails, Inv, TypeOK
<1>1. CASE Start \/ StopEM
  <2>1. UNCHANGED <<next, outcome, executed>> /\ (phase' = "up" <=> ~(phase = "up"))
    BY <1>1 DEF Start, StopEM, padVars, callVars
  <2>2. QS!StartOrStop
    BY <1>0, <2>1 DEF QS!StartOrStop, Status
  <2> QED BY <2>2 DEF QS!SNext
<1>2. CASE StopUdp
  BY <1>0, <1>2 DEF StopUdp, padVars, callVars, QS!svars, Status
<1>3. CASE AsyncQuery
  <2>1. next \in Queries /\ next' = next + 1 /\ UNCHANGED <<outcome, executed, phase, crashed>>
    BY <1>3, SizesAssumption DEF AsyncQuery, Inv, TypeOK, Queries, padVars, callVars
  <2>2. outcome[next] = "none"
    BY <2>1 DEF Inv, Budget, Queries
  <2>3. Status[next] = "idle"
    BY <2>1 DEF Status, Queries
  <2>4. \A r \in Queries : Status'[r] = IF r = next THEN "pending" ELSE Status[r]
    BY <2>1, <2>2 DEF Status, Queries
  <2>5. /\ Status = [r \in Queries |-> Status[r]]
        /\ Status' = [r \in Queries |-> Status'[r]]
    BY DEF Status
  <2>6. Status' = [Status EXCEPT ![next] = "pending"]
    BY <2>4, <2>5
  <2>7. QS!Issue(next)
    BY <2>1, <2>3, <2>6 DEF QS!Issue
  <2> QED BY <2>1, <2>7 DEF QS!SNext, QS!Queries, Queries
<1>4. CASE AsyncQueryAborts
  BY <1>0, <1>4 DEF AsyncQueryAborts
<1>5. ASSUME NEW p \in toPc, PacketIgnored(p) \/ QueryAckReceived(p) \/ LosePcBound(p)
      PROVE  UNCHANGED QS!svars
  BY <1>5, StutterStep
     DEF PacketIgnored, QueryAckReceived, LosePcBound, clientVars, padVars, callVars
<1>6. ASSUME NEW p \in toPc, ReplyReceived(p) PROVE QS!SNext
  <2>1. /\ p.seqid \in SeqIds /\ p.body \in Queries
        /\ InFlight(p.seqid) /\ p.type = "kReply"
    BY <1>6 DEF Inv, TypeOK, PcBound, ReplyReceived, Expected, InFlight
  <2>2. cmd[p.seqid].query = p.body /\ p.body \in executed
    BY <2>1 DEF NetInv
  <2>3. p.body < next /\ outcome[p.body] = "none"
    BY <2>1, <2>2 DEF Inv, Owner, Budget
  <2>4. outcome' = [outcome EXCEPT ![p.body] = "ok"] /\ UNCHANGED <<next, executed, phase>>
    BY <1>6, <2>2 DEF ReplyReceived, Callback, padVars
  <2>5. Status[p.body] = "pending" /\ Status' = [Status EXCEPT ![p.body] = "ok"]
    BY <2>1, <2>3, <2>4, OutcomeStep
  <2>6. QS!Succeed(p.body)
    BY <1>0, <2>2, <2>4, <2>5 DEF QS!Succeed
  <2> QED BY <2>1, <2>6 DEF QS!SNext, QS!Queries, Queries
<1>7. ASSUME NEW fd \in Fds, GiveUp(fd) PROVE QS!SNext
  <2> DEFINE q == cmd[events[fd]].query
  <2>1. events[fd] \in SeqIds /\ InFlight(events[fd]) /\ q \in Queries
    BY <1>7 DEF GiveUp, Inv, TypeOK, TimersMatch, CmdState
  <2>2. q < next /\ outcome[q] = "none"
    BY <2>1 DEF Inv, Owner, Budget
  <2>3. /\ outcome' = [outcome EXCEPT ![q] = "failed"]
        /\ phase = "up" /\ UNCHANGED <<next, executed, phase>>
    BY <1>7 DEF GiveUp, Callback, padVars
  <2> HIDE DEF q
  <2>4. Status[q] = "pending" /\ Status' = [Status EXCEPT ![q] = "failed"]
    BY <2>1, <2>2, <2>3, OutcomeStep
  <2>5. QS!Fail(q)
    BY <1>0, <2>3, <2>4 DEF QS!Fail
  <2> QED BY <2>1, <2>5 DEF QS!SNext, QS!Queries, Queries
<1>8. ASSUME NEW fd \in Fds, Resend(fd) PROVE UNCHANGED QS!svars
  <2>1. UNCHANGED <<next, outcome, executed, phase>>
    BY <1>8 DEF Resend, padVars, callVars
  <2> QED BY <1>0, <2>1, StutterStep
<1>9. ASSUME NEW p \in toPad, PadQuery(p) PROVE QS!SNext
  <2>1. p.body \in Queries /\ p.body < next
    BY <1>9 DEF PadQuery, Inv, TypeOK, PadBound, NetInv
  <2>2. executed' = executed \cup {p.body} /\ UNCHANGED <<next, outcome, phase>>
    BY <1>9 DEF PadQuery, clientVars, callVars
  <2>3. Status[p.body] # "idle" /\ UNCHANGED Status
    BY <2>1, <2>2 DEF Status, Inv, TypeOK, Queries
  <2>4. QS!Execute(p.body)
    BY <1>0, <2>2, <2>3 DEF QS!Execute
  <2> QED BY <2>1, <2>4 DEF QS!SNext, QS!Queries, Queries
<1>10. ASSUME NEW p \in toPad, PadReplyAck(p) \/ LosePadBound(p) PROVE UNCHANGED QS!svars
  BY <1>10, StutterStep DEF PadReplyAck, LosePadBound, clientVars, padVars, callVars
<1>11. ASSUME NEW r \in unacked, PadReply(r) PROVE UNCHANGED QS!svars
  BY <1>11, StutterStep DEF PadReply, clientVars, padVars, callVars
<1>12. CASE UNCHANGED vars
  BY <1>12, StutterStep DEF vars, clientVars, padVars, callVars
<1> QED BY <1>1, <1>2, <1>3, <1>4, <1>5, <1>6, <1>7, <1>8, <1>9, <1>10, <1>11, <1>12
        DEF Next

\* The safety half of ImplementsQueryService: as long as sequence ids do not
\* wrap round, a query is issued, carried out and completed only as
\* QueryService allows, whatever is lost, repeated, reordered or late.
THEOREM ImplementsQueryServiceSafely ==
    ASSUME NoWrap
    PROVE  Spec => QS!SInit /\ [][QS!SNext]_(QS!svars)
<1>1. Init => QS!SInit
  <2> SUFFICES ASSUME Init PROVE QS!SInit
    OBVIOUS
  <2>1. Status = [q \in QS!Queries |-> "idle"]
    BY DEF Init, Status, Queries, QS!Queries
  <2> QED BY <2>1 DEF Init, QS!SInit
<1>2. Refines /\ [Next]_vars /\ Refines' => [QS!SNext]_(QS!svars)
  BY NoWrap, SimulationStep DEF Refines
<1>3. Spec => []Refines
  <2>1. Inv /\ NetInv => Refines
    BY DEF Refines
  <2> QED BY <2>1, NetInit, NetStep, Invariance, PTL DEF Spec
<1> QED BY <1>1, <1>2, <1>3, PTL DEF Spec
=============================================================================
