-------------------------- MODULE CmdThreadsProofs --------------------------
(***************************************************************************)
(* Theorems about CmdThreads, for any number of calling threads, any retry *)
(* limit and any set of descriptors.                                       *)
(***************************************************************************)
EXTENDS CmdThreads, FiniteSetTheorems, TLAPS

\* The ids that AsyncQuery is done with filling in.
Handed(s) == s \in 0 .. seqid - 1 /\ \A c \in Callers : pc[c] = "fill" => sid[c] # s

\* The functions of the state have their domains.
Shape ==
    /\ DOMAIN pc = Threads /\ DOMAIN sid = Threads
    /\ DOMAIN made = Threads /\ DOMAIN fdv = Threads
    /\ DOMAIN cmd = SeqIds /\ DOMAIN calls = SeqIds
    /\ \A s \in SeqIds : DOMAIN cmd[s] = {"state", "cb", "timeout_evt", "retries"}

\* Each caller takes one id, so that there is an entry for every id.
Unstarted == {c \in Callers : pc[c] = "start"}
IdsLeft ==
    /\ seqid \in Nat
    /\ seqid + Cardinality(Unstarted) <= Cardinality(Callers)
    /\ \A c \in Callers : pc[c] = "fill" => sid[c] \in 0 .. seqid - 1
    /\ \A c, d \in Callers : pc[c] = "fill" /\ pc[d] = "fill" /\ c # d => sid[c] # sid[d]

\* Where a thread works on a command through its id.
HoldsId == {"timer", "publish", "expect", "send", "find", "check", "acked", "cancel",
            "cancelfind", "nullevt", "call", "remove", "retry", "count", "giveup",
            "emremove"}

\* An id is known to another thread, or to a timer, or on the wire, only after
\* its entry was filled in.
KnownAreHanded ==
    /\ \A t \in Threads : pc[t] \in HoldsId => Handed(sid[t])
    /\ \A fd \in Fds : events[fd] # NULL => Handed(events[fd].seqid)
    /\ pc["em"] = "lookup" => fdv["em"] \in Fds
    /\ pc["em"] = "enter" => Handed(ev.seqid)
    /\ \A s \in sentIds : Handed(s)

FilledIn == \A s \in SeqIds : Handed(s) /\ cmd[s].state # "none" => cmd[s].cb = TRUE

ThreadsInv == Shape /\ IdsLeft /\ KnownAreHanded /\ FilledIn

LEMMA CallersFinite == IsFiniteSet(Callers) /\ Cardinality(Callers) \in Nat
BY ThreadsAssumption, FS_CardinalityType

LEMMA UnstartedFinite == IsFiniteSet(Unstarted) /\ Cardinality(Unstarted) \in Nat
<1>1. Unstarted \subseteq Callers
  BY DEF Unstarted
<1> QED BY <1>1, CallersFinite, FS_Subset, FS_CardinalityType

LEMMA ThreadsInit == ASSUME Init PROVE ThreadsInv
<1> USE CallersFinite
<1>1. Shape
  BY DEF Init, NoState, Shape
<1>2. \A t \in Threads : pc[t] \in {"idle", "wait", "start"}
  BY DEF Init
<1>3. IdsLeft
  <2>1. Unstarted \subseteq Callers
    BY DEF Unstarted
  <2>2. Cardinality(Unstarted) <= Cardinality(Callers)
    BY <2>1, FS_Subset
  <2> QED BY <1>2, <2>2, UnstartedFinite DEF IdsLeft, Init, Threads
<1>4. KnownAreHanded
  BY <1>2 DEF KnownAreHanded, HoldsId, Init, Threads
<1>5. FilledIn
  BY DEF FilledIn, Init, NoState
<1> QED BY <1>1, <1>3, <1>4, <1>5 DEF ThreadsInv

\* A thread goes from one label to another, neither of them in AsyncQuery's
\* filling in; it may take up another id.
Moves(t, label) ==
    /\ t \in Threads /\ pc[t] \notin {"start", "fill"} /\ label \notin {"start", "fill"}
    /\ Goto(t, label)
    /\ seqid' = seqid
    /\ sid' = sid \/ \E s : sid' = [sid EXCEPT ![t] = s]

LEMMA MovesKeep ==
  ASSUME Shape, IdsLeft, NEW t, NEW label, Moves(t, label)
  PROVE  IdsLeft' /\ \A s : Handed(s)' <=> Handed(s)
<1>1. pc' = [pc EXCEPT ![t] = label] /\ t \in DOMAIN pc
  BY DEF Moves, Goto, Shape
<1>2. \A d : d # t => sid'[d] = sid[d] \/ d \notin DOMAIN sid
  BY DEF Moves
<1>3. \A c \in Callers : c \in DOMAIN sid /\ c \in DOMAIN pc
  BY DEF Shape, Threads
<1>4. \A c \in Callers : /\ (pc'[c] = "start" <=> pc[c] = "start")
                         /\ (pc'[c] = "fill" <=> pc[c] = "fill")
                         /\ pc[c] = "fill" => sid'[c] = sid[c]
  BY <1>1, <1>2, <1>3 DEF Moves
<1>5. Unstarted' = Unstarted
  BY <1>4 DEF Unstarted
<1>6. seqid' = seqid
  BY DEF Moves
<1> QED BY <1>4, <1>5, <1>6 DEF IdsLeft, Handed

\* What a step does to the commands in flight, when it starts none.
Follows ==
    /\ DOMAIN cmd' = SeqIds
    /\ \A s \in SeqIds :
        /\ DOMAIN cmd'[s] = {"state", "cb", "timeout_evt", "retries"}
        /\ cmd'[s].state # "none" => cmd[s].state # "none" /\ cmd'[s].cb = cmd[s].cb

\* A step of a thread that goes on with the same id, and adds no timer.
Continues(t, label) ==
    /\ Moves(t, label) /\ Follows
    /\ (label \in HoldsId => pc[t] \in HoldsId) /\ label \notin {"lookup", "enter"}
    /\ UNCHANGED <<sid, ev, made>>
    /\ t # "em" => fdv'["em"] = fdv["em"]
    /\ DOMAIN fdv' = DOMAIN fdv /\ DOMAIN calls' = DOMAIN calls
    /\ \A fd \in Fds : events'[fd] \in {events[fd], NULL}
    /\ sentIds' \subseteq sentIds \cup {s \in {sid[t]} : pc[t] \in HoldsId}

LEMMA FollowsKeeps ==
  ASSUME FilledIn, Follows, \A s : Handed(s)' <=> Handed(s)
  PROVE  FilledIn'
BY DEF FilledIn, Follows

LEMMA ContinuesKeeps ==
  ASSUME ThreadsInv, NEW t, NEW label, Continues(t, label)
  PROVE  ThreadsInv'
<1>1. IdsLeft' /\ \A s : Handed(s)' <=> Handed(s)
  BY MovesKeep DEF ThreadsInv, Continues
<1>2. FilledIn'
  BY <1>1, FollowsKeeps DEF ThreadsInv, Continues
<1>3. pc' = [pc EXCEPT ![t] = label] /\ t \in Threads /\ DOMAIN pc = Threads
  BY DEF ThreadsInv, Continues, Moves, Goto, Shape
<1>4. Shape'
  BY <1>3 DEF ThreadsInv, Shape, Continues, Follows
<1>5. KnownAreHanded'
  <2>1. \A u \in Threads : pc'[u] \in HoldsId => Handed(sid[u])
    BY <1>3 DEF ThreadsInv, KnownAreHanded, Continues
  <2>2. \A fd \in Fds : events'[fd] # NULL => Handed(events'[fd].seqid)
    BY DEF ThreadsInv, KnownAreHanded, Continues
  <2>3. /\ pc'["em"] = "lookup" => pc["em"] = "lookup" /\ t # "em"
        /\ pc'["em"] = "enter" => pc["em"] = "enter"
    BY <1>3 DEF Continues, Threads
  <2>4. \A s \in sentIds' : Handed(s)
    BY <1>3 DEF ThreadsInv, KnownAreHanded, Continues
  <2> QED BY <1>1, <2>1, <2>2, <2>3, <2>4 DEF ThreadsInv, KnownAreHanded, Continues
<1> QED BY <1>1, <1>2, <1>4, <1>5 DEF ThreadsInv

\* SendQuery for a command whose entry is still there.
LEMMA SendQueryKeeps ==
  ASSUME ThreadsInv, NEW t \in Callers \cup {"em"}, SendQuery(t)
  PROVE  ThreadsInv'
<1>0. t \in Threads /\ DOMAIN cmd = SeqIds
      /\ \A s \in SeqIds : DOMAIN cmd[s] = {"state", "cb", "timeout_evt", "retries"}
  BY DEF Threads, ThreadsInv, Shape
<1>1. CASE Publish(t)
  <2>1. Follows
    BY <1>0, <1>1 DEF Follows, Publish
  <2>2. Continues(t, "expect")
    BY <1>0, <1>1, <2>1 DEF Continues, Moves, HoldsId, Publish, Safely, At, allButCmd
  <2> QED BY <2>2, ContinuesKeeps
<1>2. CASE Expect(t)
  <2>1. cmd[sid[t]].state # "none"
    BY <1>2 DEF Expect, Safely, At, Dangles, InFlight
  <2>2. Follows
    BY <1>0, <1>2, <2>1 DEF Follows, Expect
  <2>3. Continues(t, "send")
    BY <1>0, <1>2, <2>2 DEF Continues, Moves, HoldsId, Expect, Safely, At, allButCmd
  <2> QED BY <2>3, ContinuesKeeps
<1>3. CASE Send(t)
  <2>1. Follows
    BY <1>0, <1>3 DEF Follows, Send, shared
  <2>2. PICK label \in {"erase", "done"} : Goto(t, label)
    BY <1>3 DEF Send
  <2>3. Continues(t, label)
    BY <1>0, <1>3, <2>1, <2>2 DEF Continues, Moves, HoldsId, Send, At, shared
  <2> QED BY <2>3, ContinuesKeeps
<1>4. CASE NewTimer(t)
  <2>1. Moves(t, "publish") /\ pc[t] \in HoldsId
    BY <1>0, <1>4 DEF Moves, HoldsId, NewTimer, Safely, At
  <2>2. IdsLeft' /\ \A s : Handed(s)' <=> Handed(s)
    BY <2>1, MovesKeep DEF ThreadsInv
  <2>3. UNCHANGED <<cmd, sid, ev, fdv, sentIds, calls>>
    BY <1>4 DEF NewTimer
  <2>4. FilledIn'
    BY <2>2, <2>3 DEF ThreadsInv, FilledIn
  <2>5. pc' = [pc EXCEPT ![t] = "publish"] /\ t \in DOMAIN pc /\ t \in DOMAIN made
    BY <1>0, <2>1 DEF ThreadsInv, Moves, Goto, Shape
  <2>6. made'[t].seqid = sid[t] /\ DOMAIN made' = DOMAIN made
    BY <1>4, <2>5 DEF NewTimer
  <2>7. Shape'
    BY <2>3, <2>5, <2>6 DEF ThreadsInv, Shape
  <2>8. Handed(sid[t])
    BY <1>0, <2>1 DEF ThreadsInv, KnownAreHanded
  <2>9. \A fd \in Fds : events'[fd] = events[fd] \/ events'[fd] = made'[t]
    BY <1>4 DEF NewTimer
  <2>10. KnownAreHanded'
    <3>1. \A u \in Threads : pc'[u] \in HoldsId => pc[u] \in HoldsId
      BY <2>1, <2>5
    <3>2. /\ pc'["em"] = "lookup" => pc["em"] = "lookup"
          /\ pc'["em"] = "enter" => pc["em"] = "enter"
      BY <2>5
    <3>3. \A fd \in Fds : events'[fd] # NULL => Handed(events'[fd].seqid)
      BY <2>6, <2>8, <2>9 DEF ThreadsInv, KnownAreHanded
    <3> QED BY <2>2, <2>3, <3>1, <3>2, <3>3 DEF ThreadsInv, KnownAreHanded
  <2> QED BY <2>2, <2>4, <2>7, <2>10 DEF ThreadsInv
<1> QED BY <1>1, <1>2, <1>3, <1>4 DEF SendQuery

\* AsyncQuery takes the next id and, in a second step, fills in its entry.
LEMMA AsyncQueryKeeps ==
  ASSUME ThreadsInv, NEW c \in Callers, Insert(c) \/ Fill(c)
  PROVE  ThreadsInv'
<1>0. /\ c \in Threads /\ c \in DOMAIN pc /\ c \in DOMAIN sid /\ DOMAIN cmd = SeqIds
      /\ \A s \in SeqIds : DOMAIN cmd[s] = {"state", "cb", "timeout_evt", "retries"}
      /\ \A d \in Callers : d \in DOMAIN pc /\ d \in DOMAIN sid
  BY DEF Threads, ThreadsInv, Shape
<1>1. CASE Insert(c)
  <2>1. /\ pc[c] = "start" /\ pc' = [pc EXCEPT ![c] = "fill"]
        /\ sid' = [sid EXCEPT ![c] = seqid] /\ seqid' = seqid + 1
        /\ cmd' = [cmd EXCEPT ![seqid] = [NoState EXCEPT !.state = "kQuery"]]
        /\ UNCHANGED <<events, ev, made, fdv, sentIds, calls>>
    BY <1>1 DEF Insert, At, Goto
  <2>2. Unstarted' = Unstarted \ {c} /\ c \in Unstarted
    BY <1>0, <2>1 DEF Unstarted
  <2>3. Cardinality(Unstarted') = Cardinality(Unstarted) - 1
    BY <2>2, UnstartedFinite, FS_RemoveElement
  <2>4. Cardinality(Unstarted) \in Nat /\ Cardinality(Unstarted') \in Nat
    <3>1. IsFiniteSet(Unstarted')
      BY <2>2, UnstartedFinite, FS_RemoveElement
    <3> QED BY <3>1, UnstartedFinite, FS_CardinalityType
  <2>5. seqid \in SeqIds /\ seqid \in Nat
    BY <2>3, <2>4, CallersFinite DEF ThreadsInv, IdsLeft, SeqIds
  <2>6. IdsLeft'
    <3>1. \A d \in Callers : pc'[d] = "fill" => sid'[d] \in 0 .. seqid
                                /\ (d = c \/ (sid'[d] = sid[d] /\ sid[d] # seqid /\ pc[d] = "fill"))
      BY <1>0, <2>1, <2>5 DEF ThreadsInv, IdsLeft
    <3>2. \A d, e \in Callers :
             pc'[d] = "fill" /\ pc'[e] = "fill" /\ d # e => sid'[d] # sid'[e]
      BY <1>0, <2>1, <3>1 DEF ThreadsInv, IdsLeft
    <3> QED BY <2>1, <2>3, <2>4, <2>5, <3>1, <3>2, CallersFinite DEF ThreadsInv, IdsLeft
  <2>7. \A s : Handed(s)' <=> Handed(s)
    <3>1. \A s : s \in 0 .. seqid' - 1 <=> s \in 0 .. seqid - 1 \/ s = seqid
      BY <2>1, <2>5
    <3>2. ASSUME NEW s, s = seqid PROVE ~Handed(s)' /\ ~Handed(s)
      BY <1>0, <2>1, <2>5, <3>2 DEF Handed
    <3>3. ASSUME NEW s, s # seqid PROVE Handed(s)' <=> Handed(s)
      <4>1. \A d \in Callers : (pc'[d] = "fill" => sid'[d] # s)
                                 <=> (pc[d] = "fill" => sid[d] # s)
        BY <1>0, <2>1, <3>3
      <4> QED BY <3>1, <3>3, <4>1 DEF Handed
    <3> QED BY <3>2, <3>3
  <2>8. Shape'
    BY <1>0, <2>1, <2>5 DEF ThreadsInv, Shape, NoState
  <2>9. KnownAreHanded'
    <3>1. \A u \in Threads : pc'[u] \in HoldsId => pc[u] \in HoldsId /\ sid'[u] = sid[u]
      BY <1>0, <2>1 DEF ThreadsInv, Shape, HoldsId
    <3>2. /\ pc'["em"] = "lookup" => pc["em"] = "lookup"
          /\ pc'["em"] = "enter" => pc["em"] = "enter"
      BY <2>1
    <3> QED BY <2>1, <2>7, <3>1, <3>2 DEF ThreadsInv, KnownAreHanded
  <2>10. FilledIn'
    <3>1. \A s \in SeqIds : s # seqid => cmd'[s] = cmd[s]
      BY <1>0, <2>1
    <3>2. ~Handed(seqid)
      BY <2>5 DEF Handed
    <3> QED BY <2>7, <3>1, <3>2 DEF ThreadsInv, FilledIn
  <2> QED BY <2>6, <2>8, <2>9, <2>10 DEF ThreadsInv
<1>2. CASE Fill(c)
  <2>1. /\ pc[c] = "fill" /\ pc' = [pc EXCEPT ![c] = "timer"]
        /\ UNCHANGED <<seqid, sid, events, ev, made, fdv, sentIds, calls>>
    BY <1>2 DEF Fill, Safely, At, Goto, allButCmd
  <2>2. /\ DOMAIN cmd' = SeqIds
        /\ \A s \in SeqIds : /\ s # sid[c] => cmd'[s] = cmd[s]
                             /\ s = sid[c] => cmd'[s].cb = TRUE
                             /\ DOMAIN cmd'[s] = {"state", "cb", "timeout_evt", "retries"}
    BY <1>0, <1>2 DEF Fill
  <2>3. Unstarted' = Unstarted
    BY <1>0, <2>1 DEF Unstarted
  <2>4. IdsLeft'
    BY <1>0, <2>1, <2>3 DEF ThreadsInv, IdsLeft
  <2>5. ASSUME NEW s PROVE /\ Handed(s) => Handed(s)'
                           /\ Handed(s)' => Handed(s) \/ s = sid[c]
    BY <1>0, <2>1 DEF Handed
  <2>6. Shape'
    BY <1>0, <2>1, <2>2 DEF ThreadsInv, Shape
  <2>7. FilledIn'
    BY <2>2, <2>5 DEF ThreadsInv, FilledIn
  <2>8. KnownAreHanded'
    <3>1. \A u \in Threads : pc'[u] \in HoldsId => pc[u] \in HoldsId \/ u = c
      BY <1>0, <2>1
    <3>2. /\ pc'["em"] = "lookup" => pc["em"] = "lookup"
          /\ pc'["em"] = "enter" => pc["em"] = "enter"
      BY <2>1
    <3>3. Handed(sid[c])'
      <4>1. sid[c] \in 0 .. seqid - 1 /\ \A d \in Callers : pc[d] = "fill" /\ d # c => sid[d] # sid[c]
        BY <2>1 DEF ThreadsInv, IdsLeft
      <4> QED BY <1>0, <2>1, <4>1 DEF Handed
    <3> QED BY <2>1, <2>5, <3>1, <3>2, <3>3 DEF ThreadsInv, KnownAreHanded
  <2> QED BY <2>4, <2>6, <2>7, <2>8 DEF ThreadsInv
<1> QED BY <1>1, <1>2

\* PacketReceived, on the UDP server's thread.
LEMMA PacketReceivedKeeps ==
  ASSUME ThreadsInv, PacketReceived PROVE ThreadsInv'
<1>0. /\ "udp" \in Threads /\ "udp" \in DOMAIN pc /\ DOMAIN cmd = SeqIds
      /\ \A s \in SeqIds : DOMAIN cmd[s] = {"state", "cb", "timeout_evt", "retries"}
      /\ DOMAIN pc = Threads /\ DOMAIN sid = Threads
  BY DEF Threads, ThreadsInv, Shape
<1> USE DEF Safely, At, shared, allButCmd
<1>1. ASSUME NEW ty, NEW s, Receive(ty, s) PROVE ThreadsInv'
  <2>1. Moves("udp", "find")
    BY <1>0, <1>1 DEF Moves, Receive
  <2>2. IdsLeft' /\ \A i : Handed(i)' <=> Handed(i)
    BY <2>1, MovesKeep DEF ThreadsInv
  <2>3. UNCHANGED <<cmd, events, ev, made, fdv, sentIds, calls>>
    BY <1>1 DEF Receive
  <2>4. /\ pc' = [pc EXCEPT !["udp"] = "find"] /\ sid' = [sid EXCEPT !["udp"] = s]
        /\ Handed(s)
    BY <1>1 DEF Receive, Goto, ThreadsInv, KnownAreHanded
  <2>5. Shape'
    BY <1>0, <2>3, <2>4 DEF ThreadsInv, Shape
  <2>6. FilledIn'
    BY <2>2, <2>3 DEF ThreadsInv, FilledIn
  <2>7. KnownAreHanded'
    <3>1. \A u \in Threads : pc'[u] \in HoldsId => Handed(sid'[u])
      BY <1>0, <2>4 DEF ThreadsInv, KnownAreHanded
    <3>2. pc'["em"] = pc["em"]
      BY <2>4
    <3> QED BY <2>2, <2>3, <3>1, <3>2 DEF ThreadsInv, KnownAreHanded
  <2> QED BY <2>2, <2>5, <2>6, <2>7 DEF ThreadsInv
<1>2. CASE FindState \/ CheckType
  <2>1. Follows /\ pc["udp"] \in {"find", "check"}
    BY <1>0, <1>2 DEF Follows, FindState, CheckType
  <2>2. PICK label \in {"check", "idle", "cancel", "acked"} : Goto("udp", label)
    BY <1>2 DEF FindState, CheckType
  <2>3. Continues("udp", label)
    BY <1>0, <1>2, <2>1, <2>2 DEF Continues, Moves, HoldsId, FindState, CheckType
  <2> QED BY <2>3, ContinuesKeeps
<1>3. CASE Acked
  <2>1. cmd[sid["udp"]].state # "none"
    BY <1>3 DEF Acked, Dangles, InFlight
  <2>2. Follows
    BY <1>0, <1>3, <2>1 DEF Follows, Acked
  <2>3. Continues("udp", "idle")
    BY <1>0, <1>3, <2>2 DEF Continues, Moves, HoldsId, Acked
  <2> QED BY <2>3, ContinuesKeeps
<1>4. CASE CancelRead
  <2>1. Follows
    BY <1>0, <1>4 DEF Follows, CancelRead
  <2>2. Continues("udp", "cancelfind")
    BY <1>0, <1>4, <2>1 DEF Continues, Moves, HoldsId, CancelRead
  <2> QED BY <2>2, ContinuesKeeps
<1>5. CASE CancelErase
  <2>1. Follows
    BY <1>0, <1>5 DEF Follows, CancelErase
  <2>2. Continues("udp", "nullevt")
    BY <1>0, <1>5, <2>1 DEF Continues, Moves, HoldsId, CancelErase
  <2> QED BY <2>2, ContinuesKeeps
<1>6. CASE NullEvent
  <2>1. Follows
    BY <1>0, <1>6 DEF Follows, NullEvent
  <2>2. Continues("udp", "call")
    BY <1>0, <1>6, <2>1 DEF Continues, Moves, HoldsId, NullEvent
  <2> QED BY <2>2, ContinuesKeeps
<1>7. CASE CallSuccess
  <2>1. Follows
    BY <1>0, <1>7 DEF Follows, CallSuccess
  <2>2. Continues("udp", "remove")
    BY <1>0, <1>7, <2>1 DEF Continues, Moves, HoldsId, CallSuccess
  <2> QED BY <2>2, ContinuesKeeps
<1>8. CASE RemoveReplied
  <2>1. Follows
    BY <1>0, <1>8 DEF Follows, RemoveReplied, NoState
  <2>2. Continues("udp", "idle")
    BY <1>0, <1>8, <2>1 DEF Continues, Moves, HoldsId, RemoveReplied
  <2> QED BY <2>2, ContinuesKeeps
<1>9. CASE CancelAborts
  BY <1>9 DEF CancelAborts, locals, ThreadsInv, Shape, IdsLeft, Unstarted, KnownAreHanded,
              FilledIn, Handed
<1> QED BY <1>1, <1>2, <1>3, <1>4, <1>5, <1>6, <1>7, <1>8, <1>9 DEF PacketReceived

\* A timer expires, on the event machine's thread.
LEMMA RetryTimerKeeps ==
  ASSUME ThreadsInv, RetryTimer PROVE ThreadsInv'
<1>0. /\ "em" \in Threads /\ DOMAIN cmd = SeqIds
      /\ \A s \in SeqIds : DOMAIN cmd[s] = {"state", "cb", "timeout_evt", "retries"}
      /\ DOMAIN pc = Threads /\ DOMAIN sid = Threads /\ DOMAIN fdv = Threads
  BY DEF Threads, ThreadsInv, Shape
<1> USE DEF Safely, At, shared, allButCmd
<1>1. ASSUME NEW label \in {"lookup", "enter", "wait"}, Moves("em", label), sid' = sid,
             DOMAIN fdv' = Threads, label = "lookup" => fdv'["em"] \in Fds,
             label = "enter" => Handed(ev'.seqid),
             UNCHANGED <<cmd, events, made, sentIds, calls>>
      PROVE  ThreadsInv'
  <2>1. IdsLeft' /\ \A i : Handed(i)' <=> Handed(i)
    BY <1>1, MovesKeep DEF ThreadsInv
  <2>2. pc' = [pc EXCEPT !["em"] = label]
    BY <1>1 DEF Moves, Goto
  <2>3. Shape'
    BY <1>0, <1>1, <2>2 DEF ThreadsInv, Shape
  <2>4. FilledIn'
    BY <1>1, <2>1 DEF ThreadsInv, FilledIn
  <2>5. KnownAreHanded'
    <3>1. \A u \in Threads : pc'[u] \in HoldsId => Handed(sid[u])
      BY <1>0, <2>2 DEF ThreadsInv, KnownAreHanded, HoldsId
    <3>2. pc'["em"] = label
      BY <1>0, <2>2
    <3> QED BY <1>1, <2>1, <3>1, <3>2 DEF ThreadsInv, KnownAreHanded
  <2> QED BY <2>1, <2>3, <2>4, <2>5 DEF ThreadsInv
<1>2. ASSUME NEW fd \in Fds, Poll(fd) PROVE ThreadsInv'
  <2>1. Moves("em", "lookup")
    BY <1>0, <1>2 DEF Moves, Poll
  <2> QED BY <1>0, <1>1, <1>2, <2>1 DEF Poll
<1>3. CASE Lookup
  <2>1. PICK label \in {"enter", "wait"} : /\ Goto("em", label)
                                           /\ label = "enter" => events[fdv["em"]] # NULL
    BY <1>3 DEF Lookup
  <2>2. Moves("em", label)
    BY <1>0, <1>3, <2>1 DEF Moves, Lookup
  <2>3. label = "enter" => Handed(ev'.seqid)
    BY <1>3, <2>1 DEF ThreadsInv, KnownAreHanded, Lookup
  <2> QED BY <1>0, <1>1, <1>3, <2>2, <2>3 DEF Lookup
<1>4. CASE EnterCallback
  <2>1. Moves("em", "retry")
    BY <1>0, <1>4 DEF Moves, EnterCallback
  <2>2. IdsLeft' /\ \A i : Handed(i)' <=> Handed(i)
    BY <2>1, MovesKeep DEF ThreadsInv
  <2>3. UNCHANGED <<cmd, events, ev, made, fdv, sentIds, calls>>
    BY <1>4 DEF EnterCallback
  <2>4. /\ pc' = [pc EXCEPT !["em"] = "retry"] /\ sid' = [sid EXCEPT !["em"] = ev.seqid]
        /\ Handed(ev.seqid)
    BY <1>4 DEF EnterCallback, Goto, ThreadsInv, KnownAreHanded
  <2>5. Shape'
    BY <1>0, <2>3, <2>4 DEF ThreadsInv, Shape
  <2>6. FilledIn'
    BY <2>2, <2>3 DEF ThreadsInv, FilledIn
  <2>7. KnownAreHanded'
    <3>1. \A u \in Threads : pc'[u] \in HoldsId => Handed(sid'[u])
      BY <1>0, <2>4 DEF ThreadsInv, KnownAreHanded
    <3>2. pc'["em"] = "retry"
      BY <1>0, <2>4
    <3> QED BY <2>2, <2>3, <3>1, <3>2 DEF ThreadsInv, KnownAreHanded
  <2> QED BY <2>2, <2>5, <2>6, <2>7 DEF ThreadsInv
<1>5. CASE RetryFind
  <2>1. Follows
    BY <1>0, <1>5 DEF Follows, RetryFind
  <2>2. Continues("em", "count")
    BY <1>0, <1>5, <2>1 DEF Continues, Moves, HoldsId, RetryFind
  <2> QED BY <2>2, ContinuesKeeps
<1>6. CASE Count
  <2>1. Follows /\ pc["em"] = "count"
    BY <1>0, <1>6 DEF Follows, Count
  <2>2. PICK label \in {"giveup", "timer"} : Goto("em", label)
    BY <1>6 DEF Count
  <2>3. Continues("em", label)
    BY <1>0, <1>6, <2>1, <2>2 DEF Continues, Moves, HoldsId, Count
  <2> QED BY <2>3, ContinuesKeeps
<1>7. CASE CallFailure
  <2>1. Follows
    BY <1>0, <1>7 DEF Follows, CallFailure
  <2>2. Continues("em", "emremove")
    BY <1>0, <1>7, <2>1 DEF Continues, Moves, HoldsId, CallFailure
  <2> QED BY <2>2, ContinuesKeeps
<1>8. CASE RemoveFailed
  <2>1. Follows
    BY <1>0, <1>8 DEF Follows, RemoveFailed, NoState
  <2>2. Continues("em", "erase")
    BY <1>0, <1>8, <2>1 DEF Continues, Moves, HoldsId, RemoveFailed
  <2> QED BY <2>2, ContinuesKeeps
<1>9. CASE EraseEvent
  <2>1. Follows
    BY <1>0, <1>9 DEF Follows, EraseEvent
  <2>2. Continues("em", "wait")
    BY <1>0, <1>9, <2>1 DEF Continues, Moves, HoldsId, EraseEvent
  <2> QED BY <2>2, ContinuesKeeps
<1>10. CASE RetryAborts
  BY <1>10 DEF RetryAborts, locals, ThreadsInv, Shape, IdsLeft, Unstarted, KnownAreHanded,
               FilledIn, Handed
<1> QED BY <1>2, <1>3, <1>4, <1>5, <1>6, <1>7, <1>8, <1>9, <1>10 DEF RetryTimer

LEMMA ThreadsStep == ThreadsInv /\ [Next]_vars => ThreadsInv'
<1> SUFFICES ASSUME ThreadsInv, [Next]_vars PROVE ThreadsInv'
  OBVIOUS
<1>1. ASSUME NEW t, Undefined(t) \/ UNCHANGED vars PROVE ThreadsInv'
  BY <1>1 DEF Undefined, vars, shared, locals, ThreadsInv, Shape, IdsLeft, Unstarted,
              KnownAreHanded, FilledIn, Handed
<1> QED BY <1>1, AsyncQueryKeeps, SendQueryKeeps, PacketReceivedKeeps, RetryTimerKeeps
        DEF Next

\* Whoever calls a reply_callback, or counts a retry, finds what AsyncQuery
\* assigned to the entry after publishing it (cmd-protocol.cpp:72-92): for any
\* number of queries asked at once, retries and descriptors, and whatever else
\* the three threads do to each other.
THEOREM CallbackAlwaysAssigned == Spec => []CallbackAssigned
<1>1. Init => ThreadsInv
  BY ThreadsInit
<1>2. ThreadsInv => CallbackAssigned
  <2> SUFFICES ASSUME ThreadsInv, NEW t \in {"udp", "em"},
                      pc[t] \in {"call", "count", "giveup"}, cmd[sid[t]].state # "none"
               PROVE  cmd[sid[t]].cb = TRUE
    BY Zenon DEF CallbackAssigned, At, InFlight
  <2>1. Handed(sid[t])
    BY DEF ThreadsInv, KnownAreHanded, HoldsId, Threads
  <2>2. sid[t] \in SeqIds
    BY <2>1, UnstartedFinite, CallersFinite DEF Handed, ThreadsInv, IdsLeft, SeqIds
  <2> QED BY <2>1, <2>2 DEF ThreadsInv, FilledIn
<1> QED BY <1>1, <1>2, ThreadsStep, PTL DEF Spec

-----------------------------------------------------------------------------
\* The handlers between a command's callback and its removal from the map.
Ending(s) == (IF pc["udp"] = "remove" /\ sid["udp"] = s THEN 1 ELSE 0)
             + (IF pc["em"] = "emremove" /\ sid["em"] = s THEN 1 ELSE 0)

\* Calls of a command's callback: those of the handlers that are ending it, as
\* long as it is in flight, and at least one when it is not any more.
CallsInv ==
    \A s \in SeqIds :
        /\ calls[s] \in 0 .. 2
        /\ s >= seqid => calls[s] = 0
        /\ s < seqid /\ cmd[s].state = "none" => calls[s] >= 1
        /\ cmd[s].state # "none" => calls[s] = Ending(s)

\* A step with which no handler starts or stops ending a command.
Passes(t, label) ==
    /\ t \in Threads /\ Goto(t, label)
    /\ pc[t] \notin {"remove", "emremove"} /\ label \notin {"remove", "emremove"}
    /\ sid' = sid \/ \E s : sid' = [sid EXCEPT ![t] = s]
    /\ \A s \in SeqIds : cmd'[s].state = "none" <=> cmd[s].state = "none"
    /\ UNCHANGED <<seqid, calls>>

LEMMA EndingSame ==
  ASSUME Shape, NEW t, NEW label, NEW s, t \in Threads, Goto(t, label),
         pc[t] \notin {"remove", "emremove"}, label \notin {"remove", "emremove"},
         sid' = sid \/ \E i : sid' = [sid EXCEPT ![t] = i]
  PROVE  Ending(s)' = Ending(s)
<1>1. /\ pc' = [pc EXCEPT ![t] = label] /\ DOMAIN pc = Threads /\ DOMAIN sid = Threads
      /\ "udp" \in Threads /\ "em" \in Threads
  BY DEF Goto, Threads, Shape
<1>2. \A u \in Threads : u # t => pc'[u] = pc[u] /\ sid'[u] = sid[u]
  BY <1>1
<1>3. pc'[t] \notin {"remove", "emremove"}
  BY <1>1
<1>4. (pc'["udp"] = "remove" /\ sid'["udp"] = s) <=> (pc["udp"] = "remove" /\ sid["udp"] = s)
  BY <1>1, <1>2, <1>3
<1>5. (pc'["em"] = "emremove" /\ sid'["em"] = s) <=> (pc["em"] = "emremove" /\ sid["em"] = s)
  BY <1>1, <1>2, <1>3
<1> QED BY <1>4, <1>5 DEF Ending

LEMMA PassesKeeps ==
  ASSUME Shape, CallsInv, NEW t, NEW label, Passes(t, label) PROVE CallsInv'
<1>1. \A s : Ending(s)' = Ending(s)
  BY EndingSame DEF Passes
<1> QED BY <1>1 DEF Passes, CallsInv

LEMMA CallsInit == ASSUME Init PROVE CallsInv
BY CallersFinite DEF Init, NoState, CallsInv, SeqIds

LEMMA CallsAsync ==
  ASSUME ThreadsInv, CallsInv, NEW c \in Callers, Insert(c) \/ Fill(c) PROVE CallsInv'
<1>0. /\ Shape /\ c \in Threads /\ DOMAIN cmd = SeqIds /\ seqid \in Nat
      /\ DOMAIN pc = Threads /\ "udp" \in Threads /\ "em" \in Threads
  BY DEF Threads, ThreadsInv, Shape, IdsLeft
<1>1. CASE Insert(c)
  <2>1. /\ pc[c] = "start" /\ Goto(c, "fill") /\ pc' = [pc EXCEPT ![c] = "fill"]
        /\ sid' = [sid EXCEPT ![c] = seqid]
        /\ seqid' = seqid + 1 /\ calls' = calls
        /\ cmd' = [cmd EXCEPT ![seqid] = [NoState EXCEPT !.state = "kQuery"]]
    BY <1>1 DEF Insert, At, Goto
  <2>2. \A s : Ending(s)' = Ending(s)
    BY <1>0, <2>1, EndingSame
  <2>3. \A s : s = seqid => Ending(s) = 0
    <3>1. /\ pc["udp"] = "remove" => Handed(sid["udp"])
          /\ pc["em"] = "emremove" => Handed(sid["em"])
      BY <1>0 DEF ThreadsInv, KnownAreHanded, HoldsId
    <3>2. ~Handed(seqid)
      BY <1>0 DEF Handed
    <3> QED BY <3>1, <3>2 DEF Ending
  <2>4. ASSUME NEW s \in SeqIds
        PROVE  /\ s # seqid => cmd'[s] = cmd[s] /\ (s >= seqid' <=> s >= seqid)
               /\ s = seqid => cmd'[s].state = "kQuery" /\ s < seqid'
    BY <1>0, <2>1 DEF NoState, SeqIds
  <2>5. \A s \in SeqIds : s < seqid' <=> ~(s >= seqid')
    BY <1>0, <2>1 DEF SeqIds
  <2>6. \A s \in SeqIds : s < seqid <=> ~(s >= seqid)
    BY <1>0 DEF SeqIds
  <2> QED BY <1>0, <2>1, <2>2, <2>3, <2>4, <2>5, <2>6 DEF CallsInv
<1>2. CASE Fill(c)
  <2>1. cmd[sid[c]].state # "none"
    BY <1>2 DEF Fill, Safely, At, Dangles, InFlight
  <2>2. Passes(c, "timer")
    BY <1>0, <1>2, <2>1 DEF Passes, Fill, Safely, At, allButCmd
  <2> QED BY <1>0, <2>2, PassesKeeps
<1> QED BY <1>1, <1>2

LEMMA CallsSend ==
  ASSUME ThreadsInv, CallsInv, NEW t \in Callers \cup {"em"}, SendQuery(t) PROVE CallsInv'
<1>0. /\ Shape /\ t \in Threads /\ DOMAIN cmd = SeqIds
      /\ \A s \in SeqIds : DOMAIN cmd[s] = {"state", "cb", "timeout_evt", "retries"}
  BY DEF Threads, ThreadsInv, Shape
<1> USE DEF Safely, At
<1>1. CASE NewTimer(t)
  <2>1. Passes(t, "publish")
    BY <1>0, <1>1 DEF Passes, NewTimer
  <2> QED BY <1>0, <2>1, PassesKeeps
<1>2. CASE Publish(t)
  <2>1. Passes(t, "expect")
    BY <1>0, <1>2 DEF Passes, Publish, allButCmd
  <2> QED BY <1>0, <2>1, PassesKeeps
<1>3. CASE Expect(t)
  <2>1. cmd[sid[t]].state # "none"
    BY <1>3 DEF Expect, Dangles, InFlight
  <2>2. Passes(t, "send")
    BY <1>0, <1>3, <2>1 DEF Passes, Expect, allButCmd
  <2> QED BY <1>0, <2>2, PassesKeeps
<1>4. CASE Send(t)
  <2>1. PICK label \in {"erase", "done"} : Goto(t, label)
    BY <1>4 DEF Send
  <2>2. Passes(t, label)
    BY <1>0, <1>4, <2>1 DEF Passes, Send, shared
  <2> QED BY <1>0, <2>2, PassesKeeps
<1> QED BY <1>1, <1>2, <1>3, <1>4 DEF SendQuery

\* A handler that called back a command in flight, which the other handler may
\* be ending too, now ends it.
LEMMA CallCounts ==
  ASSUME CallsInv, NEW u \in SeqIds, NEW other \in {0, 1}, DOMAIN calls = SeqIds,
         calls' = [calls EXCEPT ![u] = @ + 1], UNCHANGED <<seqid, cmd>>, u < seqid, seqid \in Nat,
         cmd[u].state # "none", Ending(u) = other, Ending(u)' = other + 1,
         \A s \in SeqIds : s # u => Ending(s)' = Ending(s)
  PROVE  CallsInv'
<1>1. calls[u] = other /\ calls'[u] = other + 1 /\ calls'[u] \in 0 .. 2
  BY DEF CallsInv
<1>2. \A s \in SeqIds : s # u => calls'[s] = calls[s]
  OBVIOUS
<1>3. ~(u >= seqid)
  BY DEF SeqIds
<1>4. \A s \in SeqIds : /\ calls'[s] \in 0 .. 2
                        /\ s >= seqid => calls'[s] = 0
                        /\ s < seqid /\ cmd[s].state = "none" => calls'[s] >= 1
  BY <1>1, <1>2, <1>3 DEF CallsInv
<1>5. \A s \in SeqIds : cmd[s].state # "none" => calls'[s] = Ending(s)'
  BY <1>1, <1>2 DEF CallsInv
<1> QED BY <1>4, <1>5 DEF CallsInv

\* A handler that called a command back removes it.
LEMMA RemovalKeeps ==
  ASSUME CallsInv, NEW u \in SeqIds, DOMAIN cmd = SeqIds, u < seqid,
         cmd' = [cmd EXCEPT ![u] = NoState], UNCHANGED <<seqid, calls>>, Ending(u) \in 1 .. 2,
         \A s \in SeqIds : s # u => Ending(s)' = Ending(s)
  PROVE  CallsInv'
<1>1. calls[u] >= 1
  BY DEF CallsInv
<1>2. cmd'[u].state = "none" /\ \A s \in SeqIds : s # u => cmd'[s] = cmd[s]
  BY DEF NoState
<1> QED BY <1>1, <1>2 DEF CallsInv

\* What the two lemmas need to know of a handler's id.
LEMMA HeldId ==
  ASSUME ThreadsInv, NEW t \in Threads, pc[t] \in HoldsId
  PROVE  sid[t] \in SeqIds /\ sid[t] < seqid /\ seqid \in Nat
<1>1. Handed(sid[t])
  BY DEF ThreadsInv, KnownAreHanded
<1> QED BY <1>1, UnstartedFinite, CallersFinite DEF Handed, ThreadsInv, IdsLeft, SeqIds

LEMMA CallsUdp == ASSUME ThreadsInv, CallsInv, PacketReceived PROVE CallsInv'
<1>0. /\ Shape /\ "udp" \in Threads /\ "em" \in Threads /\ DOMAIN cmd = SeqIds
      /\ \A s \in SeqIds : DOMAIN cmd[s] = {"state", "cb", "timeout_evt", "retries"}
      /\ DOMAIN pc = Threads /\ DOMAIN calls = SeqIds
  BY DEF Threads, ThreadsInv, Shape
<1> USE DEF Safely, At, shared, allButCmd
<1>1. ASSUME NEW ty, NEW s, Receive(ty, s) PROVE CallsInv'
  <2>1. Passes("udp", "find")
    BY <1>0, <1>1 DEF Passes, Receive
  <2> QED BY <1>0, <2>1, PassesKeeps
<1>2. CASE FindState \/ CheckType
  <2>1. PICK label \in {"check", "idle", "cancel", "acked"} : Goto("udp", label)
    BY <1>2 DEF FindState, CheckType
  <2>2. Passes("udp", label)
    BY <1>0, <1>2, <2>1 DEF Passes, FindState, CheckType
  <2> QED BY <1>0, <2>2, PassesKeeps
<1>3. CASE Acked
  <2>1. cmd[sid["udp"]].state # "none"
    BY <1>3 DEF Acked, Dangles, InFlight
  <2>2. Passes("udp", "idle")
    BY <1>0, <1>3, <2>1 DEF Passes, Acked
  <2> QED BY <1>0, <2>2, PassesKeeps
<1>4. CASE CancelRead
  <2>1. Passes("udp", "cancelfind")
    BY <1>0, <1>4 DEF Passes, CancelRead
  <2> QED BY <1>0, <2>1, PassesKeeps
<1>5. CASE CancelErase
  <2>1. Passes("udp", "nullevt")
    BY <1>0, <1>5 DEF Passes, CancelErase
  <2> QED BY <1>0, <2>1, PassesKeeps
<1>6. CASE NullEvent
  <2>1. Passes("udp", "call")
    BY <1>0, <1>6 DEF Passes, NullEvent
  <2> QED BY <1>0, <2>1, PassesKeeps
<1>7. CASE CallSuccess
  <2>1. PICK u \in SeqIds : u = sid["udp"] /\ u < seqid /\ seqid \in Nat
    BY <1>0, <1>7, HeldId DEF CallSuccess, HoldsId
  <2>2. /\ cmd[u].state # "none" /\ pc["udp"] = "call" /\ pc' = [pc EXCEPT !["udp"] = "remove"]
        /\ calls' = [calls EXCEPT ![u] = @ + 1] /\ UNCHANGED <<seqid, cmd, sid>>
    BY <1>7, <2>1 DEF CallSuccess, Dangles, InFlight, Goto
  <2>3. pc'["udp"] = "remove" /\ pc'["em"] = pc["em"]
    BY <1>0, <2>2
  <2>4. \A s \in SeqIds : s # u => Ending(s)' = Ending(s)
    BY <2>1, <2>2, <2>3 DEF Ending
  <2>5. PICK other \in {0, 1} : Ending(u) = other /\ Ending(u)' = other + 1
    BY <2>1, <2>2, <2>3 DEF Ending
  <2> QED BY <1>0, <2>1, <2>2, <2>4, <2>5, CallCounts
<1>8. CASE RemoveReplied
  <2>1. sid["udp"] \in SeqIds /\ sid["udp"] < seqid
    BY <1>0, <1>8, HeldId DEF RemoveReplied, HoldsId
  <2>2. /\ pc["udp"] = "remove" /\ pc' = [pc EXCEPT !["udp"] = "idle"]
        /\ cmd' = [cmd EXCEPT ![sid["udp"]] = NoState] /\ UNCHANGED <<seqid, calls, sid>>
    BY <1>8 DEF RemoveReplied, Goto
  <2>3. pc'["udp"] = "idle" /\ pc'["em"] = pc["em"]
    BY <1>0, <2>2
  <2>4. \A s \in SeqIds : s # sid["udp"] => Ending(s)' = Ending(s)
    BY <2>2, <2>3 DEF Ending
  <2>5. Ending(sid["udp"]) \in 1 .. 2
    BY <2>2 DEF Ending
  <2> QED BY <1>0, <2>1, <2>2, <2>4, <2>5, RemovalKeeps
<1>9. CASE CancelAborts
  BY <1>9 DEF CancelAborts, locals, CallsInv, Ending
<1> QED BY <1>1, <1>2, <1>3, <1>4, <1>5, <1>6, <1>7, <1>8, <1>9 DEF PacketReceived

LEMMA CallsEm == ASSUME ThreadsInv, CallsInv, RetryTimer PROVE CallsInv'
<1>0. /\ Shape /\ "udp" \in Threads /\ "em" \in Threads /\ DOMAIN cmd = SeqIds
      /\ \A s \in SeqIds : DOMAIN cmd[s] = {"state", "cb", "timeout_evt", "retries"}
      /\ DOMAIN pc = Threads /\ DOMAIN calls = SeqIds
  BY DEF Threads, ThreadsInv, Shape
<1> USE DEF Safely, At, shared, allButCmd
<1>1. ASSUME NEW fd \in Fds, Poll(fd) PROVE CallsInv'
  <2>1. Passes("em", "lookup")
    BY <1>0, <1>1 DEF Passes, Poll
  <2> QED BY <1>0, <2>1, PassesKeeps
<1>2. CASE Lookup
  <2>1. PICK label \in {"enter", "wait"} : Goto("em", label)
    BY <1>2 DEF Lookup
  <2>2. Passes("em", label)
    BY <1>0, <1>2, <2>1 DEF Passes, Lookup
  <2> QED BY <1>0, <2>2, PassesKeeps
<1>3. CASE EnterCallback
  <2>1. Passes("em", "retry")
    BY <1>0, <1>3 DEF Passes, EnterCallback
  <2> QED BY <1>0, <2>1, PassesKeeps
<1>4. CASE RetryFind
  <2>1. Passes("em", "count")
    BY <1>0, <1>4 DEF Passes, RetryFind
  <2> QED BY <1>0, <2>1, PassesKeeps
<1>5. CASE Count
  <2>1. PICK label \in {"giveup", "timer"} : Goto("em", label)
    BY <1>5 DEF Count
  <2>2. Passes("em", label)
    BY <1>0, <1>5, <2>1 DEF Passes, Count
  <2> QED BY <1>0, <2>2, PassesKeeps
<1>6. CASE CallFailure
  <2>1. PICK u \in SeqIds : u = sid["em"] /\ u < seqid /\ seqid \in Nat
    BY <1>0, <1>6, HeldId DEF CallFailure, HoldsId
  <2>2. /\ cmd[u].state # "none" /\ pc["em"] = "giveup" /\ pc' = [pc EXCEPT !["em"] = "emremove"]
        /\ calls' = [calls EXCEPT ![u] = @ + 1] /\ UNCHANGED <<seqid, cmd, sid>>
    BY <1>6, <2>1 DEF CallFailure, Dangles, InFlight, Goto
  <2>3. pc'["em"] = "emremove" /\ pc'["udp"] = pc["udp"]
    BY <1>0, <2>2
  <2>4. \A s \in SeqIds : s # u => Ending(s)' = Ending(s)
    BY <2>1, <2>2, <2>3 DEF Ending
  <2>5. PICK other \in {0, 1} : Ending(u) = other /\ Ending(u)' = other + 1
    BY <2>1, <2>2, <2>3 DEF Ending
  <2> QED BY <1>0, <2>1, <2>2, <2>4, <2>5, CallCounts
<1>7. CASE RemoveFailed
  <2>1. sid["em"] \in SeqIds /\ sid["em"] < seqid
    BY <1>0, <1>7, HeldId DEF RemoveFailed, HoldsId
  <2>2. /\ pc["em"] = "emremove" /\ pc' = [pc EXCEPT !["em"] = "erase"]
        /\ cmd' = [cmd EXCEPT ![sid["em"]] = NoState] /\ UNCHANGED <<seqid, calls, sid>>
    BY <1>7 DEF RemoveFailed, Goto
  <2>3. pc'["em"] = "erase" /\ pc'["udp"] = pc["udp"]
    BY <1>0, <2>2
  <2>4. \A s \in SeqIds : s # sid["em"] => Ending(s)' = Ending(s)
    BY <2>2, <2>3 DEF Ending
  <2>5. Ending(sid["em"]) \in 1 .. 2
    BY <2>2 DEF Ending
  <2> QED BY <1>0, <2>1, <2>2, <2>4, <2>5, RemovalKeeps
<1>8. CASE EraseEvent
  <2>1. Passes("em", "wait")
    BY <1>0, <1>8 DEF Passes, EraseEvent
  <2> QED BY <1>0, <2>1, PassesKeeps
<1>9. CASE RetryAborts
  BY <1>9 DEF RetryAborts, locals, CallsInv, Ending
<1> QED BY <1>1, <1>2, <1>3, <1>4, <1>5, <1>6, <1>7, <1>8, <1>9 DEF RetryTimer

\* A command that is not in flight any more was called back, and no command is
\* called back more than twice: once by each of the two handlers that end it.
NoneLost == \A s \in 0 .. seqid - 1 : calls[s] <= 2 /\ (~InFlight(s) => calls[s] >= 1)

\* However PacketReceived (cmd-protocol.cpp:134-167) and RetryOperation
\* (cmd-protocol.cpp:193-208) overlap, no query leaves cmd_in_flight_ without a
\* call of its callback, and the worst that the missing lock does to the callback
\* is a second call: a success while the other handler gives the query up.
THEOREM NoneEverLost == Spec => []NoneLost
<1> DEFINE Both == ThreadsInv /\ CallsInv
<1>1. Init => Both
  BY ThreadsInit, CallsInit
<1>2. Both /\ [Next]_vars => Both'
  <2> SUFFICES ASSUME ThreadsInv, CallsInv, [Next]_vars PROVE CallsInv'
    BY ThreadsStep
  <2>1. ASSUME NEW t, Undefined(t) \/ UNCHANGED vars PROVE CallsInv'
    BY <2>1 DEF Undefined, vars, shared, locals, CallsInv, Ending
  <2> QED BY <2>1, CallsAsync, CallsSend, CallsUdp, CallsEm DEF Next
<1>3. Both => NoneLost
  <2> SUFFICES ASSUME ThreadsInv, CallsInv, NEW s \in 0 .. seqid - 1
               PROVE  calls[s] <= 2 /\ (~InFlight(s) => calls[s] >= 1)
    BY DEF NoneLost
  <2>1. s \in SeqIds /\ s < seqid
    BY UnstartedFinite, CallersFinite DEF ThreadsInv, IdsLeft, SeqIds
  <2> QED BY <2>1 DEF CallsInv, InFlight
<1> QED BY <1>1, <1>2, <1>3, PTL DEF Spec
=============================================================================
