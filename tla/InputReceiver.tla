---------------------------- MODULE InputReceiver ---------------------------
(***************************************************************************)
(* The GamePad's input on the PC: InputReceiver (input-receiver.cpp) on    *)
(* top of a UdpServer with a timeout (udp.cpp).  One event machine serves  *)
(* the socket and a timerfd; every packet rearms the timer, its expiry     *)
(* makes the current input invalid.  Time is counted in ticks; epoll       *)
(* reports descriptors in the order in which they became ready.            *)
(***************************************************************************)
EXTENDS Naturals, SequencesExt

CONSTANTS
    Timeout,     \* SetTimeout(1000000 / 60), in ticks
    MaxQueue     \* bound: datagrams waiting in the socket

ASSUME TimesAssumption == Timeout \in Nat \ {0} /\ MaxQueue \in Nat \ {0}

Off == Timeout + 1       \* a disarmed timer

VARIABLES
    current,     \* current_: "valid" or "invalid"
    socket,      \* datagrams the kernel holds: "hid" (128 bytes) or "other"
    timer,       \* ticks until the timerfd expires, or Off
    expired,     \* the timerfd has an expiration that was not read
    order,       \* the ready descriptors, in the order they became ready
    batch,       \* what epoll_wait returned and is still to be handled
    silence,     \* ticks since a packet was last received, up to Timeout
    quiet        \* TRUE once the GamePad has stopped sending for good

vars == <<current, socket, timer, expired, order, batch, silence, quiet>>

Init ==
    /\ current = "invalid"
    /\ socket = <<>>
    /\ timer = Timeout
    /\ expired = FALSE
    /\ order = <<>>
    /\ batch = <<>>
    /\ silence = 0
    /\ quiet = FALSE

Pending(seq, x) == \E i \in DOMAIN seq : seq[i] = x
Without(seq, x) == RemoveFirst(seq, x)       \* a descriptor is listed once
With(seq, x) == IF Pending(seq, x) THEN seq ELSE Append(seq, x)

-----------------------------------------------------------------------------
(* The environment (external): the clock and the GamePad.                  *)
Expire ==
    /\ timer = 1
    /\ timer' = Off
    /\ expired' = TRUE
    /\ order' = With(order, "timer")

CountDown ==
    /\ timer # 1
    /\ timer' = IF timer = Off THEN Off ELSE timer - 1
    /\ UNCHANGED <<expired, order>>

Tick ==
    /\ silence < Timeout \/ timer # Off
    /\ Expire \/ CountDown
    /\ silence' = IF silence < Timeout THEN silence + 1 ELSE Timeout
    /\ UNCHANGED <<current, socket, batch, quiet>>

Arrive(kind) ==
    /\ ~quiet
    /\ Len(socket) < MaxQueue
    /\ socket' = Append(socket, kind)
    /\ order' = With(order, "sock")
    /\ UNCHANGED <<current, timer, expired, batch, silence, quiet>>

GoQuiet ==
    /\ ~quiet
    /\ quiet' = TRUE
    /\ UNCHANGED <<current, socket, timer, expired, order, batch, silence>>

-----------------------------------------------------------------------------
(* The UdpServer's event machine.                                          *)
EpollWait ==
    /\ batch = <<>>
    /\ order # <<>>
    /\ batch' = order
    /\ UNCHANGED <<current, socket, timer, expired, order, silence, quiet>>

\* timerfd_settime also forgets an expiration that was not read yet.
RearmTimerNever == UNCHANGED <<timer, expired>>
RearmTimerDisarms == timer' = Off /\ expired' = FALSE

RearmTimer ==
    /\ timer' = Timeout
    /\ expired' = FALSE

\* recv_cb_ = ProcessInputMessage: only messages of 128 bytes count.
ProcessInputMessage(kind, cur) == IF kind = "hid" THEN "valid" ELSE cur

\* timeout_cb_ = ProcessInputTimeout.
ProcessInputTimeout(cur) == "invalid"

Received ==
    /\ batch # <<>> /\ Head(batch) = "sock"
    /\ batch' = Tail(batch)
    /\ RearmTimer
    /\ socket' = Tail(socket)
    /\ current' = ProcessInputMessage(Head(socket), current)
    /\ order' = LET o == Without(order, "timer")
                IN  IF Len(socket) > 1 THEN o ELSE Without(o, "sock")
    /\ silence' = 0
    /\ UNCHANGED quiet

\* read() empties the timerfd; when there is nothing to read its failure is
\* logged and the callback is called all the same.
TimedOut ==
    /\ batch # <<>> /\ Head(batch) = "timer"
    /\ batch' = Tail(batch)
    /\ expired' = FALSE
    /\ order' = Without(order, "timer")
    /\ current' = ProcessInputTimeout(current)
    /\ UNCHANGED <<socket, timer, silence, quiet>>

ProcessEvents == EpollWait \/ Received \/ TimedOut

Next ==
    \/ Tick
    \/ \E kind \in {"hid", "other"} : Arrive(kind)
    \/ GoQuiet
    \/ ProcessEvents

Spec == Init /\ [][Next]_vars

\* Time passes, and the thread is scheduled.
FairSpec == Spec /\ WF_vars(Tick) /\ WF_vars(ProcessEvents)

-----------------------------------------------------------------------------
\* Types; the readiness epoll sees is that of the timer and of the socket.
TypeOK ==
    /\ current \in {"valid", "invalid"}
    /\ socket \in Seq({"hid", "other"}) /\ Len(socket) <= MaxQueue
    /\ timer \in 1 .. Off
    /\ expired \in BOOLEAN
    /\ order \in Seq({"sock", "timer"}) /\ batch \in Seq({"sock", "timer"})
    /\ silence \in 0 .. Timeout
    /\ quiet \in BOOLEAN
    /\ expired <=> Pending(order, "timer")
    /\ socket # <<>> <=> Pending(order, "sock")

\* Input is not served stale: when nothing was received for Timeout ticks and
\* the input is still valid, the timeout that ends it is already on its way.
StaleNotForgotten ==
    current = "valid" /\ silence = Timeout => Pending(order, "timer") \/ Pending(batch, "timer")

\* When the GamePad falls silent, the input becomes and stays invalid.
SilenceDetected == quiet ~> [](current = "invalid")
=============================================================================
