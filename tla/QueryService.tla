---------------------------- MODULE QueryService ----------------------------
(***************************************************************************)
(* What CmdClient promises its callers (cmd-protocol.h): a query issued    *)
(* with AsyncQuery is completed by one call of its ReplyCallback, either   *)
(* with the answer of the GamePad or with a failure, and completes at all  *)
(* as long as the client keeps running.                                    *)
(***************************************************************************)
EXTENDS Naturals

CONSTANT NumQueries          \* how many queries the application issues

Queries == 0 .. NumQueries - 1

VARIABLES
    status,      \* per query: "idle", "pending", "ok" or "failed"
    executed,    \* the queries the GamePad has carried out
    serving      \* TRUE while the client's retry timers are being served

svars == <<status, executed, serving>>

SInit ==
    /\ status = [q \in Queries |-> "idle"]
    /\ executed = {}
    /\ serving = FALSE

Issue(q) ==
    /\ status[q] = "idle"
    /\ status' = [status EXCEPT ![q] = "pending"]
    /\ UNCHANGED <<executed, serving>>

\* A query may be carried out after the client has given up on it: the packet
\* that carries it can be arbitrarily late.
Execute(q) ==
    /\ status[q] # "idle"
    /\ executed' = executed \cup {q}
    /\ UNCHANGED <<status, serving>>

Succeed(q) ==
    /\ status[q] = "pending"
    /\ q \in executed
    /\ status' = [status EXCEPT ![q] = "ok"]
    /\ UNCHANGED <<executed, serving>>

Fail(q) ==
    /\ status[q] = "pending"
    /\ serving
    /\ status' = [status EXCEPT ![q] = "failed"]
    /\ UNCHANGED <<executed, serving>>

StartOrStop ==
    /\ serving' = ~serving
    /\ UNCHANGED <<status, executed>>

SNext ==
    \/ \E q \in Queries : Issue(q) \/ Execute(q) \/ Succeed(q) \/ Fail(q)
    \/ StartOrStop

Complete(q) == serving /\ (Succeed(q) \/ Fail(q))

SSpec ==
    /\ SInit
    /\ [][SNext]_svars
    /\ \A q \in Queries : WF_svars(Complete(q))
=============================================================================
