------------------------------- MODULE Streamer -----------------------------
(***************************************************************************)
(* The life of a Streamer (streamer.cpp): Start brings up seven parts, any *)
(* of which may fail, and Stop takes them down in another order, joining   *)
(* their threads one by one.  Some of those threads wait for each other:   *)
(* the one of UvcUacStateSynchronizer (uvcuac-synchronizer.cpp) sits in a  *)
(* blocking CmdClient::Query every second, and VideoConverter              *)
(* (video-converter.cpp) hands its result to the video streamer.           *)
(*                                                                         *)
(* The reply to SyncUICConfig is loaded into the DeviceConfig and then     *)
(* calibrates the touch screen, on the command client's thread or, when it *)
(* was waited for, on the caller's, without a lock.                        *)
(*                                                                         *)
(* CmdClient is used as QueryService describes it: a query is answered or  *)
(* given up as long as the client runs, and by nobody once it is stopped.  *)
(***************************************************************************)
EXTENDS DeviceConfig, Sequences

CONSTANT
    OneThread      \* TRUE: the application uses the Streamer from one thread

ASSUME OneThreadAssumption == OneThread \in BOOLEAN

\* The parts in the order in which Start starts them, and those whose Start
\* can return false (a socket cannot be opened or bound).
StartOrder == <<"msg_server", "aud_streamer", "cmd_client", "vid_converter",
                "vid_streamer", "input_receiver", "uvcuac_synchronizer">>
Parts   == {StartOrder[i] : i \in DOMAIN StartOrder}
MayFail == Parts \ {"vid_converter", "uvcuac_synchronizer"}

\* The order in which Stop stops them.
StopOrderCmdFirst == <<"cmd_client", "uvcuac_synchronizer", "input_receiver",
                       "vid_streamer", "vid_converter", "aud_streamer", "msg_server">>
StopOrderForgets == <<"uvcuac_synchronizer", "input_receiver", "vid_streamer",
                      "vid_streamer", "cmd_client", "aud_streamer", "msg_server">>
StopOrder == <<"uvcuac_synchronizer", "input_receiver", "vid_streamer",
               "vid_converter", "cmd_client", "aud_streamer", "msg_server">>

\* Who can have a query in flight: the synchronizer's thread and an
\* application thread, both of which wait for it, and SyncUICConfig, which
\* does not.
Clients == {"uvcuac", "app", "uic"}
None == <<>>                     \* no callback in progress

VARIABLES
    phase,       \* "new", "starting", "up", "stopping" or "stopped"
    at,          \* the part Start or Stop has come to
    up,          \* the parts that run
    query,       \* per client, whether it has a query in flight
    converting,  \* current_conv_ is not finished
    pushed,      \* the video streamer's frame_ is set
    config,      \* device_config_
    callback,    \* per client, the points its callback is about to set
    points,      \* the calibration points of the InputReceiver
    overlap      \* history: two callbacks were in progress at once

frameVars  == <<converting, pushed>>
configVars == <<config, callback, points, overlap>>
vars == <<phase, at, up, query, frameVars, configVars>>

Init ==
    /\ phase = "new"
    /\ at = 1
    /\ up = {}
    /\ query = [c \in Clients |-> FALSE]
    /\ converting = FALSE
    /\ pushed = FALSE
    /\ config = DefaultConfig
    /\ points = Default              \* the same ones, in the InputReceiver
    /\ callback = [c \in Clients |-> None]
    /\ overlap = FALSE

-----------------------------------------------------------------------------
(* Start.                                                                  *)
Start ==
    /\ phase = "new"
    /\ phase' = "starting"
    /\ UNCHANGED <<at, up, query, frameVars, configVars>>

StartPart ==
    /\ phase = "starting"
    /\ at <= Len(StartOrder)
    /\ up' = up \cup {StartOrder[at]}
    /\ at' = at + 1
    /\ UNCHANGED <<phase, query, frameVars, configVars>>

StartFailsIgnored ==               \* goes on without the part
    /\ phase = "starting"
    /\ at <= Len(StartOrder)
    /\ StartOrder[at] \in MayFail
    /\ at' = at + 1
    /\ UNCHANGED <<phase, up, query, frameVars, configVars>>

\* A part that fails to start has cleaned up after itself; the Streamer then
\* calls its own Stop.
StartFails ==
    /\ phase = "starting"
    /\ at <= Len(StartOrder)
    /\ StartOrder[at] \in MayFail
    /\ phase' = "stopping"
    /\ at' = 1
    /\ UNCHANGED <<up, query, frameVars, configVars>>

\* SyncUICConfig(), without waiting.
StartDone ==
    /\ phase = "starting"
    /\ at > Len(StartOrder)
    /\ phase' = "up"
    /\ query' = [query EXCEPT !["uic"] = TRUE]
    /\ UNCHANGED <<at, up, frameVars, configVars>>

-----------------------------------------------------------------------------
(* Stop.                                                                   *)
Stop ==
    /\ phase = "up"
    /\ OneThread => ~query["app"] /\ callback["app"] = None
    /\ phase' = "stopping"
    /\ at' = 1
    /\ UNCHANGED <<up, query, frameVars, configVars>>

\* Stop of a part that runs returns when its thread has ended, which takes
\* the callback it is in to return; the converter waits for the conversion
\* whether or not it was started.
StopReturnsFor(part) ==
    /\ part = "uvcuac_synchronizer" => ~query["uvcuac"]
    /\ part = "vid_converter" => ~converting
    /\ part = "cmd_client" => callback["uic"] = None

StopPart ==
    /\ phase = "stopping"
    /\ at <= Len(StopOrder)
    /\ StopReturnsFor(StopOrder[at])
    /\ up' = up \ {StopOrder[at]}
    /\ at' = at + 1
    /\ UNCHANGED <<phase, query, frameVars, configVars>>

StopDone ==
    /\ phase = "stopping"
    /\ at > Len(StopOrder)
    /\ phase' = "stopped"
    /\ UNCHANGED <<at, up, query, frameVars, configVars>>

-----------------------------------------------------------------------------
(* The other threads.                                                      *)

\* The synchronizer's timer: the callback stays in Query.
SyncTimer ==
    /\ "uvcuac_synchronizer" \in up
    /\ ~query["uvcuac"]
    /\ query' = [query EXCEPT !["uvcuac"] = TRUE]
    /\ UNCHANGED <<phase, at, up, frameVars, configVars>>

\* SetLcdBacklight or SyncUICConfig with wait = true.
CommandAndWait ==
    /\ phase = "up"
    /\ ~query["app"] /\ callback["app"] = None
    /\ query' = [query EXCEPT !["app"] = TRUE]
    /\ UNCHANGED <<phase, at, up, frameVars, configVars>>

\* SyncUICConfig with wait = false, one at a time.  The other commands that are
\* not waited for, SetLcdBacklight and ShutdownPad, have no callback and change
\* nothing here.
SyncUICConfig ==
    /\ phase = "up"
    /\ OneThread => ~query["app"] /\ callback["app"] = None
    /\ ~query["uic"]
    /\ query' = [query EXCEPT !["uic"] = TRUE]
    /\ UNCHANGED <<phase, at, up, frameVars, configVars>>

\* The client calls back, with a failure or with a reply; other commands than
\* SyncUICConfig do nothing with it, and neither does SyncUICConfig when the
\* reply does not have 0x310 bytes.
QueryDone(c) ==
    /\ query[c]
    /\ "cmd_client" \in up
    /\ query' = [query EXCEPT ![c] = FALSE]
    /\ UNCHANGED <<phase, at, up, frameVars, configVars>>

\* uic_config_callback for a reply of 0x310 bytes, first LoadFromBlob and the
\* points it is to pass on...
PointsOfOld(before, after) == before["panel"]    \* read before loading
PointsOf(before, after) == after["panel"]

LoadConfig(c, blob) ==
    /\ c \in {"uic", "app"}
    /\ query[c] /\ callback[c] = None
    /\ "cmd_client" \in up
    /\ query' = [query EXCEPT ![c] = FALSE]
    /\ config' = LoadFromBlob(config, blob)
    /\ callback' = [callback EXCEPT ![c] = <<PointsOf(config, config')>>]
    /\ overlap' = (overlap \/ \E d \in Clients : callback[d] # None)
    /\ UNCHANGED <<phase, at, up, frameVars, points>>

\* ... then SetCalibrationPoints.
SetCalibrationPoints(c) ==
    /\ callback[c] # None
    /\ points' = callback[c][1]
    /\ callback' = [callback EXCEPT ![c] = None]
    /\ UNCHANGED <<phase, at, up, query, frameVars, config, overlap>>

\* PushVidFrame: waits for the last conversion, then starts one of its own.
PushVidFrame ==
    /\ phase = "up" \/ (~OneThread /\ phase = "stopping")
    /\ OneThread => ~query["app"] /\ callback["app"] = None
    /\ ~converting
    /\ converting' = TRUE
    /\ UNCHANGED <<phase, at, up, query, pushed, configVars>>

\* DoConversion, and its done callback PushNativeVidFrame.
DoConversion ==
    /\ converting
    /\ converting' = FALSE
    /\ pushed' = TRUE
    /\ UNCHANGED <<phase, at, up, query, configVars>>

\* The video streamer latches the frame.
LatchFrame ==
    /\ "vid_streamer" \in up
    /\ pushed
    /\ pushed' = FALSE
    /\ UNCHANGED <<phase, at, up, query, converting, configVars>>

-----------------------------------------------------------------------------
Next ==
    \/ Start \/ StartPart \/ StartFails \/ StartDone
    \/ Stop \/ StopPart \/ StopDone
    \/ SyncTimer \/ CommandAndWait \/ SyncUICConfig
    \/ \E c \in Clients : \/ QueryDone(c) \/ SetCalibrationPoints(c)
                        \/ \E blob \in Blobs : LoadConfig(c, blob)
    \/ PushVidFrame \/ DoConversion \/ LatchFrame

Spec == Init /\ [][Next]_vars

\* Threads are scheduled; CmdClient completes every query while it runs (see
\* QueryService).  Joining the synchronizer is strongly fair: its stop event
\* is in the first batch after its callback returns, so the callback is not
\* entered over and over again.
FairSpec ==
    /\ Spec
    /\ WF_vars(StartPart \/ StartDone)
    /\ SF_vars(StopPart) /\ WF_vars(StopDone)
    /\ \A c \in Clients : WF_vars(QueryDone(c)) /\ WF_vars(SetCalibrationPoints(c))
    /\ WF_vars(DoConversion)

-----------------------------------------------------------------------------
\* Types; while Start runs, the parts that are up are those it has passed.
TypeOK ==
    /\ phase \in {"new", "starting", "up", "stopping", "stopped"}
    /\ at \in 1 .. Len(StartOrder) + 1
    /\ up \subseteq Parts
    /\ query \in [Clients -> BOOLEAN]
    /\ {converting, pushed, overlap} \subseteq BOOLEAN
    /\ phase \in {"new", "starting"} => up = {StartOrder[i] : i \in 1 .. at - 1}

\* When Stop has returned, after a Start that succeeded or failed half-way,
\* no thread is left that could call into the parts the destructor is about
\* to delete.
StoppedMeansQuiet ==
    phase = "stopped" =>
        up = {} /\ ~query["uvcuac"] /\ ~converting /\ callback["uic"] = None

\* Stop returns: each part is joined while what its thread waits for is still
\* running.
StopReturns == (phase = "stopping") ~> (phase = "stopped")

\* Nothing a damaged or foreign reply holds gets into a group of the
\* configuration, nor from there into the calibration of the touch screen.  The
\* one field that does take unchecked bytes, language_version_
\* (device-config.cpp:423-424), only does so together with a bank that was
\* checked: without a good reply nothing of it is loaded either.
ConfigTrusted ==
    /\ Garbage \notin {config[g] : g \in Groups} \cup {points}
    /\ config["language_version"] = Garbage => config["language_bank"] \in Values

\* When no callback is in progress, the touch screen is calibrated with the
\* points of the configuration that was loaded last, unless two callbacks, one
\* on the command client's thread and one on the application's, have overlapped.
CalibrationFollows ==
    (\A c \in Clients : callback[c] = None) => points = config["panel"] \/ overlap
=============================================================================
