--------------------------- MODULE StreamerProofs ---------------------------
(***************************************************************************)
(* Theorems about Streamer, for any groups of the configuration and any    *)
(* values they may hold, and about AudioStreamer, which it owns.           *)
(***************************************************************************)
EXTENDS Streamer, AudioStreamer, SequenceTheorems, TLAPS

-----------------------------------------------------------------------------
(* LoadFromBlob.                                                           *)

\* Every group has one to three copies.
LEMMA CopiesRange == \A g \in Groups : Copies[g] \in 1 .. 3
<1>1. \A g \in DOMAIN Copies : Copies[g] \in 1 .. 3
  BY DEF Copies
<1> QED BY <1>1, ConfigAssumption

\* In a reply of the right layout a copy with a good CRC holds a good value.
LEMMA GoodCopies ==
  ASSUME NEW blob \in Blobs, blob.layout, NEW g \in Groups, NEW k \in Good(blob, g)
  PROVE  blob.copy[<<g, k>>].val \in Values
<1> DEFINE Places == {p \in Groups \X (1 .. 3) : p[2] <= Copies[p[1]]}
<1>1. blob.copy \in [Places -> CopiesOf(TRUE)]
  <2>1. PICK l \in BOOLEAN : blob \in [layout : {l}, copy : [Places -> CopiesOf(l)],
                                      version : Values \cup {Garbage}]
    BY Zenon DEF Blobs
  <2>2. blob.layout = l /\ blob.copy \in [Places -> CopiesOf(l)]
    BY <2>1
  <2>3. l = TRUE
    BY <2>1, <2>2, Zenon
  <2> QED BY <2>2, <2>3
<1>2. k \in 1 .. Copies[g] /\ blob.copy[<<g, k>>].crc
  BY DEF Good
<1>3. <<g, k>> \in Places
  BY <1>2, CopiesRange
<1>4. blob.copy[<<g, k>>] \in CopiesOf(TRUE)
  BY <1>1, <1>3
<1> QED BY <1>2, <1>4 DEF CopiesOf

\* A configuration whose groups hold good values or the constructor's, and
\* whose version came with a good bank if it was loaded at all.
Sound(cfg) ==
    /\ cfg \in [Fields -> Values \cup {Default, Garbage}]
    /\ \A g \in Groups : cfg[g] \in Values \cup {Default}
    /\ cfg["language_version"] # Default => cfg["language_bank"] \in Values

\* The version is no group.
LEMMA FieldFacts == "language_version" \notin Groups /\ "language_bank" \in Groups
<1>1. "language_version" \notin DOMAIN Copies
  BY DEF Copies, Page1, Twice, Thrice, Page3
<1> QED BY <1>1, ConfigAssumption

LEMMA VersionBytes ==
  ASSUME NEW blob \in Blobs
  PROVE  blob.version \in Values \cup {Garbage}
<1> DEFINE Places == {p \in Groups \X (1 .. 3) : p[2] <= Copies[p[1]]}
<1>1. PICK l \in BOOLEAN : blob \in [layout : {l}, copy : [Places -> CopiesOf(l)],
                                    version : Values \cup {Garbage}]
  BY Zenon DEF Blobs
<1> HIDE DEF Places
<1> QED BY <1>1

\* What is loaded for a group is a good value or what was there before.
LEMMA Loaded ==
  ASSUME NEW cfg, Sound(cfg), NEW blob \in Blobs
  PROVE  Sound(LoadFromBlob(cfg, blob))
<1>1. CASE ~blob.layout
  BY <1>1 DEF LoadFromBlob
<1>2. CASE blob.layout
  <2>1. ASSUME NEW g \in Groups
        PROVE  /\ LoadGroup(cfg, blob, g) \in Values \cup {Default}
               /\ cfg[g] \in Values \/ Good(blob, g) # {} => LoadGroup(cfg, blob, g) \in Values
    <3>1. CASE Good(blob, g) = {}
      BY <3>1 DEF LoadGroup, Sound
    <3>2. CASE Good(blob, g) # {}
      <4>1. Good(blob, g) \subseteq 1 .. 3
        BY CopiesRange DEF Good
      <4>2. \E x \in Good(blob, g) : \A y \in Good(blob, g) : x =< y
        BY <3>2, <4>1
      <4>3. Min(Good(blob, g)) \in Good(blob, g)
        BY <4>2 DEF Min
      <4>4. blob.copy[<<g, Min(Good(blob, g))>>].val \in Values
        BY <1>2, <4>3, GoodCopies
      <4> QED BY <3>2, <4>4 DEF LoadGroup
    <3> QED BY <3>1, <3>2
  <2> DEFINE new == LoadFromBlob(cfg, blob)
             vsn == LoadVersion(cfg, blob)
  <2>2. /\ new = [f \in Fields |-> IF f = "language_version" THEN vsn
                                  ELSE LoadGroup(cfg, blob, f)]
        /\ new["language_version"] = vsn
        /\ \A g \in Groups : new[g] = LoadGroup(cfg, blob, g)
    BY <1>2, FieldFacts DEF LoadFromBlob, Fields
  <2>3. vsn \in Values \cup {Default, Garbage}
    BY VersionBytes DEF LoadVersion, Sound, Fields
  <2> HIDE DEF new, vsn
  <2>4. new \in [Fields -> Values \cup {Default, Garbage}]
    BY <2>1, <2>2, <2>3 DEF Fields
  <2>5. vsn # Default => new["language_bank"] \in Values
    BY <2>1, <2>2, FieldFacts DEF vsn, LoadVersion, Sound
  <2>6. Sound(new)
    BY <2>1, <2>2, <2>4, <2>5 DEF Sound
  <2> QED BY <2>6 DEF new
<1> QED BY <1>1, <1>2

-----------------------------------------------------------------------------
(* The configuration and the calibration of the touch screen.              *)
Trusted == Values \cup {Default}

ConfigTyped ==
    /\ Sound(config)
    /\ points \in Trusted
    /\ callback \in [Clients -> {None} \cup {<<v>> : v \in Trusted}]
    /\ overlap \in BOOLEAN

\* Unless callbacks have overlapped, at most one is in progress, and it is about
\* to set the points of the configuration.
Calibrating ==
    \/ overlap
    \/ /\ \A c, d \in Clients : callback[c] # None /\ callback[d] # None => c = d
       /\ \A c \in Clients : callback[c] # None => callback[c] = <<config["panel"]>>
       /\ (\A c \in Clients : callback[c] = None) => points = config["panel"]

ConfigInv == ConfigTyped /\ Calibrating

LEMMA ConfigInvInit == ASSUME Init PROVE ConfigInv
  BY ConfigAssumption, FieldFacts DEF Init, DefaultConfig, ConfigInv, ConfigTyped, Calibrating,
     Trusted, Clients, None, Sound, Fields

LEMMA LoadStep ==
  ASSUME ConfigInv, NEW c \in Clients, NEW blob \in Blobs, LoadConfig(c, blob)
  PROVE  ConfigInv'
<1>1. Sound(config')
  BY Loaded DEF ConfigInv, ConfigTyped, LoadConfig
<1>2. config'["panel"] \in Trusted
  BY <1>1, ConfigAssumption DEF Sound, Trusted
<1>3. callback' = [callback EXCEPT ![c] = <<config'["panel"]>>]
  BY DEF LoadConfig, PointsOf
<1>4. overlap' = (overlap \/ \E d \in Clients : callback[d] # None)
      /\ points' = points
  BY DEF LoadConfig
<1>5. ConfigTyped'
  BY <1>1, <1>2, <1>3, <1>4 DEF ConfigInv, ConfigTyped
<1>6. Calibrating'
  <2>1. CASE overlap'
    BY <2>1 DEF Calibrating
  <2>2. CASE ~overlap'
    <3>1. \A d \in Clients : callback[d] = None
      BY <1>4, <2>2
    <3>2. \A d \in Clients : d # c => callback'[d] = None
      BY <1>3, <3>1 DEF ConfigInv, ConfigTyped
    <3>3. callback'[c] = <<config'["panel"]>> /\ callback'[c] # None
      BY <1>3 DEF ConfigInv, ConfigTyped, None
    <3> QED BY <3>2, <3>3 DEF Calibrating
  <2> QED BY <2>1, <2>2
<1> QED BY <1>5, <1>6 DEF ConfigInv

LEMMA CalibrateStep ==
  ASSUME ConfigInv, NEW c \in Clients, SetCalibrationPoints(c)
  PROVE  ConfigInv'
<1>1. /\ callback[c] # None /\ points' = callback[c][1]
      /\ callback' = [callback EXCEPT ![c] = None]
      /\ config' = config /\ overlap' = overlap
  BY DEF SetCalibrationPoints
<1>2. PICK v \in Trusted : callback[c] = <<v>>
  BY <1>1 DEF ConfigInv, ConfigTyped
<1>3. points' = v
  BY <1>1, <1>2
<1>4. ConfigTyped'
  BY <1>1, <1>3 DEF ConfigInv, ConfigTyped
<1>5. Calibrating'
  <2>1. CASE overlap
    BY <1>1, <2>1 DEF Calibrating
  <2>2. CASE ~overlap
    <3>1. <<v>> = <<config["panel"]>>
      BY <1>1, <1>2, <2>2 DEF ConfigInv, Calibrating
    <3>2. points' = config["panel"]
      BY <1>3, <3>1
    <3>3. \A d \in Clients : callback'[d] = None
      BY <1>1, <2>2 DEF ConfigInv, ConfigTyped, Calibrating
    <3> QED BY <1>1, <3>2, <3>3 DEF Calibrating
  <2> QED BY <2>1, <2>2
<1> QED BY <1>4, <1>5 DEF ConfigInv

LEMMA ConfigQuiet == ASSUME ConfigInv, UNCHANGED configVars PROVE ConfigInv'
  BY DEF configVars, ConfigInv, ConfigTyped, Calibrating

LEMMA ConfigInvNext == ASSUME ConfigInv, [Next]_vars PROVE ConfigInv'
<1>1. ASSUME NEW c \in Clients, NEW blob \in Blobs, LoadConfig(c, blob) PROVE ConfigInv'
  BY <1>1, LoadStep
<1>2. ASSUME NEW c \in Clients, SetCalibrationPoints(c) PROVE ConfigInv'
  BY <1>2, CalibrateStep
<1>3. ASSUME NEW c \in Clients, QueryDone(c) PROVE ConfigInv'
  BY <1>3, ConfigQuiet DEF QueryDone
<1>4. CASE Start \/ StartPart \/ StartFails \/ StartDone
  BY <1>4, ConfigQuiet DEF Start, StartPart, StartFails, StartDone
<1>5. CASE Stop \/ StopPart \/ StopDone
  BY <1>5, ConfigQuiet DEF Stop, StopPart, StopDone
<1>6. CASE SyncTimer \/ CommandAndWait \/ SyncUICConfig
  BY <1>6, ConfigQuiet DEF SyncTimer, CommandAndWait, SyncUICConfig
<1>7. CASE PushVidFrame \/ DoConversion \/ LatchFrame
  BY <1>7, ConfigQuiet DEF PushVidFrame, DoConversion, LatchFrame
<1>8. CASE UNCHANGED vars
  BY <1>8, ConfigQuiet DEF vars
<1> QED BY <1>1, <1>2, <1>3, <1>4, <1>5, <1>6, <1>7, <1>8 DEF Next

\* However a reply is damaged, and on whichever threads replies are handled,
\* LoadFromBlob (device-config.cpp:99-478) lets only checked values into the
\* groups of the configuration and the touch screen's calibration; the unchecked
\* bytes of language_version_ (lines 423-424) come with a checked bank only.
THEOREM ConfigAlwaysTrusted == Spec => []ConfigTrusted
<1>1. Init => ConfigInv BY ConfigInvInit
<1>2. ConfigInv /\ [Next]_vars => ConfigInv' BY ConfigInvNext
<1>3. ConfigInv => ConfigTrusted
  BY ConfigAssumption DEF ConfigInv, ConfigTyped, ConfigTrusted, Trusted, Sound
<1> QED BY <1>1, <1>2, <1>3, PTL DEF Spec

\* The calibration is that of the configuration loaded last, unless the
\* callbacks of streamer.cpp:214-230 have overlapped on two threads.
THEOREM CalibrationAlwaysFollows == Spec => []CalibrationFollows
<1>1. Init => ConfigInv BY ConfigInvInit
<1>2. ConfigInv /\ [Next]_vars => ConfigInv' BY ConfigInvNext
<1>3. ConfigInv => CalibrationFollows
  BY DEF ConfigInv, Calibrating, CalibrationFollows
<1> QED BY <1>1, <1>2, <1>3, PTL DEF Spec

-----------------------------------------------------------------------------
(* Start and Stop.                                                         *)
LEMMA Lengths == Len(StartOrder) = 7 /\ Len(StopOrder) = 7
  BY DEF StartOrder, StopOrder

LEMMA PartsStarted == \A i \in 1 .. 7 : StartOrder[i] \in Parts
  BY DEF Parts, StartOrder

\* Start and Stop know the same parts.
LEMMA PartsStopped == \A p \in Parts : \E i \in 1 .. 7 : p = StopOrder[i]
<1>1. Parts = {"msg_server", "aud_streamer", "cmd_client", "vid_converter",
               "vid_streamer", "input_receiver", "uvcuac_synchronizer"}
  BY DEF Parts, StartOrder
<1>2. /\ StopOrder[1] = "uvcuac_synchronizer" /\ StopOrder[2] = "input_receiver"
      /\ StopOrder[3] = "vid_streamer" /\ StopOrder[4] = "vid_converter"
      /\ StopOrder[5] = "cmd_client" /\ StopOrder[6] = "aud_streamer"
      /\ StopOrder[7] = "msg_server"
  BY DEF StopOrder
<1> QED BY <1>1, <1>2

LEMMA TypeInit == ASSUME Init PROVE TypeOK
<1>1. up = {StartOrder[i] : i \in 1 .. at - 1}
  BY DEF Init
<1>2. query \in [Clients -> BOOLEAN] /\ {converting, pushed, overlap} \subseteq BOOLEAN
  BY DEF Init
<1>3. phase = "new" /\ at \in 1 .. Len(StartOrder) + 1 /\ up \subseteq Parts
  BY Lengths DEF Init
<1> QED BY <1>1, <1>2, <1>3, Zenon DEF TypeOK

LEMMA TypeNext == ASSUME TypeOK, [Next]_vars PROVE TypeOK'
<1> USE Lengths
<1>1. CASE StartPart
  <2>1. phase = "starting" /\ phase' = "starting" /\ at \in 1 .. 7 /\ at' = at + 1
    BY <1>1 DEF StartPart, TypeOK
  <2>2. up = {StartOrder[i] : i \in 1 .. at - 1} /\ up' = up \cup {StartOrder[at]}
    BY <1>1 DEF StartPart, TypeOK
  <2>3. up' = {StartOrder[i] : i \in 1 .. at' - 1}
    BY <2>1, <2>2
  <2>4. up' \subseteq Parts
    BY <2>1, <2>2, PartsStarted DEF TypeOK
  <2>5. UNCHANGED <<query, converting, pushed, overlap>>
    BY <1>1 DEF StartPart, frameVars, configVars
  <2> QED BY <2>1, <2>3, <2>4, <2>5 DEF TypeOK
<1>2. CASE Start \/ StartFails \/ StartDone
  <2>1. CASE Start
    <3>1. UNCHANGED <<at, up, query, converting, pushed, overlap>>
      BY <2>1 DEF Start, frameVars, configVars
    <3>2. phase = "new" /\ phase' = "starting"
      BY <2>1 DEF Start
    <3>3. up' = {StartOrder[i] : i \in 1 .. at' - 1}
      BY <3>1, <3>2 DEF TypeOK
    <3> QED BY <3>1, <3>2, <3>3 DEF TypeOK
  <2>2. CASE StartFails
    BY <2>2 DEF StartFails, TypeOK, frameVars, configVars
  <2>3. CASE StartDone
    BY <2>3 DEF StartDone, TypeOK, frameVars, configVars
  <2> QED BY <1>2, <2>1, <2>2, <2>3
<1>3. CASE Stop \/ StopPart \/ StopDone
  BY <1>3 DEF Stop, StopPart, StopDone, TypeOK, frameVars, configVars
<1>4. CASE SyncTimer \/ CommandAndWait \/ SyncUICConfig
  BY <1>4 DEF SyncTimer, CommandAndWait, SyncUICConfig, TypeOK, frameVars, configVars
<1>5. ASSUME NEW c \in Clients, QueryDone(c) PROVE TypeOK'
  BY <1>5 DEF QueryDone, TypeOK, frameVars, configVars
<1>6. ASSUME NEW c \in Clients, NEW blob \in Blobs, LoadConfig(c, blob) PROVE TypeOK'
  <2>1. overlap' \in BOOLEAN
    BY <1>6, Zenon DEF LoadConfig, TypeOK
  <2> QED BY <1>6, <2>1 DEF LoadConfig, TypeOK, frameVars
<1>7. ASSUME NEW c \in Clients, SetCalibrationPoints(c) PROVE TypeOK'
  BY <1>7 DEF SetCalibrationPoints, TypeOK, frameVars
<1>8. CASE PushVidFrame \/ DoConversion \/ LatchFrame
  BY <1>8 DEF PushVidFrame, DoConversion, LatchFrame, TypeOK, configVars
<1>9. CASE UNCHANGED vars
  BY <1>9 DEF vars, TypeOK, frameVars, configVars
<1> QED BY <1>1, <1>2, <1>3, <1>4, <1>5, <1>6, <1>7, <1>8, <1>9 DEF Next

\* What Stop has passed does not come back: the part is down, and so is what
\* its thread, the only one to start it, was doing.
Passed ==
    /\ phase \in {"stopping", "stopped"} =>
         /\ \A i \in 1 .. 7 : i < at => StopOrder[i] \notin up
         /\ at > 1 => ~query["uvcuac"]
         /\ at > 4 => ~converting
         /\ at > 5 => callback["uic"] = None
    /\ phase = "stopped" => at = 8

LifeInv == TypeOK /\ ConfigInv /\ Passed

LEMMA StopStep == ASSUME LifeInv, StopPart PROVE Passed'
<1>1. /\ phase = "stopping" /\ phase' = "stopping" /\ at \in 1 .. 7 /\ at' = at + 1
      /\ up' = up \ {StopOrder[at]}
      /\ UNCHANGED <<query, converting, callback>>
  BY Lengths DEF StopPart, LifeInv, TypeOK, frameVars, configVars
<1>2. /\ \A i \in 1 .. 7 : i < at => StopOrder[i] \notin up
      /\ at > 1 => ~query["uvcuac"]
      /\ at > 4 => ~converting
      /\ at > 5 => callback["uic"] = None
  BY <1>1 DEF LifeInv, Passed
<1>3. \A i \in 1 .. 7 : i < at' => StopOrder[i] \notin up'
  BY <1>1, <1>2
<1>4. /\ at = 1 => ~query["uvcuac"]
      /\ at = 4 => ~converting
      /\ at = 5 => callback["uic"] = None
  BY DEF StopPart, StopReturnsFor, StopOrder
<1> QED BY <1>1, <1>2, <1>3, <1>4 DEF Passed

\* The other threads' steps while Stop is under way.
LEMMA OthersStep ==
  ASSUME LifeInv, UNCHANGED <<phase, at, up>>,
         query'["uvcuac"] => query["uvcuac"] \/ "uvcuac_synchronizer" \in up,
         phase \in {"stopping", "stopped"} /\ converting' => converting,
         callback'["uic"] # None => callback["uic"] # None \/ "cmd_client" \in up
  PROVE  Passed'
<1>1. at \in 1 .. 8
  BY Lengths DEF LifeInv, TypeOK
<1>2. StopOrder[1] = "uvcuac_synchronizer" /\ StopOrder[5] = "cmd_client"
  BY DEF StopOrder
<1> QED BY <1>1, <1>2 DEF LifeInv, Passed

LEMMA PassedNext == ASSUME OneThread, LifeInv, [Next]_vars PROVE Passed'
<1> USE DEF frameVars, configVars
<1>0. /\ at \in 1 .. 8 /\ query \in [Clients -> BOOLEAN]
      /\ callback \in [Clients -> {None} \cup {<<v>> : v \in Trusted}]
      /\ phase \in {"new", "starting", "up", "stopping", "stopped"}
  BY Lengths DEF LifeInv, TypeOK, ConfigInv, ConfigTyped
<1>1. CASE Start \/ StartPart \/ StartFails \/ StartDone
  BY <1>0, <1>1 DEF Start, StartPart, StartFails, StartDone, Passed
<1>2. CASE Stop
  BY <1>0, <1>2 DEF Stop, Passed
<1>3. CASE StopPart
  BY <1>3, StopStep
<1>4. CASE StopDone
  BY <1>0, <1>4, Lengths DEF StopDone, LifeInv, Passed
<1>5. CASE SyncTimer \/ CommandAndWait \/ SyncUICConfig
  BY <1>0, <1>5, OthersStep DEF SyncTimer, CommandAndWait, SyncUICConfig, Clients
<1>6. ASSUME NEW c \in Clients, QueryDone(c) PROVE Passed'
  BY <1>0, <1>6, OthersStep DEF QueryDone, Clients
<1>7. ASSUME NEW c \in Clients, NEW blob \in Blobs, LoadConfig(c, blob) PROVE Passed'
  BY <1>0, <1>7, OthersStep DEF LoadConfig, Clients
<1>8. ASSUME NEW c \in Clients, SetCalibrationPoints(c) PROVE Passed'
  BY <1>0, <1>8, OthersStep DEF SetCalibrationPoints, Clients
<1>9. CASE PushVidFrame
  BY <1>0, <1>9, OthersStep DEF PushVidFrame
<1>10. CASE DoConversion \/ LatchFrame
  BY <1>0, <1>10, OthersStep DEF DoConversion, LatchFrame
<1>11. CASE UNCHANGED vars
  BY <1>11, OthersStep DEF vars
<1> QED
  BY <1>1, <1>2, <1>3, <1>4, <1>5, <1>6, <1>7, <1>8, <1>9, <1>10, <1>11 DEF Next

LEMMA LifeInvInit == ASSUME Init PROVE LifeInv
<1>1. Passed BY DEF Init, Passed
<1> QED BY <1>1, TypeInit, ConfigInvInit DEF LifeInv

LEMMA LifeInvNext == ASSUME OneThread, LifeInv, [Next]_vars PROVE LifeInv'
  BY TypeNext, ConfigInvNext, PassedNext DEF LifeInv

\* The types of TypeOK, and that Start has brought up exactly what it has
\* passed (streamer.cpp:88-114).
THEOREM TypeCorrect == Spec => []TypeOK
<1>1. Init => TypeOK BY TypeInit
<1>2. TypeOK /\ [Next]_vars => TypeOK' BY TypeNext
<1> QED BY <1>1, <1>2, PTL DEF Spec

\* An application of one thread finds nothing running when Stop
\* (streamer.cpp:116-124) has returned, wherever Start failed.
THEOREM StopLeavesQuiet == ASSUME OneThread PROVE Spec => []StoppedMeansQuiet
<1>1. Init => LifeInv
  BY LifeInvInit
<1>2. LifeInv /\ [Next]_vars => LifeInv'
  BY OneThread, LifeInvNext
<1>3. LifeInv => StoppedMeansQuiet
  <2> SUFFICES ASSUME LifeInv, phase = "stopped"
               PROVE  up = {} /\ ~query["uvcuac"] /\ ~converting /\ callback["uic"] = None
    BY DEF StoppedMeansQuiet
  <2>1. /\ \A i \in 1 .. 7 : StopOrder[i] \notin up
        /\ ~query["uvcuac"] /\ ~converting /\ callback["uic"] = None
    BY DEF LifeInv, Passed
  <2>2. up = {}
    BY <2>1, PartsStopped DEF LifeInv, TypeOK
  <2> QED BY <2>1, <2>2
<1> QED BY <1>1, <1>2, <1>3, PTL DEF Spec

-----------------------------------------------------------------------------
(* Who waits for a query.  The command client is started before the        *)
(* synchronizer and stopped after it, and an application of one thread     *)
(* does not call Stop while it waits.                                      *)
Served ==
    /\ phase = "up" => "cmd_client" \in up
    /\ query["app"] => phase = "up"
    /\ "uvcuac_synchronizer" \in up \/ query["uvcuac"] => "cmd_client" \in up

LEMMA Places ==
  /\ \A i \in 1 .. 7 : StartOrder[i] = "uvcuac_synchronizer" => i = 7
  /\ StartOrder[3] = "cmd_client"
  /\ StopOrder[1] = "uvcuac_synchronizer"
  /\ \A i \in 1 .. 7 : StopOrder[i] = "cmd_client" => i = 5
  BY DEF StartOrder, StopOrder

LEMMA ServedInit == ASSUME Init PROVE Served
  BY DEF Init, Served, Clients

LEMMA ServedNext == ASSUME OneThread, LifeInv, Served, [Next]_vars PROVE Served'
<1>0. at \in 1 .. 8 /\ query \in [Clients -> BOOLEAN]
  BY Lengths DEF LifeInv, TypeOK
<1>1. CASE StartPart
  <2>1. /\ phase = "starting" /\ phase' = phase /\ at \in 1 .. 7 /\ query' = query
        /\ up' = up \cup {StartOrder[at]}
    BY <1>0, <1>1, Lengths DEF StartPart
  <2>2. at = 7 => "cmd_client" \in up
    <3> SUFFICES ASSUME at = 7 PROVE StartOrder[3] \in up
      BY Places
    <3>1. up = {StartOrder[i] : i \in 1 .. at - 1}
      BY <2>1 DEF LifeInv, TypeOK
    <3> QED BY <3>1
  <2> QED BY <2>1, <2>2, Places DEF Served
<1>2. CASE StartDone
  <2>1. /\ at = 8 /\ phase = "starting" /\ up' = up
        /\ query' = [query EXCEPT !["uic"] = TRUE]
    BY <1>0, <1>2, Lengths DEF StartDone
  <2>2. StartOrder[3] \in {StartOrder[i] : i \in 1 .. 7}
    OBVIOUS
  <2>3. "cmd_client" \in up
    BY <2>1, <2>2, Places DEF LifeInv, TypeOK
  <2>4. query'["app"] = query["app"] /\ query'["uvcuac"] = query["uvcuac"]
    BY <1>0, <2>1 DEF Clients
  <2> QED BY <2>1, <2>3, <2>4 DEF Served
<1>3. CASE Start \/ StartFails \/ Stop \/ StopDone
  <2>1. /\ up' = up /\ query' = query
        /\ phase' # "up" /\ (phase = "up" => ~query["app"])
    BY <1>3 DEF Start, StartFails, Stop, StopDone
  <2> QED BY <2>1 DEF Served
<1>4. CASE StopPart
  <2>1. /\ phase = "stopping" /\ phase' = phase /\ at \in 1 .. 7 /\ query' = query
        /\ up' = up \ {StopOrder[at]}
        /\ at = 1 => ~query["uvcuac"]
    BY <1>0, <1>4, Lengths, Places DEF StopPart, StopReturnsFor
  <2>2. at > 1 => "uvcuac_synchronizer" \notin up /\ ~query["uvcuac"]
    BY <2>1, Places DEF LifeInv, Passed
  <2> QED BY <2>1, <2>2, Places DEF Served
<1>5. CASE SyncTimer \/ CommandAndWait \/ SyncUICConfig
  BY <1>0, <1>5 DEF SyncTimer, CommandAndWait, SyncUICConfig, Served, Clients
<1>6. ASSUME NEW c \in Clients, NEW blob \in Blobs, LoadConfig(c, blob) PROVE Served'
  BY <1>0, <1>6 DEF LoadConfig, Served, Clients
<1>7. ASSUME NEW c \in Clients, QueryDone(c) PROVE Served'
  BY <1>0, <1>7 DEF QueryDone, Served, Clients
<1>8. ASSUME NEW c \in Clients, SetCalibrationPoints(c) PROVE Served'
  BY <1>8 DEF SetCalibrationPoints, Served
<1>9. CASE PushVidFrame \/ DoConversion \/ LatchFrame \/ UNCHANGED vars
  BY <1>9 DEF PushVidFrame, DoConversion, LatchFrame, vars, Served
<1> QED BY <1>1, <1>2, <1>3, <1>4, <1>5, <1>6, <1>7, <1>8, <1>9 DEF Next

\* A thread that waits in CmdClient::Query waits for a command client that
\* runs, which calls every query back: Stop stops the synchronizer, joined
\* while it may be waiting, before the command client (streamer.cpp:88-124).
\* With two application threads this is lost (streamer.cpp:121).
THEOREM WaitsAreServed ==
  ASSUME OneThread
  PROVE  Spec => [](\A c \in {"uvcuac", "app"} : query[c] => "cmd_client" \in up)
<1> DEFINE Inv == LifeInv /\ Served
<1>1. Init => Inv
  BY LifeInvInit, ServedInit
<1>2. Inv /\ [Next]_vars => Inv'
  BY OneThread, LifeInvNext, ServedNext
<1>3. Inv => \A c \in {"uvcuac", "app"} : query[c] => "cmd_client" \in up
  BY DEF Served
<1> QED BY <1>1, <1>2, <1>3, PTL DEF Spec

-----------------------------------------------------------------------------
(***************************************************************************)
(* AudioStreamer, for any size of packets and pushes, any limit of the     *)
(* queue and any number of samples.                                        *)
(***************************************************************************)
-----------------------------------------------------------------------------
(* The queue's two operations, element by element.                         *)

\* The samples of one push are a sequence of their numbers.
LEMMA PushedSeq ==
  ASSUME NEW first \in Nat, NEW n \in Nat
  PROVE  LET fresh == [k \in 1 .. n |-> first + k - 1]
         IN  /\ fresh \in Seq(Int) /\ Len(fresh) = n
             /\ \A k \in 1 .. n : fresh[k] = first + k - 1
<1> DEFINE fresh == [k \in 1 .. n |-> first + k - 1]
<1>1. fresh \in Seq(Int) /\ Len(fresh) = n
  BY SMT
<1> QED BY <1>1

\* A push appends all of its samples or none.
LEMMA Enqueued ==
  ASSUME NEW queue \in Seq(Int), NEW first \in Nat, NEW n \in Nat
  PROVE  LET after == Enqueue(queue, first, n)
         IN  \/ Len(queue) >= Limit /\ after = queue
             \/ /\ Len(queue) < Limit
                /\ after \in Seq(Int) /\ Len(after) = Len(queue) + n
                /\ \A i \in 1 .. Len(queue) : after[i] = queue[i]
                /\ \A i \in Len(queue) + 1 .. Len(queue) + n :
                     after[i] = first + (i - Len(queue)) - 1
<1> DEFINE fresh == [k \in 1 .. n |-> first + k - 1]
<1>1. fresh \in Seq(Int) /\ Len(fresh) = n
      /\ \A k \in 1 .. n : fresh[k] = first + k - 1
  BY PushedSeq
<1>2. Len(queue) \in Nat
  BY LenProperties
<1>3. CASE Len(queue) < Limit
  <2>1. Enqueue(queue, first, n) = queue \o fresh
    BY <1>3 DEF Enqueue
  <2> HIDE DEF fresh
  <2>2. /\ queue \o fresh \in Seq(Int)
        /\ Len(queue \o fresh) = Len(queue) + Len(fresh)
        /\ \A i \in 1 .. Len(queue) + Len(fresh) : (queue \o fresh)[i] =
             IF i <= Len(queue) THEN queue[i] ELSE fresh[i - Len(queue)]
    BY <1>1, ConcatProperties
  <2>3. \A i \in 1 .. Len(queue) : (queue \o fresh)[i] = queue[i]
    BY <1>1, <1>2, <2>2
  <2>4. \A i \in Len(queue) + 1 .. Len(queue) + n :
          (queue \o fresh)[i] = first + (i - Len(queue)) - 1
    <3> SUFFICES ASSUME NEW i \in Len(queue) + 1 .. Len(queue) + n
                 PROVE  (queue \o fresh)[i] = first + (i - Len(queue)) - 1
      OBVIOUS
    <3>1. i - Len(queue) \in 1 .. n
      BY <1>2
    <3>2. (queue \o fresh)[i] = fresh[i - Len(queue)]
      BY <1>1, <1>2, <2>2
    <3> QED BY <1>1, <3>1, <3>2
  <2> QED BY <1>1, <1>3, <2>1, <2>2, <2>3, <2>4
<1>4. CASE ~(Len(queue) < Limit)
  BY <1>2, <1>4, AudioAssumption DEF Enqueue
<1> QED BY <1>3, <1>4

\* A packet takes the first Count samples and leaves the others.
LEMMA Popped ==
  ASSUME samples_ \in Seq(Int), ~RunsLow
  PROVE  /\ Len(samples_) \in Nat /\ Count \in Nat \ {0} /\ Len(samples_) >= 2 * Count
         /\ TakenFrom \in Seq(Int) /\ Len(TakenFrom) = Count
         /\ \A i \in 1 .. Count : TakenFrom[i] = samples_[i]
         /\ LeftOver \in Seq(Int) /\ Len(LeftOver) = Len(samples_) - Count
         /\ \A i \in 1 .. Len(LeftOver) : LeftOver[i] = samples_[i + Count]
<1>1. /\ Len(samples_) \in Nat /\ Count \in Nat \ {0} /\ Len(samples_) >= 2 * Count
      /\ \A i \in 1 .. Len(samples_) : samples_[i] \in Int
  BY AudioAssumption, LenProperties, ElementOfSeq DEF RunsLow
<1>2. /\ TakenFrom \in Seq(Int) /\ Len(TakenFrom) = Count
      /\ \A i \in 1 .. Count : TakenFrom[i] = samples_[i]
  <2>1. \A i \in 1 .. Count : samples_[i] \in Int
    BY <1>1
  <2>2. /\ SubSeq(samples_, 1, Count) \in Seq(Int)
        /\ Len(SubSeq(samples_, 1, Count)) = IF 1 <= Count THEN Count - 1 + 1 ELSE 0
        /\ \A i \in 1 .. Count - 1 + 1 : SubSeq(samples_, 1, Count)[i] = samples_[1 + i - 1]
    BY <1>1, <2>1, SubSeqProperties
  <2> QED BY <1>1, <2>2 DEF TakenFrom
<1>3. /\ LeftOver \in Seq(Int) /\ Len(LeftOver) = Len(samples_) - Count
      /\ \A i \in 1 .. Len(LeftOver) : LeftOver[i] = samples_[i + Count]
  <2> DEFINE m == Count + 1
             n == Len(samples_)
  <2>1. m \in Int /\ n \in Int /\ \A i \in m .. n : samples_[i] \in Int
    BY <1>1
  <2> HIDE DEF m, n
  <2>2. /\ SubSeq(samples_, m, n) \in Seq(Int)
        /\ Len(SubSeq(samples_, m, n)) = IF m <= n THEN n - m + 1 ELSE 0
        /\ \A i \in 1 .. n - m + 1 : SubSeq(samples_, m, n)[i] = samples_[m + i - 1]
    BY <2>1, SubSeqProperties
  <2> QED BY <1>1, <2>2 DEF LeftOver, m, n
<1> QED BY <1>1, <1>2, <1>3

-----------------------------------------------------------------------------
(* What waits is in order and was pushed before.                           *)
QueueTyped ==
    /\ samples_ \in Seq(Int) /\ made \in 0 .. MaxSamples
    /\ played \in 0 .. made
    /\ \A i \in 1 .. Len(samples_) : samples_[i] \in 1 .. made

OrderInv == QueueTyped /\ InOrder

LEMMA OrderInit == ASSUME AudioInit PROVE OrderInv
  BY AudioAssumption DEF AudioInit, OrderInv, QueueTyped, InOrder

LEMMA OrderPush ==
  ASSUME OrderInv, NEW n \in PushSizes, PushSamples(n)
  PROVE  OrderInv'
<1>1. /\ samples_ \in Seq(Int) /\ made \in Nat /\ n \in Nat /\ Len(samples_) \in Nat
      /\ made' = made + n /\ made' \in 0 .. MaxSamples /\ played' = played
  BY AudioAssumption, LenProperties DEF OrderInv, QueueTyped, PushSamples
<1>2. samples_' = Enqueue(samples_, made + 1, n)
  BY DEF PushSamples
<1>3. CASE samples_' = samples_
  BY <1>1, <1>3 DEF OrderInv, QueueTyped, InOrder
<1>4. CASE /\ samples_' \in Seq(Int) /\ Len(samples_') = Len(samples_) + n
           /\ \A i \in 1 .. Len(samples_) : samples_'[i] = samples_[i]
           /\ \A i \in Len(samples_) + 1 .. Len(samples_) + n :
                samples_'[i] = made + 1 + (i - Len(samples_)) - 1
  <2> DEFINE m == Len(samples_)
  <2>1. \A i \in 1 .. m : samples_[i] \in 1 .. made
    BY DEF OrderInv, QueueTyped
  <2>2. \A i \in 1 .. m + n :
          samples_'[i] = IF i <= m THEN samples_[i] ELSE made + (i - m)
    BY <1>1, <1>4
  <2>3. \A i \in 1 .. Len(samples_') : samples_'[i] \in 1 .. made'
    <3> SUFFICES ASSUME NEW i \in 1 .. m + n PROVE samples_'[i] \in 1 .. made'
      BY <1>4
    <3>1. CASE i <= m
      <4>1. i \in 1 .. m
        BY <1>1, <3>1
      <4>2. samples_'[i] = samples_[i] /\ samples_[i] \in 1 .. made
        BY <1>4, <2>1, <4>1
      <4> QED BY <1>1, <4>2
    <3>2. CASE i > m
      BY <1>1, <2>2, <3>2
    <3> QED BY <1>1, <3>1, <3>2
  <2>4. \A i \in 1 .. Len(samples_') - 1 : samples_'[i] < samples_'[i + 1]
    <3> SUFFICES ASSUME NEW i \in 1 .. m + n - 1 PROVE samples_'[i] < samples_'[i + 1]
      BY <1>1, <1>4
    <3>0. i \in 1 .. m + n /\ i + 1 \in 1 .. m + n
      BY <1>1
    <3>1. CASE i < m
      <4>1. i \in 1 .. m /\ i + 1 \in 1 .. m /\ i \in 1 .. m - 1
        BY <1>1, <3>1
      <4>2. samples_'[i] = samples_[i] /\ samples_'[i + 1] = samples_[i + 1]
        BY <1>4, <4>1
      <4>3. samples_[i] < samples_[i + 1]
        BY <4>1 DEF OrderInv, InOrder
      <4> QED BY <4>2, <4>3
    <3>2. CASE i = m
      <4>1. samples_'[i] = samples_[i] /\ samples_[i] \in 1 .. made
        BY <1>1, <1>4, <2>1, <3>2
      <4>2. samples_'[i + 1] = made + 1
        BY <1>1, <2>2, <3>0, <3>2
      <4> QED BY <1>1, <4>1, <4>2
    <3>3. CASE i > m
      <4>1. samples_'[i] = made + (i - m) /\ samples_'[i + 1] = made + (i + 1 - m)
        BY <1>1, <2>2, <3>0, <3>3
      <4> QED BY <1>1, <4>1
    <3> QED BY <1>1, <3>1, <3>2, <3>3
  <2>5. samples_' # <<>> => played' < samples_'[1]
    <3>1. CASE m > 0
      <4>1. samples_ # <<>> /\ samples_'[1] = samples_[1]
        BY <1>1, <2>2, <3>1
      <4> QED BY <1>1, <4>1 DEF OrderInv, InOrder
    <3>2. CASE m = 0 /\ n > 0
      BY <1>1, <2>2, <3>2 DEF OrderInv, QueueTyped
    <3>3. CASE m = 0 /\ n = 0
      <4>1. Len(samples_') = 0
        BY <1>4, <3>3
      <4> QED BY <1>4, <4>1, EmptySeq
    <3> QED BY <1>1, <3>1, <3>2, <3>3
  <2> QED BY <1>1, <1>4, <2>3, <2>4, <2>5 DEF OrderInv, QueueTyped, InOrder
<1>5. made + 1 \in Nat
  BY <1>1
<1> QED BY <1>1, <1>2, <1>3, <1>4, <1>5, Enqueued

LEMMA OrderPop == ASSUME OrderInv, SendSamples PROVE OrderInv'
<1>1. samples_ \in Seq(Int) /\ ~RunsLow
  BY DEF OrderInv, QueueTyped, SendSamples
<1>2. /\ Len(samples_) \in Nat /\ Count \in Nat \ {0} /\ Len(samples_) >= 2 * Count
      /\ LeftOver \in Seq(Int) /\ Len(LeftOver) = Len(samples_) - Count
      /\ \A i \in 1 .. Len(LeftOver) : LeftOver[i] = samples_[i + Count]
      /\ TakenFrom[Count] = samples_[Count]
  <2>1. /\ Count \in Nat \ {0}
        /\ \A i \in 1 .. Count : TakenFrom[i] = samples_[i]
    BY <1>1, Popped
  <2>2. Count \in 1 .. Count
    BY <2>1
  <2>3. TakenFrom[Count] = samples_[Count]
    BY ONLY <2>1, <2>2
  <2> QED BY <1>1, <2>3, Popped
<1>3. samples_' = LeftOver /\ played' = samples_[Count] /\ made' = made
  BY <1>2 DEF SendSamples
<1>4. /\ \A i \in 1 .. Len(samples_) : samples_[i] \in 1 .. made
      /\ \A i \in 1 .. Len(samples_) - 1 : samples_[i] < samples_[i + 1]
      /\ made \in 0 .. MaxSamples
  BY DEF OrderInv, QueueTyped, InOrder
<1>5. played' \in 0 .. made'
  BY <1>2, <1>3, <1>4, AudioAssumption
<1>6. \A i \in 1 .. Len(samples_') : samples_'[i] \in 1 .. made'
  <2> SUFFICES ASSUME NEW i \in 1 .. Len(LeftOver) PROVE LeftOver[i] \in 1 .. made
    BY <1>3
  <2>1. i + Count \in 1 .. Len(samples_)
    BY <1>2
  <2> QED BY <1>2, <1>4, <2>1
<1>7. \A i \in 1 .. Len(samples_') - 1 : samples_'[i] < samples_'[i + 1]
  <2> SUFFICES ASSUME NEW i \in 1 .. Len(LeftOver) - 1 PROVE LeftOver[i] < LeftOver[i + 1]
    BY <1>3
  <2> DEFINE m == Len(samples_)
             k == Len(LeftOver)
             there == i + Count
  <2>1. /\ m \in Nat /\ Count \in Nat \ {0} /\ k = m - Count /\ i \in 1 .. k - 1
        /\ \A j \in 1 .. k : LeftOver[j] = samples_[j + Count]
    BY <1>2
  <2> HIDE DEF m, k
  <2>2. /\ i \in 1 .. k /\ i + 1 \in 1 .. k
        /\ (i + 1) + Count = there + 1 /\ there \in 1 .. m - 1
    BY ONLY <2>1
  <2> HIDE DEF there
  <2>3. LeftOver[i + 1] = samples_[there + 1]
    BY ONLY <2>1, <2>2
  <2>4. LeftOver[i] = samples_[there]
    BY ONLY <2>1, <2>2 DEF there
  <2>5. samples_[there] < samples_[there + 1]
    BY <1>4, <2>2 DEF m
  <2> QED BY ONLY <2>3, <2>4, <2>5
<1>8. played' < samples_'[1]
  <2>1. 1 \in 1 .. Len(LeftOver) /\ 1 + Count = Count + 1 /\ Count \in 1 .. Len(samples_) - 1
    BY <1>2
  <2>2. LeftOver[1] = samples_[Count + 1]
    BY <1>2, <2>1
  <2> QED BY <1>3, <1>4, <2>1, <2>2
<1> QED BY <1>2, <1>3, <1>4, <1>5, <1>6, <1>7, <1>8 DEF OrderInv, QueueTyped, InOrder

LEMMA OrderNext == ASSUME OrderInv, [AudioNext]_audioVars PROVE OrderInv'
<1>1. CASE SendSilence \/ UNCHANGED audioVars
  BY <1>1 DEF SendSilence, audioVars, OrderInv, QueueTyped, InOrder
<1> QED BY <1>1, OrderPush, OrderPop DEF AudioNext, Timer

\* Whatever is dropped because the queue is full (audio-streamer.cpp:108-125),
\* samples are sent in the order of their pushes and none is sent twice.
THEOREM AlwaysInOrder == AudioSpec => []InOrder
<1>1. OrderInv => InOrder
  BY DEF OrderInv
<1> QED BY <1>1, OrderInit, OrderNext, PTL DEF AudioSpec

-----------------------------------------------------------------------------
(* Types.  How far the queue passes its limit is a matter of the pushes    *)
(* alone, so it is a conjunct of its own.                                  *)
LimitKept ==
    \A n \in PushSizes : (\A m \in PushSizes : m <= n) => Len(samples_) < Limit + n

PacketTyped ==
    /\ seqid \in 0 .. SeqIdMod - 1
    /\ packet = <<>> \/ Len(packet) = Count

AudioTypeInv == OrderInv /\ PacketTyped /\ LimitKept

LEMMA LimitNext == ASSUME OrderInv, LimitKept, [AudioNext]_audioVars PROVE LimitKept'
<1> USE AudioAssumption
<1>1. samples_ \in Seq(Int) /\ Len(samples_) \in Nat
  BY LenProperties DEF OrderInv, QueueTyped
<1>2. CASE samples_' = samples_
  BY <1>2 DEF LimitKept
<1>3. ASSUME NEW n \in PushSizes, PushSamples(n) PROVE LimitKept'
  <2>1. n \in Nat /\ made + 1 \in Nat
    BY DEF OrderInv, QueueTyped
  <2>2. samples_' = Enqueue(samples_, made + 1, n)
    BY <1>3 DEF PushSamples
  <2>3. CASE Len(samples_) < Limit /\ Len(samples_') = Len(samples_) + n
    <3> SUFFICES ASSUME NEW k \in PushSizes, \A m \in PushSizes : m <= k
                 PROVE  Len(samples_') < Limit + k
      BY DEF LimitKept
    <3>1. n <= k /\ k \in Nat
      OBVIOUS
    <3> QED BY <1>1, <2>1, <2>3, <3>1
  <2> QED BY <1>1, <1>2, <2>1, <2>2, <2>3, Enqueued
<1>4. CASE SendSamples
  <2>1. /\ samples_' = LeftOver /\ Len(LeftOver) = Len(samples_) - Count
        /\ Count \in Nat
    BY <1>1, <1>4, Popped DEF SendSamples
  <2> SUFFICES ASSUME NEW k \in PushSizes, \A m \in PushSizes : m <= k
               PROVE  Len(samples_') < Limit + k
    BY DEF LimitKept
  <2>2. Len(samples_) < Limit + k
    BY DEF LimitKept
  <2>3. k \in Nat
    OBVIOUS
  <2> QED BY <1>1, <2>1, <2>2, <2>3
<1>5. CASE SendSilence \/ UNCHANGED audioVars
  BY <1>2, <1>5 DEF SendSilence, audioVars
<1> QED BY <1>3, <1>4, <1>5 DEF AudioNext, Timer

LEMMA PacketNext == ASSUME OrderInv, PacketTyped, [AudioNext]_audioVars PROVE PacketTyped'
<1>1. seqid \in Nat /\ SeqIdMod \in Nat \ {0} /\ (seqid + 1) % SeqIdMod \in 0 .. SeqIdMod - 1
  BY AudioAssumption DEF PacketTyped
<1>2. CASE SendSamples
  <2>1. samples_ \in Seq(Int) /\ ~RunsLow
    BY <1>2 DEF OrderInv, QueueTyped, SendSamples
  <2>2. Len(packet') = Count
    BY <1>2, <2>1, Popped DEF SendSamples
  <2> QED BY <1>1, <1>2, <2>2 DEF PacketTyped, SendSamples
<1>3. CASE SendSilence
  BY <1>1, <1>3 DEF PacketTyped, SendSilence
<1>4. ASSUME NEW n \in PushSizes, PushSamples(n) PROVE PacketTyped'
  BY <1>4 DEF PacketTyped, PushSamples
<1>5. CASE UNCHANGED audioVars
  BY <1>5 DEF PacketTyped, audioVars
<1> QED BY <1>2, <1>3, <1>4, <1>5 DEF AudioNext, Timer

\* The types hold, and the check before the push (audio-streamer.cpp:110)
\* keeps the queue within its limit and one push.
THEOREM AudioTypeCorrect == AudioSpec => []AudioTypeOK
<1>1. AudioInit => AudioTypeInv
  <2> SUFFICES ASSUME AudioInit PROVE AudioTypeInv
    OBVIOUS
  <2>1. PacketTyped
    BY AudioAssumption DEF AudioInit, PacketTyped
  <2>2. LimitKept
    <3>1. Len(samples_) = 0
      BY DEF AudioInit
    <3>2. \A n \in PushSizes : 0 < Limit + n
      BY AudioAssumption
    <3> QED BY <3>1, <3>2 DEF LimitKept
  <2> QED BY <2>1, <2>2, OrderInit DEF AudioTypeInv
<1>2. AudioTypeInv /\ [AudioNext]_audioVars => AudioTypeInv'
  BY OrderNext, LimitNext, PacketNext DEF AudioTypeInv
<1>3. AudioTypeInv => AudioTypeOK
  <2> SUFFICES ASSUME AudioTypeInv PROVE AudioTypeOK
    OBVIOUS
  <2>1. samples_ \in Seq(1 .. MaxSamples)
    <3>1. samples_ \in Seq(Int) /\ made \in 0 .. MaxSamples
          /\ \A i \in 1 .. Len(samples_) : samples_[i] \in 1 .. made
      BY DEF AudioTypeInv, OrderInv, QueueTyped
    <3>2. \A i \in 1 .. Len(samples_) : samples_[i] \in 1 .. MaxSamples
      BY <3>1, AudioAssumption
    <3>3. Len(samples_) \in Nat /\ samples_ \in [1 .. Len(samples_) -> Int]
      BY <3>1, LenProperties
    <3>4. samples_ \in [1 .. Len(samples_) -> 1 .. MaxSamples]
      BY <3>2, <3>3
    <3> QED BY <3>3, <3>4, SeqDef
  <2>2. played \in 0 .. MaxSamples /\ made \in 0 .. MaxSamples
    BY AudioAssumption DEF AudioTypeInv, OrderInv, QueueTyped
  <2> QED BY <2>1, <2>2 DEF AudioTypeInv, PacketTyped, LimitKept, AudioTypeOK
<1> QED BY <1>1, <1>2, <1>3, PTL DEF AudioSpec

-----------------------------------------------------------------------------
(* The channels.  A packet holds kSamplesPerPacket samples of each channel *)
(* and the application pushes whole pairs.                                 *)
WholePairs == Count % 2 = 0 /\ \A n \in PushSizes : n % 2 = 0

LEMMA Parity ==
  ASSUME NEW a \in Int, NEW b \in Int, b % 2 = 0
  PROVE  /\ (a + b) % 2 = a % 2
         /\ (a - b) % 2 = a % 2
         /\ a % 2 = 0 => a # 1
  OBVIOUS

\* A sequence that starts with a left sample and keeps pairs together.
Paired(seq, len) ==
    \A i \in 1 .. len :
        /\ seq[i] % 2 = i % 2
        /\ i % 2 = 0 => seq[i] = seq[i - 1] + 1

ChannelInv ==
    /\ OrderInv /\ PacketTyped
    /\ Len(samples_) % 2 = 0 /\ made % 2 = 0
    /\ Paired(samples_, Len(samples_))
    /\ Paired(packet, Len(packet))

LEMMA ChannelPush ==
  ASSUME WholePairs, ChannelInv, NEW n \in PushSizes, PushSamples(n)
  PROVE  /\ Len(samples_') % 2 = 0 /\ made' % 2 = 0
         /\ Paired(samples_', Len(samples_'))
<1> DEFINE m == Len(samples_)
<1>1. /\ samples_ \in Seq(Int) /\ made \in Nat /\ n \in Nat /\ m \in Nat
      /\ made' = made + n /\ made + 1 \in Nat
  BY AudioAssumption, LenProperties DEF ChannelInv, OrderInv, QueueTyped, PushSamples
<1>2. m % 2 = 0 /\ made % 2 = 0 /\ n % 2 = 0 /\ Paired(samples_, m)
  BY DEF WholePairs, ChannelInv
<1>3. made' % 2 = 0 /\ (m + n) % 2 = 0
  BY <1>1, <1>2
<1>4. samples_' = Enqueue(samples_, made + 1, n)
  BY DEF PushSamples
<1>5. CASE samples_' = samples_
  BY <1>2, <1>3, <1>5
<1>6. CASE /\ samples_' \in Seq(Int) /\ Len(samples_') = m + n
           /\ \A i \in 1 .. m : samples_'[i] = samples_[i]
           /\ \A i \in m + 1 .. m + n : samples_'[i] = made + 1 + (i - m) - 1
  <2> SUFFICES ASSUME NEW i \in 1 .. m + n
               PROVE  /\ samples_'[i] % 2 = i % 2
                      /\ i % 2 = 0 => samples_'[i] = samples_'[i - 1] + 1
    BY <1>3, <1>6 DEF Paired
  <2>1. CASE i <= m
    <3>1. i \in 1 .. m /\ samples_'[i] = samples_[i]
      BY <1>1, <1>6, <2>1
    <3>2. samples_[i] % 2 = i % 2 /\ (i % 2 = 0 => samples_[i] = samples_[i - 1] + 1)
      BY <1>2, <3>1 DEF Paired
    <3>3. i % 2 = 0 => i - 1 \in 1 .. m
      BY <1>1, <3>1
    <3> QED BY <1>6, <3>1, <3>2, <3>3
  <2>2. CASE i > m
    <3>1. i \in m + 1 .. m + n /\ samples_'[i] = made + (i - m)
      BY <1>1, <1>6, <2>2
    <3>2. (made + (i - m)) % 2 = i % 2
      BY <1>1, <1>2, <2>2
    <3>3. ASSUME i % 2 = 0 PROVE samples_'[i] = samples_'[i - 1] + 1
      <4>1. i - 1 \in m + 1 .. m + n
        BY <1>1, <1>2, <2>2, <3>3
      <4>2. samples_'[i - 1] = made + 1 + (i - 1 - m) - 1
        BY <1>6, <4>1
      <4> QED BY <1>1, <3>1, <4>2
    <3> QED BY <3>1, <3>2, <3>3
  <2> QED BY <1>1, <2>1, <2>2
<1> HIDE DEF m
<1>7. \/ samples_' = samples_
      \/ /\ samples_' \in Seq(Int) /\ Len(samples_') = m + n
         /\ \A i \in 1 .. m : samples_'[i] = samples_[i]
         /\ \A i \in m + 1 .. m + n : samples_'[i] = made + 1 + (i - m) - 1
  BY <1>1, <1>4, Enqueued DEF m
<1> QED BY <1>5, <1>6, <1>7

LEMMA ChannelPop ==
  ASSUME WholePairs, ChannelInv, SendSamples
  PROVE  /\ Len(samples_') % 2 = 0
         /\ Paired(samples_', Len(samples_')) /\ Paired(packet', Len(packet'))
<1>1. samples_ \in Seq(Int) /\ ~RunsLow
  BY DEF ChannelInv, OrderInv, QueueTyped, SendSamples
<1>2. /\ Len(samples_) \in Nat /\ Count \in Nat \ {0} /\ Len(samples_) >= 2 * Count
      /\ Len(TakenFrom) = Count
      /\ \A i \in 1 .. Count : TakenFrom[i] = samples_[i]
      /\ Len(LeftOver) = Len(samples_) - Count
      /\ \A i \in 1 .. Len(LeftOver) : LeftOver[i] = samples_[i + Count]
  BY <1>1, Popped
<1> DEFINE len == Len(samples_)
           rest == Len(LeftOver)
<1>0. len \in Nat /\ Count \in Nat \ {0} /\ len >= 2 * Count /\ rest = len - Count
  BY <1>2
<1> HIDE DEF len, rest
<1>3. samples_' = LeftOver /\ packet' = TakenFrom
  BY DEF SendSamples
<1>4. /\ Count % 2 = 0 /\ Len(samples_) % 2 = 0
      /\ \A i \in 1 .. Len(samples_) :
           samples_[i] % 2 = i % 2 /\ (i % 2 = 0 => samples_[i] = samples_[i - 1] + 1)
  BY DEF WholePairs, ChannelInv, Paired
<1>5. Paired(TakenFrom, Count)
  <2> SUFFICES ASSUME NEW i \in 1 .. Count
               PROVE  /\ TakenFrom[i] % 2 = i % 2
                      /\ i % 2 = 0 => TakenFrom[i] = TakenFrom[i - 1] + 1
    BY DEF Paired
  <2>1. i \in 1 .. len /\ (i % 2 = 0 => i - 1 \in 1 .. Count)
    BY <1>0, <1>4, Parity
  <2> QED BY <1>2, <1>4, <2>1 DEF len
<1>6. Paired(LeftOver, Len(LeftOver))
  <2> SUFFICES ASSUME NEW i \in 1 .. Len(LeftOver)
               PROVE  /\ LeftOver[i] % 2 = i % 2
                      /\ i % 2 = 0 => LeftOver[i] = LeftOver[i - 1] + 1
    BY DEF Paired
  <2>0. i \in 1 .. rest
    BY DEF rest
  <2>1. i + Count \in 1 .. Len(samples_) /\ (i + Count) % 2 = i % 2
    <3>1. i + Count \in 1 .. len
      BY <1>0, <2>0
    <3>2. i \in Int /\ Count \in Int /\ Count % 2 = 0
      BY <1>0, <1>4, <2>0
    <3> QED BY <3>1, <3>2, Parity DEF len
  <2>2. LeftOver[i] = samples_[i + Count]
    BY <1>2
  <2>3. ASSUME i % 2 = 0 PROVE LeftOver[i] = LeftOver[i - 1] + 1
    <3>1. i - 1 \in 1 .. rest /\ (i - 1) + Count = (i + Count) - 1
      BY <1>0, <2>0, <2>3, Parity
    <3>2. LeftOver[i - 1] = samples_[(i + Count) - 1]
      BY <1>2, <3>1 DEF rest
    <3> QED BY <1>4, <2>1, <2>2, <2>3, <3>2
  <2> QED BY <1>4, <2>1, <2>2, <2>3
<1>7. Len(LeftOver) % 2 = 0
  <2>1. len % 2 = 0 /\ Count % 2 = 0
    BY <1>4 DEF len
  <2>2. (len - Count) % 2 = 0
    BY <1>0, <2>1, Parity
  <2> QED BY <1>0, <2>2 DEF rest
<1> QED BY <1>2, <1>3, <1>5, <1>6, <1>7

\* Dropped pushes do not swap the channels: the queue takes a push whole or
\* not at all (audio-streamer.cpp:110-112) and gives whole packets.
THEOREM AlwaysChannelsKept == ASSUME WholePairs PROVE AudioSpec => []ChannelsKept
<1>1. AudioInit => ChannelInv
  <2> SUFFICES ASSUME AudioInit PROVE ChannelInv
    OBVIOUS
  <2>1. Len(samples_) = 0 /\ Len(packet) = 0 /\ made = 0
    BY DEF AudioInit
  <2>2. Paired(samples_, 0) /\ Paired(packet, 0)
    BY DEF Paired
  <2>3. PacketTyped
    BY AudioAssumption DEF AudioInit, PacketTyped
  <2> QED BY <2>1, <2>2, <2>3, OrderInit DEF ChannelInv
<1>2. ChannelInv /\ [AudioNext]_audioVars => ChannelInv'
  <2> SUFFICES ASSUME ChannelInv, [AudioNext]_audioVars PROVE ChannelInv'
    OBVIOUS
  <2>1. OrderInv' /\ PacketTyped'
    BY OrderNext, PacketNext DEF ChannelInv
  <2>2. CASE SendSamples
    BY <2>1, <2>2, WholePairs, ChannelPop DEF ChannelInv, SendSamples
  <2>3. ASSUME NEW n \in PushSizes, PushSamples(n) PROVE ChannelInv'
    <3>1. packet' = packet
      BY <2>3 DEF PushSamples
    <3> QED BY <2>1, <2>3, <3>1, WholePairs, ChannelPush DEF ChannelInv
  <2>4. CASE SendSilence
    <3>1. samples_' = samples_ /\ made' = made /\ Len(packet') = 0
      BY <2>4 DEF SendSilence
    <3>2. Paired(packet', 0)
      BY DEF Paired
    <3> QED BY <2>1, <3>1, <3>2 DEF ChannelInv
  <2>5. CASE UNCHANGED audioVars
    BY <2>1, <2>5 DEF ChannelInv, audioVars
  <2> QED BY <2>2, <2>3, <2>4, <2>5 DEF AudioNext, Timer
<1>3. ChannelInv => ChannelsKept
  BY DEF ChannelInv, Paired, ChannelsKept
<1> QED BY <1>1, <1>2, <1>3, PTL DEF AudioSpec
=============================================================================
