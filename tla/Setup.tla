-------------------------------- MODULE Setup -------------------------------
(***************************************************************************)
(* The scripts that pair the PC with a console and its GamePad             *)
(* (stage-3-pair-with-wiiu.py) and start streaming                         *)
(* (stage-4-start-pc2drc.py).  Each is a sequence of commands that leave   *)
(* something behind on the host: configuration files, which survive a      *)
(* reboot; a virtual network interface and daemons, which survive the      *)
(* script.  A script can die between any two of its commands, by Ctrl+C or *)
(* by an exception nothing catches, and is then run again on what the      *)
(* previous run has left.  One script runs at a time.                      *)
(*                                                                         *)
(* A console, its SSID, its PSK and the BSSID of its GamePad are all       *)
(* written as the console.                                                 *)
(***************************************************************************)
EXTENDS Naturals, FiniteSets

CONSTANTS
    Consoles,     \* the consoles, each with its GamePad, the user may own
    Shipped,      \* what generated_ap_normal.conf of the repository holds
    None,         \* no file, no entry in it
    Blank,        \* a file that was opened for writing and is still empty
    MaxFaults     \* bound: faults of the host, the user and the devices

ASSUME SetupAssumption ==
    /\ {Shipped, None, Blank} \cap Consoles = {}
    /\ Shipped # None /\ Shipped # Blank /\ None # Blank
    /\ MaxFaults \in Nat

VARIABLES
    pc,           \* what the script does next, "idle" when none runs
    stage,        \* the script: 3 or 4
    mine,         \* the console the user owns now
    found,        \* wii_u_bssid: the console the scan has found
    files,        \* first PSK in get_psk.conf, the two generated files
    links,        \* the virtual interfaces that exist
    addressed,    \* WiiUAP has its address
    daemons,      \* processes that survive the script
    children,     \* processes that end with it
    netboot,      \* "none", "bound" to its ports or "deaf"
    faults,       \* faults so far
    cutShort      \* history: stage 3 ended between its two files

hostVars == <<links, addressed, daemons>>
runVars  == <<stage, mine, found, faults>>
vars == <<pc, runVars, files, hostVars, children, netboot, cutShort>>

Init ==
    /\ pc = "idle" /\ stage = 3 /\ found = None
    /\ mine \in Consoles
    /\ files = [psk |-> None, ap |-> [ssid |-> Shipped, psk |-> Shipped], info |-> None]
    /\ links = {} /\ addressed = FALSE
    /\ daemons = {"network-manager", "wpa_supplicant"}
    /\ children = {} /\ netboot = "none"
    /\ faults = 0 /\ cutShort = FALSE

Goto(from, to) == pc = from /\ pc' = to
Fault == faults < MaxFaults /\ faults' = faults + 1

\* The script ends: its pseudo-terminals are closed, its children hang up.
Exit ==
    /\ pc' = "idle"
    /\ children' = {}
    /\ netboot' = "none"

-----------------------------------------------------------------------------
(* The user.                                                               *)
Run(s) ==
    /\ Goto("idle", IF s = 3 THEN "menu" ELSE "choose")
    /\ stage' = s
    /\ found' = None
    /\ UNCHANGED <<mine, faults, files, hostVars, children, netboot, cutShort>>

\* Another console, whose GamePad replaces the old one.
NewConsole(c) ==
    /\ pc = "idle" /\ mine # c
    /\ mine' = c
    /\ UNCHANGED <<pc, stage, found, faults, files, hostVars, children, netboot, cutShort>>

Reboot ==
    /\ pc = "idle"
    /\ links' = {} /\ addressed' = FALSE
    /\ daemons' = {"network-manager", "wpa_supplicant"}
    /\ UNCHANGED <<pc, runVars, files, children, netboot, cutShort>>

\* From opening the first of the two generated files to closing the second.
BetweenFiles ==
    /\ stage = 3
    /\ pc \in {"write", "terminate", "add", "rename", "replug", "address", "handshake", "save"}

CutShort == cutShort \/ (BetweenFiles /\ files.info # files.ap.ssid)

\* Ctrl+C, or an exception: a command fails, an expect() times out.  The pairing
\* loop catches what happens while it waits for wpa_cli, and asks again; at its
\* prompts nothing is caught.
Dies ==
    /\ pc # "idle"
    /\ Fault
    /\ Exit
    /\ cutShort' = CutShort
    /\ UNCHANGED <<stage, mine, found, files, hostVars>>

\* Both scripts wait without a limit for a GamePad that cannot connect, until
\* the user gives up: it is not the one of the configured console.
GivesUp ==
    /\ pc \in {"handshake", "netboot"}
    /\ files.ap.ssid # mine \/ (pc = "netboot" /\ files.info # mine)
    /\ Exit
    /\ cutShort' = CutShort
    /\ UNCHANGED <<runVars, files, hostVars>>

-----------------------------------------------------------------------------
(* Stage 3: pair_with_wii_u.                                               *)

\* "skip" goes on with whatever AP configuration there is.
Skip ==
    /\ Goto("menu", "add")
    /\ daemons' = daemons \ {"network-manager"}
    /\ UNCHANGED <<runVars, files, links, addressed, children, netboot, cutShort>>

\* choose_wifi_interface quits when the interface has no TSF.
NoTsf ==
    /\ pc \in {"menu", "which", "choose"}
    /\ Fault
    /\ Exit
    /\ UNCHANGED <<stage, mine, found, files, hostVars, cutShort>>

ResetPskNot(psk) == psk                     \* get_psk.conf not copied
ResetPsk(psk) == None

PrepareHost ==
    /\ Goto("menu", "scan")
    /\ daemons' = daemons \ {"network-manager"}
    /\ files' = [files EXCEPT !.psk = ResetPsk(@)]
    /\ children' = {"wpa_supplicant"}       \* init_wpa_supplicant, until it stays
    /\ UNCHANGED <<runVars, links, addressed, netboot, cutShort>>

\* iw prints neither a console nor nothing, or wpa_cli does not come up: the
\* script says so and quits.
PairingQuits ==
    /\ pc \in {"scan", "pair"}
    /\ Fault
    /\ Exit
    /\ UNCHANGED <<stage, mine, found, files, hostVars, cutShort>>

\* Until the console is found.
Scan ==
    /\ Goto("scan", "pair")
    /\ found' = mine
    /\ UNCHANGED <<stage, mine, faults, files, hostVars, children, netboot, cutShort>>

\* wps_pin: wpa_supplicant adds the credentials to the file, of which the
\* first PSK is read.  Otherwise the loop asks for the pairing code again.
Pair ==
    /\ Goto("pair", "which")
    /\ files' = [files EXCEPT !.psk = IF @ = None THEN found ELSE @]
    /\ UNCHANGED <<runVars, hostVars, children, netboot, cutShort>>

\* open(..., 'w') empties the file; what it is to hold is written when it is
\* closed.
OpenAp ==
    /\ Goto("which", "write")
    /\ files' = [files EXCEPT !.ap = [ssid |-> Blank, psk |-> Blank]]
    /\ UNCHANGED <<runVars, hostVars, children, netboot, cutShort>>

WriteAp ==
    /\ Goto("write", "terminate")
    /\ files' = [files EXCEPT !.ap = [ssid |-> found, psk |-> files.psk]]
    /\ UNCHANGED <<runVars, hostVars, children, netboot, cutShort>>

Terminate ==
    /\ Goto("terminate", "add")
    /\ children' = children \ {"wpa_supplicant"}
    /\ UNCHANGED <<runVars, files, hostVars, netboot, cutShort>>

-----------------------------------------------------------------------------
(* The AP's interface: the same loop in both scripts.                      *)

\* An old WiiUAP is deleted first.
OldDeletedNot == links                      \* the old interface stays
OldDeleted == links \ {"WiiUAP"}

\* iw dev ... interface add wlWiiUAP; another interface may turn up meanwhile.
AddInterface ==
    /\ pc = "add"
    /\ "wlWiiUAP" \notin links
    /\ links' = OldDeleted \cup {"wlWiiUAP"}
    /\ addressed' = (addressed /\ "WiiUAP" \in OldDeleted)
    /\ \/ pc' = "rename" /\ UNCHANGED faults
       \/ pc' = "replug" /\ Fault
    /\ UNCHANGED <<stage, mine, found, files, daemons, children, netboot, cutShort>>

\* The command fails when the interface is there already, as it is when a
\* script died before it could rename it; nothing catches that, in any later
\* run until a reboot.
AddFails ==
    /\ pc = "add"
    /\ "wlWiiUAP" \in links
    /\ links' = OldDeleted
    /\ addressed' = FALSE
    /\ Exit
    /\ cutShort' = CutShort
    /\ UNCHANGED <<runVars, files, daemons>>

\* "unplug your WiiU AP device, plug it back in": done, or just confirmed.
Replug ==
    /\ Goto("replug", "add")
    /\ links' \in {links, {}}
    /\ UNCHANGED <<runVars, files, addressed, daemons, children, netboot, cutShort>>

\* ip link set wlWiiUAP name WiiUAP: an error if the name is taken.
RenameInterface ==
    /\ pc = "rename"
    /\ IF "WiiUAP" \in links
       THEN Exit /\ cutShort' = CutShort /\ UNCHANGED links
       ELSE /\ pc' = IF stage = 3 THEN "address" ELSE "vnc"
            /\ links' = (links \ {"wlWiiUAP"}) \cup {"WiiUAP"}
            /\ UNCHANGED <<children, netboot, cutShort>>
    /\ UNCHANGED <<runVars, files, addressed, daemons>>

-----------------------------------------------------------------------------
(* Stage 3: pair_with_gamepad.                                             *)

\* hostapd does not start without a configuration, or while a hostapd of stage 4
\* still runs; stage 3 notices the end of its output.
ApStarts == "hostapd" \notin daemons /\ files.ap.ssid # Blank

StartAp ==
    /\ Goto("address", "handshake")
    /\ ApStarts
    /\ addressed' = TRUE
    /\ children' = {"hostapd"}
    /\ UNCHANGED <<runVars, files, links, daemons, netboot, cutShort>>

ApRefused ==
    /\ pc = "address"
    /\ ~ApStarts
    /\ Exit
    /\ addressed' = TRUE
    /\ cutShort' = CutShort
    /\ UNCHANGED <<runVars, files, links, daemons>>

\* The GamePad knows its console's SSID and PSK only.
ApServes(c) == files.ap = [ssid |-> c, psk |-> c]

Handshake ==
    /\ Goto("handshake", "save")
    /\ ApServes(mine)
    /\ files' = [files EXCEPT !.info = Blank]
    /\ UNCHANGED <<runVars, hostVars, children, netboot, cutShort>>

SaveInfo ==
    /\ Goto("save", "finish")
    /\ files' = [files EXCEPT !.info = mine]
    /\ cutShort' = FALSE
    /\ UNCHANGED <<runVars, hostVars, children, netboot>>

\* netboot answers the GamePad, or expect() gives up after 30 s: the files are
\* saved either way.
Finish ==
    /\ pc = "finish"
    /\ Exit
    /\ UNCHANGED <<runVars, files, hostVars, cutShort>>

-----------------------------------------------------------------------------
(* Stage 4.                                                                *)
StopNetworkManager ==
    /\ Goto("choose", "up1")
    /\ daemons' = daemons \ {"network-manager"}
    /\ UNCHANGED <<runVars, files, links, addressed, children, netboot, cutShort>>

\* Three attempts to take the interface; what may hold it is killed in between.
Holders == {"wpa_supplicant", "hostapd"}

LinkUp(from, to) ==
    /\ Goto(from, to)
    /\ UNCHANGED <<runVars, files, hostVars, children, netboot, cutShort>>

LinkHeld(from, to, victim) ==
    /\ Goto(from, to)
    /\ daemons \cap Holders # {}
    /\ daemons' = daemons \ {victim}
    /\ UNCHANGED <<runVars, files, links, addressed, children, netboot, cutShort>>

\* "STILL being used": the script says so and goes on.
StillHeld ==
    /\ Goto("up3", "add")
    /\ Fault
    /\ UNCHANGED <<stage, mine, found, files, hostVars, children, netboot, cutShort>>

TakeInterface ==
    \/ LinkUp("up1", "up2") \/ LinkHeld("up1", "up2", "wpa_supplicant")
    \/ LinkUp("up2", "up3") \/ LinkHeld("up2", "up3", "hostapd")
    \/ LinkUp("up3", "add") \/ StillHeld

\* Whether the server starts or runs already is not looked at.
StartVnc ==
    /\ Goto("vnc", "view")
    /\ \/ daemons' = daemons \cup {"vncserver"} /\ UNCHANGED faults
       \/ Fault /\ UNCHANGED daemons
    /\ UNCHANGED <<stage, mine, found, files, links, addressed, children, netboot, cutShort>>

\* The viewer that resizes the desktop; when it cannot connect, the handler
\* names a variable that does not exist and the script ends there.
ViewerConnects ==
    /\ Goto("view", "info")
    /\ "vncserver" \in daemons
    /\ UNCHANGED <<runVars, files, hostVars, children, netboot, cutShort>>

ViewerFails ==
    /\ pc = "view"
    /\ "vncserver" \notin daemons
    /\ Exit
    /\ UNCHANGED <<runVars, files, hostVars, cutShort>>

\* "Gamepad configuration not found. Please run stage 3."
NoInfo ==
    /\ pc = "info"
    /\ files.info = None
    /\ Exit
    /\ UNCHANGED <<runVars, files, hostVars, cutShort>>

KillHostapdNot == daemons                   \* the old one is left running
KillHostapd == daemons \ {"hostapd"}

ReadInfo ==
    /\ Goto("info", "hostapd")
    /\ files.info # None
    /\ daemons' = KillHostapd
    /\ children' = {"wpa_supplicant"}
    /\ UNCHANGED <<runVars, files, links, addressed, netboot, cutShort>>

\* hostapd -B leaves a daemon.
StartHostapd ==
    /\ Goto("hostapd", "tsf")
    /\ ApStarts
    /\ daemons' = daemons \cup {"hostapd"}
    /\ addressed' = TRUE
    /\ UNCHANGED <<runVars, files, links, children, netboot, cutShort>>

HostapdFails ==
    /\ pc = "hostapd"
    /\ IF ApStarts THEN Fault ELSE UNCHANGED faults
    /\ Exit
    /\ UNCHANGED <<stage, mine, found, files, hostVars, cutShort>>

\* The counter reads as 0: the script quits, hostapd stays.
CheckTsf ==
    /\ pc = "tsf"
    /\ \/ pc' = "netboot" /\ netboot' = "bound" /\ UNCHANGED <<children, faults>>
       \/ Fault /\ Exit
    /\ UNCHANGED <<stage, mine, found, files, hostVars, cutShort>>

\* A new netboot is spawned before the old one is hung up, which may or may
\* not have let go of its ports by then; without them it hears nothing.
Spawned == IF netboot = "bound" THEN {"bound", "deaf"} ELSE {"bound"}

RetryNetboot ==
    /\ Goto("netboot", "netboot")
    /\ netboot' \in Spawned
    /\ UNCHANGED <<runVars, files, hostVars, children, cutShort>>

\* The GamePad associates, and netboot serves the one it was told to.
PadBoots ==
    /\ Goto("netboot", "stream")
    /\ netboot = "bound"
    /\ ApServes(mine) /\ "hostapd" \in daemons
    /\ files.info = mine
    /\ UNCHANGED <<runVars, files, hostVars, children, netboot, cutShort>>

ClientQuits ==
    /\ pc = "stream"
    /\ Exit
    /\ UNCHANGED <<runVars, files, hostVars, cutShort>>

-----------------------------------------------------------------------------
Stage3 ==
    \/ Skip \/ PrepareHost \/ Scan \/ Pair \/ OpenAp \/ WriteAp \/ Terminate
    \/ StartAp \/ ApRefused \/ Handshake \/ SaveInfo \/ Finish

Interface == AddInterface \/ AddFails \/ Replug \/ RenameInterface

Stage4 ==
    \/ StopNetworkManager \/ TakeInterface \/ StartVnc \/ ViewerConnects \/ ViewerFails
    \/ NoInfo \/ ReadInfo \/ StartHostapd \/ HostapdFails \/ CheckTsf

Next ==
    \/ \E s \in {3, 4} : Run(s)
    \/ \E c \in Consoles : NewConsole(c)
    \/ Reboot \/ Dies \/ GivesUp \/ NoTsf \/ PairingQuits
    \/ Stage3 \/ Interface \/ Stage4
    \/ RetryNetboot \/ PadBoots \/ ClientQuits

Spec == Init /\ [][Next]_vars

\* Commands return, timeouts expire and the user answers the prompts; a GamePad
\* that is on sends its requests again and again, some of them while netboot
\* listens.
FairSpec ==
    /\ Spec
    /\ WF_vars(Stage3 \/ Interface \/ Stage4) /\ WF_vars(RetryNetboot)
    /\ SF_vars(PadBoots)

-----------------------------------------------------------------------------
\* What stage 4 is started with belongs together: SSID and PSK are of one
\* console, or the file is empty, and the GamePad is that console's, unless a
\* run of stage 3 was cut short after it had opened the first file.
FilesAgree ==
    /\ files.ap.ssid = files.ap.psk
    /\ pc = "idle" /\ files.info # None => files.info = files.ap.ssid \/ cutShort

\* What a run of stage 4 needs of the host.
GoodFiles == ApServes(mine) /\ files.info = mine
NotStranded == "wlWiiUAP" \notin links

\* Pairing again repairs whatever earlier scripts have left, wherever they died:
\* files that are empty, missing or of two consoles, old credentials in
\* get_psk.conf, an old WiiUAP.  A run of stage 3 in which nothing goes wrong
\* ends with the files of the console the user owns and the AP's interface under
\* its name; a wlWiiUAP and a hostapd from before are what it cannot get past,
\* and a reboot removes both.
PairingRepairs ==
    \A n \in 0 .. MaxFaults :
        (pc = "scan" /\ faults = n /\ NotStranded /\ "hostapd" \notin daemons)
            ~> ((pc = "finish" /\ GoodFiles /\ links = {"WiiUAP"}) \/ faults # n)

\* "Once finished, simply run start-pc2drc.sh anytime": whatever earlier runs,
\* complete or not, have left on the host, a run of stage 4 ends up streaming
\* when nothing goes wrong during it, the files are the console's and no
\* wlWiiUAP is stranded.
RerunStreams ==
    \A n \in 0 .. MaxFaults :
        (pc = "choose" /\ faults = n /\ GoodFiles /\ NotStranded)
            ~> (pc = "stream" \/ faults # n)
=============================================================================
