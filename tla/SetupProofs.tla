----------------------------- MODULE SetupProofs ----------------------------
(***************************************************************************)
(* Theorems about Setup, for any number of consoles and of faults.         *)
(***************************************************************************)
EXTENDS Setup, TLAPS

Files == [psk : Consoles \cup {None},
          ap : [ssid : Consoles \cup {Shipped, Blank}, psk : Consoles \cup {Shipped, Blank, None}],
          info : Consoles \cup {None, Blank}]

\* What FilesAgree is about has its type.
FilesTyped ==
    /\ mine \in Consoles
    /\ files \in Files
    /\ cutShort \in BOOLEAN

\* Which script a program counter belongs to, where it matters.
Stages ==
    pc \in {"menu", "scan", "pair", "which", "write", "terminate", "address", "handshake", "save"}
        => stage = 3

\* The file of the credentials is empty while the console is looked for, and
\* then holds those of the console that was found.
PskFresh ==
    /\ pc \in {"scan", "pair"} => files.psk = None
    /\ pc \in {"pair", "which", "write"} => found \in Consoles
    /\ pc \in {"which", "write"} => files.psk = found
    /\ pc = "save" => files.ap.ssid = mine

\* Outside of the window between the two files they belong together, or a run
\* was cut short in the window.
FilesFit ==
    /\ files.ap.ssid = files.ap.psk
    /\ ~BetweenFiles => files.info \in {None, files.ap.ssid} \/ cutShort

FilesInv == FilesTyped /\ Stages /\ PskFresh /\ FilesFit

-----------------------------------------------------------------------------
LEMMA FilesInvInit == ASSUME Init PROVE FilesInv
  BY SetupAssumption DEF Init, FilesInv, FilesTyped, Files, Stages, PskFresh, FilesFit

\* Steps that change neither files nor what the run has found.
LEMMA FilesInvUser ==
  ASSUME FilesInv,
         \/ \E s \in {3, 4} : Run(s)
         \/ \E c \in Consoles : NewConsole(c)
         \/ Reboot \/ Dies \/ GivesUp \/ NoTsf \/ PairingQuits
  PROVE  FilesInv'
<1> USE DEF FilesInv, FilesTyped, Files, Stages, PskFresh, FilesFit, BetweenFiles, CutShort
<1>1. ASSUME NEW s \in {3, 4}, Run(s) PROVE FilesInv'
  BY <1>1 DEF Run, Goto, hostVars
<1>2. ASSUME NEW c \in Consoles, NewConsole(c) PROVE FilesInv'
  BY <1>2 DEF NewConsole, hostVars
<1>3. CASE Reboot
  BY <1>3 DEF Reboot, runVars
<1>4. CASE Dies
  BY <1>4 DEF Dies, Exit, hostVars
<1>5. CASE GivesUp
  BY <1>5 DEF GivesUp, Exit, runVars
<1>6. CASE NoTsf
  BY <1>6 DEF NoTsf, Exit, hostVars
<1>7. CASE PairingQuits
  BY <1>7 DEF PairingQuits, Exit, hostVars
<1> QED BY <1>1, <1>2, <1>3, <1>4, <1>5, <1>6, <1>7

LEMMA FilesInvStage3 ==
  ASSUME FilesInv, Stage3 PROVE FilesInv'
<1> USE DEF FilesInv, FilesTyped, Files, Stages, PskFresh, FilesFit, BetweenFiles, CutShort
<1>1. CASE Skip BY <1>1 DEF Skip, Goto, runVars
<1>2. CASE PrepareHost BY <1>2 DEF PrepareHost, Goto, ResetPsk, runVars
<1>3. CASE Scan BY <1>3 DEF Scan, Goto
<1>4. CASE Pair BY <1>4, SetupAssumption DEF Pair, Goto, runVars
<1>5. CASE WriteAp BY <1>5 DEF WriteAp, Goto, runVars
<1>6. CASE Terminate BY <1>6 DEF Terminate, Goto, runVars
<1>7. CASE StartAp BY <1>7 DEF StartAp, Goto, runVars
<1>8. CASE ApRefused BY <1>8 DEF ApRefused, Exit, runVars
<1>9. CASE Handshake
  <2>1. files.ap.ssid = mine /\ files.ap.psk = mine
    BY <1>9 DEF Handshake, ApServes
  <2>2. files' \in Files /\ files'.psk = files.psk /\ files'.ap = files.ap /\ files'.info = Blank
    BY <1>9 DEF Handshake
  <2> QED BY <1>9, <2>1, <2>2 DEF Handshake, Goto, runVars
<1>10. CASE SaveInfo
  <2>1. files' \in Files /\ files'.psk = files.psk /\ files'.ap = files.ap /\ files'.info = mine
    BY <1>10 DEF SaveInfo
  <2> QED BY <1>10, <2>1 DEF SaveInfo, Goto, runVars
<1>11. CASE OpenAp
  <2>1. files' \in Files /\ files'.psk = files.psk /\ files'.info = files.info
        /\ files'.ap.ssid = Blank /\ files'.ap.psk = Blank
    BY <1>11 DEF OpenAp
  <2> QED BY <1>11, <2>1 DEF OpenAp, Goto, runVars
<1>12. CASE Finish BY <1>12 DEF Finish, Exit, runVars
<1> QED BY <1>1, <1>2, <1>3, <1>4, <1>5, <1>6, <1>7, <1>8, <1>9, <1>10, <1>11, <1>12 DEF Stage3

LEMMA FilesInvInterface ==
  ASSUME FilesInv, Interface PROVE FilesInv'
<1> USE DEF FilesInv, FilesTyped, Files, Stages, PskFresh, FilesFit, BetweenFiles, CutShort
<1>1. CASE AddInterface BY <1>1 DEF AddInterface
<1>2. CASE AddFails BY <1>2 DEF AddFails, Exit, runVars
<1>3. CASE Replug BY <1>3 DEF Replug, Goto, runVars
<1>4. CASE RenameInterface BY <1>4 DEF RenameInterface, Exit, runVars
<1> QED BY <1>1, <1>2, <1>3, <1>4 DEF Interface

LEMMA FilesInvStage4 ==
  ASSUME FilesInv, Stage4 \/ RetryNetboot \/ PadBoots \/ ClientQuits PROVE FilesInv'
<1> USE DEF FilesInv, FilesTyped, Files, Stages, PskFresh, FilesFit, BetweenFiles, CutShort
<1>1. CASE StopNetworkManager BY <1>1 DEF StopNetworkManager, Goto, runVars
<1>2. CASE TakeInterface
  BY <1>2 DEF TakeInterface, LinkUp, LinkHeld, StillHeld, Goto, runVars
<1>3. CASE StartVnc BY <1>3 DEF StartVnc, Goto
<1>4. CASE ViewerConnects BY <1>4 DEF ViewerConnects, Goto, runVars
<1>5. CASE ViewerFails BY <1>5 DEF ViewerFails, Exit, runVars
<1>6. CASE NoInfo BY <1>6 DEF NoInfo, Exit, runVars
<1>7. CASE ReadInfo BY <1>7 DEF ReadInfo, Goto, runVars
<1>8. CASE StartHostapd BY <1>8 DEF StartHostapd, Goto, runVars
<1>9. CASE HostapdFails BY <1>9 DEF HostapdFails, Exit
<1>10. CASE CheckTsf BY <1>10 DEF CheckTsf, Exit
<1>11. CASE RetryNetboot BY <1>11 DEF RetryNetboot, Goto, runVars
<1>12. CASE PadBoots BY <1>12 DEF PadBoots, Goto, runVars
<1>13. CASE ClientQuits BY <1>13 DEF ClientQuits, Exit, runVars
<1> QED BY <1>1, <1>2, <1>3, <1>4, <1>5, <1>6, <1>7, <1>8, <1>9, <1>10, <1>11, <1>12, <1>13
    DEF Stage4

-----------------------------------------------------------------------------
\* Whatever run of stage 3 is interrupted wherever, the PSK and SSID the AP is
\* configured with (stage-3:306-341) are of one console, and the address netboot
\* is told (stage-4:262-264) is of that console's GamePad unless a run was cut
\* short between the two files.
THEOREM FilesAlwaysAgree == Spec => []FilesAgree
<1>1. Init => FilesInv BY FilesInvInit
<1>2. FilesInv /\ [Next]_vars => FilesInv'
  <2> SUFFICES ASSUME FilesInv, [Next]_vars PROVE FilesInv' OBVIOUS
  <2>1. CASE Next
    BY <2>1, FilesInvUser, FilesInvStage3, FilesInvInterface, FilesInvStage4 DEF Next
  <2>2. CASE UNCHANGED vars
    BY <2>2 DEF vars, runVars, FilesInv, FilesTyped, Stages, PskFresh, FilesFit,
                BetweenFiles
  <2> QED BY <2>1, <2>2
<1>3. FilesInv => FilesAgree
  BY DEF FilesInv, FilesFit, FilesAgree, BetweenFiles
<1> QED BY <1>1, <1>2, <1>3, PTL DEF Spec

-----------------------------------------------------------------------------
(* What a run finds of earlier runs.  The new name of the interface is     *)
(* free when it is given; past that loop the AP's interface is the only    *)
(* one; and the old hostapd is gone before the new one starts, which then  *)
(* runs as long as the script needs it.                                    *)
PastLoop == pc \in {"address", "handshake", "save", "finish", "vnc", "view", "info", "hostapd",
                    "tsf", "netboot", "stream"}

Found ==
    /\ pc = "rename" => "WiiUAP" \notin links
    /\ PastLoop => links = {"WiiUAP"}
    /\ pc = "hostapd" => "hostapd" \notin daemons
    /\ pc \in {"tsf", "netboot"} => "hostapd" \in daemons

Ordered ==
    /\ mine \in Consoles /\ faults \in Nat
    /\ links \subseteq {"WiiUAP", "wlWiiUAP"}
    /\ pc \in {"address", "handshake", "save", "finish"} => stage = 3
    /\ Found

\* Between two scripts only the types are left to show.
LEMMA OrderedIdle ==
  ASSUME pc' = "idle", mine' \in Consoles, faults' \in Nat,
         links' \subseteq {"WiiUAP", "wlWiiUAP"}
  PROVE  Ordered'
  BY DEF Ordered, Found, PastLoop

LEMMA OrderedNext == ASSUME Ordered, [Next]_vars PROVE Ordered'
<1> USE DEF Ordered, Found, PastLoop
<1>1. ASSUME NEW s \in {3, 4}, Run(s) PROVE Ordered'
  BY <1>1 DEF Run, Goto, hostVars
<1>2. ASSUME NEW c \in Consoles, NewConsole(c) PROVE Ordered'
  BY <1>2 DEF NewConsole, hostVars
<1>3. CASE Reboot \/ Dies \/ GivesUp \/ NoTsf \/ PairingQuits
  <2>1. pc' = "idle" /\ mine' = mine /\ faults' \in {faults, faults + 1} /\ links' \in {links, {}}
    BY <1>3 DEF Reboot, Dies, GivesUp, NoTsf, PairingQuits, Exit, Fault, runVars, hostVars
  <2>2. mine' \in Consoles /\ faults' \in Nat /\ links' \subseteq {"WiiUAP", "wlWiiUAP"}
    BY <2>1
  <2> QED BY <2>1, <2>2, OrderedIdle
<1>4. CASE Stage3
  <2>1. CASE Skip \/ PrepareHost \/ Scan \/ Pair \/ OpenAp \/ WriteAp \/ Terminate
    BY <2>1 DEF Skip, PrepareHost, Scan, Pair, OpenAp, WriteAp, Terminate, Goto, runVars, hostVars
  <2>2. CASE StartAp \/ ApRefused \/ Handshake \/ SaveInfo \/ Finish
    BY <2>2 DEF StartAp, ApRefused, Handshake, SaveInfo, Finish, Goto, Exit, runVars, hostVars
  <2> QED BY <1>4, <2>1, <2>2 DEF Stage3
<1>5. CASE Interface
  <2>1. CASE AddInterface
    BY <2>1 DEF AddInterface, OldDeleted, Fault
  <2>2. CASE AddFails \/ Replug
    BY <2>2 DEF AddFails, Replug, OldDeleted, Goto, Exit, runVars
  <2>3. CASE RenameInterface
    BY <2>3 DEF RenameInterface, runVars
  <2> QED BY <1>5, <2>1, <2>2, <2>3 DEF Interface
<1>6. CASE StopNetworkManager \/ TakeInterface
  <2>1. pc' \in {"up1", "up2", "up3", "add"}
    BY <1>6 DEF StopNetworkManager, TakeInterface, LinkUp, LinkHeld, StillHeld, Goto
  <2>2. mine' = mine /\ faults' \in {faults, faults + 1} /\ links' = links
    BY <1>6 DEF StopNetworkManager, TakeInterface, LinkUp, LinkHeld, StillHeld, Fault, runVars,
                hostVars
  <2>3. mine' \in Consoles /\ faults' \in Nat /\ links' \subseteq {"WiiUAP", "wlWiiUAP"}
    BY <2>2
  <2> QED BY <2>1, <2>3
<1>7. CASE StartVnc \/ ViewerConnects \/ ViewerFails \/ NoInfo \/ ReadInfo
  BY <1>7 DEF StartVnc, ViewerConnects, ViewerFails, NoInfo, ReadInfo, KillHostapd, Goto,
              Exit, Fault, runVars, hostVars
<1>8. CASE StartHostapd \/ HostapdFails \/ CheckTsf
  BY <1>8 DEF StartHostapd, HostapdFails, CheckTsf, Goto, Exit, Fault, runVars, hostVars
<1>9. CASE RetryNetboot \/ PadBoots \/ ClientQuits \/ UNCHANGED vars
  BY <1>9 DEF RetryNetboot, PadBoots, ClientQuits, Goto, Exit, runVars, hostVars, vars
<1> QED BY <1>1, <1>2, <1>3, <1>4, <1>5, <1>6, <1>7, <1>8, <1>9 DEF Next, Stage4

\* The run ends although it did not come to stream.
Ends == pc \notin {"idle", "stream"} /\ pc' = "idle"

\* Whatever earlier scripts have left, a run that gets past the loop that makes
\* the AP's interface has that interface and no other, and its own hostapd
\* (stage-4:157-187, 272-300).  A run of stage 4 with the files of the user's
\* console that ends before the stream ends by a fault of its own, at the viewer,
\* because no VNC server would start, or at "iw ... add", because a script died
\* before it had renamed its wlWiiUAP: nothing else that is left does harm.
THEOREM EarlierRunsDoNoHarm ==
  Spec => /\ []Found
          /\ [][stage = 4 /\ GoodFiles /\ Ends =>
                  \/ faults' # faults
                  \/ pc = "view" /\ "vncserver" \notin daemons
                  \/ pc = "add" /\ ~NotStranded]_vars
<1> DEFINE Reason == \/ faults' # faults
                     \/ pc = "view" /\ "vncserver" \notin daemons
                     \/ pc = "add" /\ ~NotStranded
<1>1. Init => Ordered
  BY DEF Init, Ordered, Found, PastLoop
<1>2. Ordered /\ [Next]_vars => Ordered'
  BY OrderedNext
<1>3. Ordered /\ [Next]_vars => [stage = 4 /\ GoodFiles /\ Ends => Reason]_vars
  <2> SUFFICES ASSUME Ordered, Next, stage = 4, GoodFiles, Ends
               PROVE  Reason
    OBVIOUS
  <2>0. Fault => Reason
    BY DEF Fault, Ordered
  <2>1. CASE Dies \/ NoTsf \/ PairingQuits \/ CheckTsf
    BY <2>0, <2>1 DEF Dies, NoTsf, PairingQuits, CheckTsf, Ends
  <2>2. CASE GivesUp
    BY <2>2 DEF GivesUp, GoodFiles, ApServes
  <2>3. CASE AddFails
    BY <2>3 DEF AddFails, NotStranded
  <2>4. CASE ApRefused \/ Finish \/ RenameInterface
    BY <2>4 DEF ApRefused, Finish, RenameInterface, Ordered, Found, Ends
  <2>5. CASE ViewerFails
    BY <2>5 DEF ViewerFails
  <2>6. CASE NoInfo
    BY <2>6, SetupAssumption DEF NoInfo, GoodFiles, Ordered
  <2>7. CASE HostapdFails
    <3>1. ApStarts
      BY <2>7, SetupAssumption DEF HostapdFails, ApStarts, GoodFiles, ApServes, Ordered, Found
    <3> QED BY <2>0, <2>7, <3>1 DEF HostapdFails
  <2>8. ~(Reboot \/ ClientQuits) /\ \A s \in {3, 4} : ~Run(s)
    BY DEF Reboot, ClientQuits, Run, Goto, Ends
  <2>9. \/ Dies \/ NoTsf \/ PairingQuits \/ CheckTsf \/ GivesUp \/ AddFails \/ ApRefused
        \/ Finish \/ RenameInterface \/ ViewerFails \/ NoInfo \/ HostapdFails
    BY <2>8 DEF Ends, Next, NewConsole, Stage3, Skip, PrepareHost, Scan, Pair, OpenAp, WriteAp,
        Terminate, StartAp, Handshake, SaveInfo, Interface, AddInterface, Replug,
        Stage4, StopNetworkManager, TakeInterface, LinkUp, LinkHeld, StillHeld, StartVnc,
        ViewerConnects, ReadInfo, StartHostapd, RetryNetboot, PadBoots, Goto
  <2> QED BY <2>1, <2>2, <2>3, <2>4, <2>5, <2>6, <2>7, <2>9
<1>4. Ordered => Found
  BY DEF Ordered
<1> QED BY <1>1, <1>2, <1>3, <1>4, PTL DEF Spec
=============================================================================
