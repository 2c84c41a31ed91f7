------------------------------ MODULE VncClient -----------------------------
(***************************************************************************)
(* The VNC viewer of drcvncclient.cpp: the main loop, which polls the      *)
(* GamePad and handles either one SDL event or one message of the VNC      *)
(* server, handleSDLEvent, and the frame limiter in front of the streamer. *)
(*                                                                         *)
(* An iteration's two halves are actions of their own.  That loses no      *)
(* order: an iteration that finds no valid input, or neither event nor     *)
(* message in half a second, does nothing in that half.  vncUpdate is set  *)
(* and cleared within one half, so that it is no state.                    *)
(*                                                                         *)
(* SDL queues the events of the keyboard when it pumps them, and its       *)
(* modifier state is that of the last event pumped, not of the event that  *)
(* is being handled: "queue" and "ctrl" are apart.                         *)
(*                                                                         *)
(* The -listen option, with which the loop starts again after the streamer *)
(* was deleted, is left out.                                               *)
(***************************************************************************)
EXTENDS DrcInput, Sequences

CONSTANTS
    Syms,          \* printable keys of the keyboard
    Specials,      \* other keys than Control that type no text
    Texts,         \* the characters one of them may produce (shift, layout)
    MaxQueue,      \* bound: keyboard events pumped and not yet handled
    FrameWait,     \* frameWaitMS
    Sessions       \* bound: the buttons, keys and other inputs used together

\* Keys that type no text, to their keysyms; those of Low have a keycode below
\* 0x100.  The other sixty or so are like the arrow.
XK == [ctrl |-> "Control", return |-> "Return", escape |-> "Escape", tab |-> "Tab",
       backspace |-> "BackSpace", delete |-> "Delete", arrow |-> "Right"]
Low == Syms \cup {"return", "escape", "tab", "backspace", "delete"}

Ctrl == "ctrl"     \* SDLK_LCTRL
NoSym == "none"    \* symDown = 0
NoText == "none"   \* not in keysDown

\* The mouse buttons the GamePad has too, with its buttons for them, and all that
\* SDL knows.
MouseButtons == {"left", "right"}
Group(b) == IF b = "left" THEN {"ZL", "ZR"} ELSE {"L", "R"}
SdlButtons == {"left", "middle", "right", "wheelUp", "wheelDown"}

Inputs == Buttons \cup SdlButtons \cup Syms \cup Specials \cup {Ctrl, "wheel", "server"}

ASSUME ClientAssumption ==
    /\ MaxQueue \in Nat /\ FrameWait \in Nat /\ Sessions \subseteq SUBSET Inputs
    /\ ({NoSym} \cup DOMAIN XK) \cap Syms = {} /\ NoText \notin Texts
    /\ Specials \subseteq DOMAIN XK \ {Ctrl}

NotStarted == FrameWait + 2    \* startMS = 0

VARIABLES
    devices,       \* what this session uses
    viewOnly,      \* the -viewonly option
    running,
    held,          \* keyboard: keys that are down
    queue,         \* SDL: events pumped and not handled
    symDown,
    keysDown,      \* a key of the keyboard to the character sent for it
    mouse,         \* buttons of the mouse that are down
    elapsed,       \* time since startMS, up to FrameWait + 1
    updates,       \* server: parity of the updates sent
    mixed,         \* history: keys down or queued when Control or the text changed
    dropped        \* history: mouse buttons cleared by another than their own release

keyVars == <<held, queue, symDown, keysDown, mixed>>
mouseVars == <<mouse, dropped>>
frameVars == <<elapsed, updates>>
session == <<devices, viewOnly>>
vars == <<padVars, keyVars, mouseVars, frameVars, session, running>>

Init ==
    /\ InitPad
    /\ devices \in Sessions
    /\ viewOnly \in BOOLEAN
    /\ running = TRUE
    /\ held = {} /\ queue = <<>> /\ mixed = {}
    /\ symDown = NoSym
    /\ keysDown = [s \in Syms \cup {NoSym} |-> NoText]
    /\ mouse = {} /\ dropped = {}
    /\ elapsed = NotStarted
    /\ updates = 0

-----------------------------------------------------------------------------
(* The keyboard and SDL's event pump.                                      *)

KeyDownEvent(s) == [type |-> "KEYDOWN", sym |-> s, text |-> NoText]
KeyUpEvent(s)   == [type |-> "KEYUP", sym |-> s, text |-> NoText]
TextEvent(s, t) == [type |-> "TEXTINPUT", sym |-> s, text |-> t]

Queued(s) == \E i \in DOMAIN queue : queue[i].sym = s

Pump(events) ==
    /\ Len(queue) + Len(events) =< MaxQueue
    /\ queue' = queue \o events
    /\ UNCHANGED <<padVars, mouseVars, frameVars, session, running, symDown, keysDown>>

\* The keys that are down or queued and that Control makes another key of.
Overridden == {s \in (Syms \cup Specials) \cap Low : s \in held \/ Queued(s)}

\* Control is pressed or released; no text comes with it.
PressCtrl ==
    /\ Ctrl \in devices /\ Ctrl \notin held
    /\ Pump(<<KeyDownEvent(Ctrl)>>)
    /\ held' = held \cup {Ctrl}
    /\ mixed' = mixed \cup Overridden

ReleaseCtrl ==
    /\ Ctrl \in held
    /\ Pump(<<KeyUpEvent(Ctrl)>>)
    /\ held' = held \ {Ctrl}
    /\ mixed' = mixed \cup Overridden

\* A key is pressed, or repeats while it is down: its text follows at once,
\* unless Control is down.
Retyped(s, t) ==
    \/ keysDown[s] \notin {t, NoText}
    \/ \E i \in DOMAIN queue : queue[i].type = "TEXTINPUT" /\ queue[i].sym = s /\ queue[i].text # t

PressKey(s, t) ==
    LET typed == Ctrl \notin held
    IN  /\ s \in devices
        /\ Pump(<<KeyDownEvent(s)>> \o IF typed THEN <<TextEvent(s, t)>> ELSE <<>>)
        /\ held' = held \cup {s}
        /\ mixed' = IF s \in held /\ typed /\ Retyped(s, t) THEN mixed \cup {s} ELSE mixed

PressSpecial(s) ==
    /\ s \in devices
    /\ Pump(<<KeyDownEvent(s)>>)
    /\ held' = held \cup {s}
    /\ UNCHANGED mixed

ReleaseKey(s) ==
    /\ s \in held
    /\ Pump(<<KeyUpEvent(s)>>)
    /\ held' = held \ {s}
    /\ UNCHANGED mixed

-----------------------------------------------------------------------------
(* handleSDLEvent: one event of the queue, or of the mouse.                *)

\* A key that types no text is sent by its keysym; while SDL says that Control is
\* down, every key below 0x100 is sent by its keycode, whatever its keysym.
SDL_key2rfbKeySym(s) ==
    IF Ctrl \in held /\ s \in Low THEN s
    ELSE IF s \in DOMAIN XK THEN XK[s] ELSE NoSym

SameKeyboard == UNCHANGED <<held, mixed, mouseVars, frameVars, session, running>>
SamePad == UNCHANGED <<prev, joystick, missed>>

KeyDown(s) ==
    LET rfbkey == SDL_key2rfbKeySym(s)
    IN  IF viewOnly THEN UNCHANGED <<keys, symDown>>
        ELSE IF rfbkey # NoSym
        THEN keys' = keys \cup {rfbkey} /\ UNCHANGED symDown
        ELSE symDown' = s /\ UNCHANGED keys

KeyUpOfSym(s) ==                 \* releases the key, not what it typed
    IF viewOnly THEN UNCHANGED <<keys, keysDown>>
    ELSE /\ keys' = keys \ {IF s \in DOMAIN XK THEN XK[s] ELSE s}
         /\ UNCHANGED keysDown

KeyUp(s) ==
    LET rfbkey == SDL_key2rfbKeySym(s)
    IN  IF viewOnly THEN UNCHANGED <<keys, keysDown>>
        ELSE IF rfbkey # NoSym
        THEN keys' = keys \ {rfbkey} /\ UNCHANGED keysDown
        ELSE /\ keys' = keys \ {keysDown[s]}
             /\ keysDown' = [keysDown EXCEPT ![s] = NoText]

\* Text is sent whatever viewOnly says.
TextInput(t) ==
    /\ keysDown' = [keysDown EXCEPT ![symDown] = t]
    /\ symDown' = NoSym
    /\ keys' = keys \cup {t}

HandleKey ==
    /\ running /\ queue # <<>>
    /\ LET e == Head(queue)
       IN  \/ e.type = "KEYDOWN" /\ KeyDown(e.sym) /\ UNCHANGED keysDown
           \/ e.type = "KEYUP" /\ KeyUp(e.sym) /\ UNCHANGED symDown
           \/ e.type = "TEXTINPUT" /\ TextInput(e.text)
    /\ queue' = Tail(queue)
    /\ SameKeyboard /\ SamePad /\ UNCHANGED buttonMask

\* A button of the mouse: the mask is shared with the GamePad's.  The two side
\* buttons, X1 and X2, have the bits that the wheel uses.
MouseDown(b) ==
    /\ running /\ b \in devices /\ queue = <<>> /\ b \notin mouse
    /\ mouse' = mouse \cup {b}
    /\ buttonMask' = IF viewOnly THEN buttonMask ELSE buttonMask \cup {b}
    /\ dropped' = IF viewOnly THEN dropped ELSE dropped \ {b}
    /\ SamePad /\ UNCHANGED <<keys, keyVars, frameVars, session, running>>

MouseUp(b) ==
    /\ running /\ queue = <<>> /\ b \in mouse
    /\ mouse' = mouse \ {b}
    /\ buttonMask' = IF viewOnly THEN buttonMask ELSE buttonMask \ {b}
    /\ dropped' = IF viewOnly THEN dropped ELSE dropped \cup ({b} \cap MouseButtons)
    /\ SamePad /\ UNCHANGED <<keys, keyVars, frameVars, session, running>>

\* The wheel's bit is set and cleared again, a side button's with it.
WheelStays(mask, bit) == mask \cup {bit}
WheelClear(mask, bit) == mask \ {bit}

MouseWheel(bit) ==
    /\ running /\ "wheel" \in devices /\ queue = <<>>
    /\ buttonMask' = WheelClear(buttonMask, bit)
    /\ SamePad /\ UNCHANGED <<keys, keyVars, mouseVars, frameVars, session, running>>

\* SDL_QUIT: the program exits.
Quit ==
    /\ running /\ queue = <<>>
    /\ running' = FALSE
    /\ UNCHANGED <<padVars, keyVars, mouseVars, frameVars, session>>

-----------------------------------------------------------------------------
(* The other half of the loop, the server and the clock.                   *)

\* PollInput and Process_DRC_Input.
Poll(now) ==
    /\ running
    /\ Process_DRC_Input(now)
    /\ LET changed  == {b \in MouseButtons : Changed(Group(b), now)}
           pressed  == {b \in changed : Down(Group(b), now)}
           released == IF Changed({"Up"}, now) /\ "Up" \notin now
                       THEN MouseButtons ELSE changed \ pressed
       IN  dropped' = IF joystick' THEN dropped ELSE (dropped \ pressed) \cup released
    /\ UNCHANGED <<keyVars, mouse, frameVars, session, running>>

\* Push_DRC_Frame: a frame is pushed when the last one is long enough ago.
\* The first call only starts the clock.
PushSinceLastCall == elapsed' = 0      \* startMS set by every call

Push_DRC_Frame ==
    elapsed' = IF elapsed = NotStarted \/ elapsed > FrameWait THEN 0 ELSE elapsed

\* HandleRFBServerMessage calls update, and the loop pushes a frame.
ServerUpdate ==
    /\ running /\ "server" \in devices /\ queue = <<>>
    /\ updates' = 1 - updates
    /\ Push_DRC_Frame
    /\ UNCHANGED <<padVars, keyVars, mouseVars, session, running>>

\* WaitForMessage or HandleRFBServerMessage fails: the loop ends.
ServerGone ==
    /\ running /\ queue = <<>>
    /\ running' = FALSE
    /\ UNCHANGED <<padVars, keyVars, mouseVars, frameVars, session>>

\* Time passes.
Tick ==
    /\ elapsed =< FrameWait
    /\ elapsed' = elapsed + 1
    /\ UNCHANGED <<padVars, keyVars, mouseVars, updates, session, running>>

-----------------------------------------------------------------------------
KeyMoves ==
    \/ \E s \in Syms, t \in Texts : PressKey(s, t)
    \/ \E s \in Specials : PressSpecial(s)
    \/ \E s \in Syms \cup Specials : ReleaseKey(s)

Next ==
    \/ PressCtrl \/ ReleaseCtrl \/ KeyMoves \/ HandleKey
    \/ \E b \in SdlButtons : MouseDown(b) \/ MouseUp(b)
    \/ \E bit \in {"wheelUp", "wheelDown"} : MouseWheel(bit)
    \/ \E now \in SUBSET (Buttons \cap devices) : Poll(now)
    \/ ServerUpdate \/ ServerGone \/ Quit \/ Tick

\* Time does not stop.
Spec == Init /\ [][Next]_vars /\ WF_vars(Tick)

-----------------------------------------------------------------------------
\* Types; the wheel's bits stay in the mask only for a side button that is down.
TypeOK ==
    /\ prev \subseteq Buttons /\ missed \subseteq Buttons
    /\ buttonMask \subseteq MouseButtons \cup IF viewOnly THEN {} ELSE mouse
    /\ mouse \subseteq SdlButtons /\ dropped \subseteq MouseButtons
    /\ devices \in Sessions
    /\ joystick \in BOOLEAN /\ viewOnly \in BOOLEAN /\ running \in BOOLEAN
    /\ held \subseteq Syms \cup Specials \cup {Ctrl} /\ mixed \subseteq Syms \cup Specials
    /\ symDown \in Syms \cup {NoSym}
    /\ keysDown \in [Syms \cup {NoSym} -> Texts \cup {NoText}]
    /\ elapsed \in 0..NotStarted /\ updates \in {0, 1}

\* "Left click with ZL or ZR, and right click with L or R" (drcvncclient.cpp
\* header), with a mouse that has the same two buttons: a button is down on
\* the remote desktop only while somebody holds it, and is down while somebody
\* holds it who pressed it after the last release: a release on the other
\* device, or of Up, takes it away.  What changed in joystick mode, and the
\* mouse of a view-only client, do not count.
ClicksFollow ==
    \A b \in MouseButtons :
        LET pad   == Down(Group(b), prev)
            byPad == pad \/ Group(b) \cap missed # {}
        IN  /\ b \in buttonMask => byPad \/ (b \in mouse /\ ~viewOnly)
            /\ \/ b \in buttonMask \/ b \in dropped \/ Group(b) \cap missed # {}
               \/ ~pad /\ (b \notin mouse \/ viewOnly)

\* What may be sent for a key that types no text.
Codes(s) == {XK[s]} \cup ({s} \cap Low)

\* No key stays down on the remote desktop after it was released on the GamePad
\* and on the keyboard, whatever was pressed together with it and however late
\* SDL's events are handled.  Four things are known to leave one down: a
\* button held across a switch to joystick mode; a key, Return and its like
\* included, held while Control or the character it types changes; text typed
\* into a view-only client; and Home, whose release is not looked at unless Minus
\* changes with it.
NoStuckKeys ==
    LET down    == {s \in Syms \cup Specials \cup {Ctrl} : s \in held \/ Queued(s)}
        typed   == IF (down \cup mixed) \cap Syms # {} THEN Texts \cup Syms ELSE {}
        special == UNION {Codes(s) : s \in (down \cup mixed) \ Syms}
        pad     == prev \cup missed \cup ({"Home"} \cap devices)
    IN  ~viewOnly => keys \subseteq (UNION {Types(b) : b \in pad}) \cup typed \cup special

\* The frame limiter of Push_DRC_Frame drops updates that follow a frame too
\* fast; but as long as the server sends updates, at whatever rate, frames are
\* pushed to the GamePad.
FramesKeepComing ==
    []<><<ServerUpdate>>_updates => []<><<elapsed > FrameWait /\ elapsed # NotStarted /\ elapsed' = 0>>_elapsed
=============================================================================
