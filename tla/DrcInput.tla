------------------------------- MODULE DrcInput -----------------------------
(***************************************************************************)
(* What the GamePad's buttons do to the remote desktop: Process_DRC_Input  *)
(* of drcvncclient.cpp, called by the main loop with each valid input it   *)
(* polls.  Inputs are polled, so that several buttons may have changed     *)
(* since the last one.  VncClient makes the rest of the client of it.      *)
(*                                                                         *)
(* A button mask is the set of the RFB buttons in it.  Each change of the  *)
(* mask is sent to the VNC server at once, so that it is also what the     *)
(* server knows.  Where the pointer is, which the touch screen and the     *)
(* mouse both set, is left out: no property tells positions apart.         *)
(***************************************************************************)
EXTENDS Naturals, FiniteSets

CONSTANTS
    Buttons        \* the buttons of the GamePad that are used

AllButtons == {"ZL", "ZR", "L", "R", "Down", "Up", "Right", "Left", "A", "B",
               "X", "Y", "Plus", "Minus", "Home", "TV"}

ASSUME InputAssumption == Buttons \subseteq AllButtons

VARIABLES
    prev,         \* prev_buttons and its parts
    buttonMask,
    joystick,     \* drcJoystickMode
    keys,         \* server: keys that are down
    missed        \* history: buttons whose last change fell in joystick mode

padVars == <<prev, buttonMask, joystick, keys, missed>>

\* The -joystick option chooses the first mode.
InitPad ==
    /\ prev = {}
    /\ buttonMask = {}
    /\ joystick \in BOOLEAN
    /\ keys = {}
    /\ missed = {}

-----------------------------------------------------------------------------
\* A group of buttons counts as changed when any of its bits changes.
Changed(group, now) == group \cap prev # group \cap now
Down(group, now)    == group \cap now # {}

\* A mouse button that follows a group of GamePad buttons.
ClickBoth(mask, button, group, now) ==           \* needs all of the group
    IF ~Changed(group, now) THEN mask
    ELSE IF group \subseteq now THEN mask \cup {button} ELSE mask \ {button}

Click(mask, button, group, now) ==
    IF ~Changed(group, now) THEN mask
    ELSE IF Down(group, now) THEN mask \cup {button} ELSE mask \ {button}

\* Down and Up turn the wheel, whose bits are set and cleared again.  When Up
\* is released the mask is and-ed with 8 after bit 8 was cleared.
WheelDown(mask, now) == IF Changed({"Down"}, now) THEN mask \ {"wheelDown"} ELSE mask
WheelUp(mask, now) ==
    IF ~Changed({"Up"}, now) THEN mask
    ELSE IF Down({"Up"}, now) THEN mask \ {"wheelUp"}
    ELSE (mask \ {"wheelUp"}) \cap {"wheelUp"}

MouseMask(now) ==
    LET left  == Click(buttonMask, "left", {"ZL", "ZR"}, now)
        right == Click(left, "right", {"L", "R"}, now)
    IN  WheelUp(WheelDown(right, now), now)

\* The keys a button types.
KeyOf == [Right |-> "Right", Left |-> "Left", A |-> "Return", B |-> "BackSpace",
          X |-> "space", Y |-> "Tab"]

PressOrRelease(down, button, syms, now) ==
    IF ~Changed({button}, now) THEN down
    ELSE IF button \in now THEN down \cup syms ELSE down \ syms

\* Plus pastes and Minus copies; the code for Home is inside the block for
\* Minus, so that it is only reached when Minus changes too.
KeysWith(now) ==
    LET plain  == {KeyOf[b] : b \in {b \in DOMAIN KeyOf : Changed({b}, now) /\ b \in now}}
        gone   == {KeyOf[b] : b \in {b \in DOMAIN KeyOf : Changed({b}, now) /\ b \notin now}}
        paste  == PressOrRelease((keys \cup plain) \ gone, "Plus", {"Control", "v"}, now)
        copy   == PressOrRelease(paste, "Minus", {"Control", "c"}, now)
    IN  IF Changed({"Minus"}, now)
        THEN PressOrRelease(copy, "Home", {"Escape"}, now) ELSE copy

-----------------------------------------------------------------------------
\* TV switches modes first; only mouse mode sends anything.
Mode(now) == IF Changed({"TV"}, now) /\ "TV" \in now THEN ~joystick ELSE joystick

ProcessButtons(now) ==
    /\ joystick' = Mode(now)
    /\ buttonMask' = IF joystick' THEN buttonMask ELSE MouseMask(now)
    /\ keys' = IF joystick' THEN keys ELSE KeysWith(now)
    /\ prev' = now

Process_DRC_Input(now) ==
    /\ ProcessButtons(now)
    /\ LET changes == {b \in Buttons : Changed({b}, now)}
       IN  missed' = IF joystick' THEN missed \cup changes ELSE missed \ changes

-----------------------------------------------------------------------------
\* The keys a button can hold down.
Types(b) ==
    IF b \in DOMAIN KeyOf THEN {KeyOf[b]}
    ELSE IF b = "Plus" THEN {"Control", "v"}
    ELSE IF b = "Minus" THEN {"Control", "c"}
    ELSE IF b = "Home" THEN {"Escape"} ELSE {}
=============================================================================
