--------------------------- MODULE VncClientProofs --------------------------
(***************************************************************************)
(* Theorems about VncClient, for any buttons, keys and sessions.           *)
(***************************************************************************)
EXTENDS VncClient, SequenceTheorems, TLAPS

\* ClicksFollow needs to know that a button that changes is one of Buttons.
ClicksInv == prev \subseteq Buttons /\ ClicksFollow

LEMMA ClicksInvInit == ASSUME Init PROVE ClicksInv
  BY DEF Init, InitPad, ClicksInv, ClicksFollow, MouseButtons, Group, Down

\* In joystick mode nothing is sent, and what changes is missed.
LEMMA PollJoystick ==
  ASSUME ClicksInv, NEW now \in SUBSET Buttons, Poll(now), joystick'
  PROVE  ClicksInv'
<1>1. /\ prev' = now /\ buttonMask' = buttonMask /\ dropped' = dropped
      /\ mouse' = mouse /\ viewOnly' = viewOnly
      /\ missed' = missed \cup {b \in Buttons : Changed({b}, now)}
  BY DEF Poll, Process_DRC_Input, ProcessButtons, session
<1>2. SUFFICES ASSUME NEW b \in MouseButtons
      PROVE /\ b \in buttonMask' => \/ Down(Group(b), now) \/ Group(b) \cap missed' # {}
                                    \/ b \in mouse /\ ~viewOnly
            /\ \/ b \in buttonMask' \/ b \in dropped \/ Group(b) \cap missed' # {}
               \/ ~Down(Group(b), now) /\ (b \notin mouse \/ viewOnly)
  BY <1>1 DEF ClicksInv, ClicksFollow, MouseButtons
<1>3. CASE Changed(Group(b), now)
  <2>1. PICK g \in Group(b) : Changed({g}, now)
    BY <1>3 DEF Changed
  <2>2. g \in Buttons
    BY <2>1 DEF Changed, ClicksInv
  <2> QED BY <1>1, <2>1, <2>2
<1>4. CASE ~Changed(Group(b), now)
  <2>1. Down(Group(b), now) <=> Down(Group(b), prev)
    BY <1>4 DEF Changed, Down
  <2>2. Group(b) \cap missed # {} => Group(b) \cap missed' # {}
    BY <1>1
  <2> QED BY <1>1, <2>1, <2>2 DEF ClicksInv, ClicksFollow
<1> QED BY <1>3, <1>4

\* The buttons of the mask after Process_DRC_Input in mouse mode.
LEMMA MaskAfter ==
  ASSUME NEW now, NEW b \in MouseButtons
  PROVE  /\ b \in MouseMask(now) =>
                \/ Changed(Group(b), now) /\ Down(Group(b), now)
                \/ ~Changed(Group(b), now) /\ b \in buttonMask
         /\ Changed(Group(b), now) /\ Down(Group(b), now) =>
                b \in MouseMask(now) \/ (Changed({"Up"}, now) /\ ~Down({"Up"}, now))
         /\ ~Changed(Group(b), now) /\ b \in buttonMask =>
                b \in MouseMask(now) \/ (Changed({"Up"}, now) /\ ~Down({"Up"}, now))
  BY DEF MouseMask, WheelUp, WheelDown, Click, Group, MouseButtons

LEMMA PollMouse ==
  ASSUME ClicksInv, NEW now \in SUBSET Buttons, Poll(now), ~joystick'
  PROVE  ClicksInv'
<1> DEFINE changed  == {b \in MouseButtons : Changed(Group(b), now)}
           pressed  == {b \in changed : Down(Group(b), now)}
           released == IF Changed({"Up"}, now) /\ "Up" \notin now
                       THEN MouseButtons ELSE changed \ pressed
<1>1. /\ prev' = now /\ buttonMask' = MouseMask(now)
      /\ mouse' = mouse /\ viewOnly' = viewOnly
      /\ missed' = missed \ {b \in Buttons : Changed({b}, now)}
      /\ dropped' = (dropped \ pressed) \cup released
  BY DEF Poll, Process_DRC_Input, ProcessButtons, session
<1>2. SUFFICES ASSUME NEW b \in MouseButtons
      PROVE /\ b \in buttonMask' => \/ Down(Group(b), now) \/ Group(b) \cap missed' # {}
                                    \/ b \in mouse /\ ~viewOnly
            /\ \/ b \in buttonMask' \/ b \in dropped' \/ Group(b) \cap missed' # {}
               \/ ~Down(Group(b), now) /\ (b \notin mouse \/ viewOnly)
  BY <1>1 DEF ClicksInv, ClicksFollow, MouseButtons
<1>3. Changed({"Up"}, now) /\ ~Down({"Up"}, now) => b \in dropped'
  BY <1>1 DEF Down
<1>4. CASE Changed(Group(b), now)
  <2>1. CASE Down(Group(b), now)
    BY <1>1, <1>3, <1>4, <2>1, MaskAfter
  <2>2. CASE ~Down(Group(b), now)
    <3>1. b \in changed \ pressed
      BY <1>4, <2>2
    <3>2. b \in dropped'
      BY <1>1, <3>1
    <3>3. b \notin buttonMask'
      BY <1>1, <1>4, <2>2, MaskAfter
    <3> QED BY <3>2, <3>3
  <2> QED BY <2>1, <2>2
<1>5. CASE ~Changed(Group(b), now)
  <2>1. Down(Group(b), now) <=> Down(Group(b), prev)
    BY <1>5 DEF Changed, Down
  <2>2. Group(b) \cap missed' = Group(b) \cap missed
    <3>1. \A g \in Group(b) : ~Changed({g}, now)
      BY <1>5 DEF Changed
    <3> QED BY <1>1, <3>1
  <2>3. b \in dropped => b \in dropped'
    BY <1>1, <1>5
  <2>4. b \in buttonMask' => b \in buttonMask
    BY <1>1, <1>5, MaskAfter
  <2>5. b \in buttonMask => b \in buttonMask' \/ b \in dropped'
    BY <1>1, <1>3, <1>5, MaskAfter
  <2> QED BY <2>1, <2>2, <2>3, <2>4, <2>5 DEF ClicksInv, ClicksFollow
<1> QED BY <1>4, <1>5

\* Steps that leave the mouse, the GamePad and the mask alone.
LEMMA ClicksQuiet ==
  ASSUME ClicksInv, UNCHANGED <<prev, missed, buttonMask, mouse, dropped, viewOnly>>
  PROVE  ClicksInv'
  BY DEF ClicksInv, ClicksFollow, Down

-----------------------------------------------------------------------------
\* A mouse button of the remote desktop is down only while the GamePad or the
\* mouse holds it, and stays down for whoever pressed it last until something
\* releases it, through every mixture of clicks, wheel, Up, mode switches and
\* the two devices (handleSDLEvent and Process_DRC_Input share buttonMask).
THEOREM ClicksAlwaysFollow == Spec => []ClicksFollow
<1>1. Init => ClicksInv BY ClicksInvInit
<1>2. ClicksInv /\ [Next]_vars => ClicksInv'
  <2> SUFFICES ASSUME ClicksInv, [Next]_vars PROVE ClicksInv' OBVIOUS
  <2>1. CASE PressCtrl \/ ReleaseCtrl \/ KeyMoves
    BY <2>1, ClicksQuiet DEF PressCtrl, ReleaseCtrl, KeyMoves, ReleaseKey, PressKey, PressSpecial,
                             Pump, padVars, mouseVars, session
  <2>2. CASE HandleKey
    BY <2>2, ClicksQuiet DEF HandleKey, SameKeyboard, SamePad, mouseVars, session
  <2>3. ASSUME NEW b \in SdlButtons, MouseDown(b) \/ MouseUp(b) PROVE ClicksInv'
    BY <2>3 DEF MouseDown, MouseUp, SamePad, session, ClicksInv, ClicksFollow, Down
  <2>4. ASSUME NEW bit \in {"wheelUp", "wheelDown"}, MouseWheel(bit) PROVE ClicksInv'
    BY <2>4 DEF MouseWheel, WheelClear, SamePad, mouseVars, session, ClicksInv, ClicksFollow,
                Down, MouseButtons
  <2>5. ASSUME NEW now \in SUBSET (Buttons \cap devices), Poll(now) PROVE ClicksInv'
    BY <2>5, PollJoystick, PollMouse
  <2>6. CASE ServerUpdate \/ ServerGone \/ Quit \/ Tick \/ UNCHANGED vars
    BY <2>6, ClicksQuiet DEF ServerUpdate, ServerGone, Quit, Tick, vars, padVars, mouseVars,
                             session
  <2> QED BY <2>1, <2>2, <2>3, <2>4, <2>5, <2>6 DEF Next
<1>3. ClicksInv => ClicksFollow BY DEF ClicksInv
<1> QED BY <1>1, <1>2, <1>3, PTL DEF Spec

-----------------------------------------------------------------------------
(* The events that wait, and what is down because of the keyboard.         *)

AllKeys == Syms \cup Specials \cup {Ctrl}

LEMMA KeyNames ==
  /\ Ctrl \notin Syms /\ NoSym \notin Syms /\ Specials \cap Syms = {} /\ NoText \notin Texts
  /\ Ctrl \notin Specials /\ NoSym \notin Specials /\ Ctrl # NoSym
  BY ClientAssumption DEF XK, Ctrl, NoSym

Events == [type : {"KEYDOWN", "KEYUP"}, sym : AllKeys, text : {NoText}]
             \cup [type : {"TEXTINPUT"}, sym : Syms, text : Texts]

\* A release of key s waits in q after position i.
Released(q, i, s) == \E j \in 1 .. Len(q) : j > i /\ q[j].type = "KEYUP" /\ q[j].sym = s

\* A press that waits is of a key that is down, or that is released later.
PressesEnd ==
    \A i \in 1 .. Len(queue) :
        queue[i].type # "KEYUP" =>
            queue[i].sym \in held \/ Released(queue, i, queue[i].sym)

\* Text follows the press of its key.
TextFollows ==
    \A i \in 1 .. Len(queue) :
        queue[i].type = "TEXTINPUT" =>
            IF i = 1 THEN symDown = queue[i].sym
            ELSE queue[i - 1].type = "KEYDOWN" /\ queue[i - 1].sym = queue[i].sym

\* Text does not replace other text of a key that was not released since: neither
\* what was sent for the key nor what waits.
TextStandsAt(q, sent, i) ==
    LET s == q[i].sym
    IN  /\ \/ sent[s] \in {q[i].text, NoText}
           \/ \E j \in 1 .. i - 1 : q[j].type = "KEYUP" /\ q[j].sym = s
        /\ \A j \in 1 .. i - 1 :
              q[j].type = "TEXTINPUT" /\ q[j].sym = s /\ q[j].text # q[i].text
                  => \E l \in j + 1 .. i - 1 : q[l].type = "KEYUP" /\ q[l].sym = s

TextStands ==
    \A i \in 1 .. Len(queue) :
        queue[i].type = "TEXTINPUT" => TextStandsAt(queue, keysDown, i)

\* What was sent for a key will be released.
SentEnds == \A s \in Syms : keysDown[s] # NoText => s \in held \/ Released(queue, 0, s)

\* No text with Control.
CtrlSilent ==
    Ctrl \in held => /\ \A i \in 1 .. Len(queue) : queue[i].type # "TEXTINPUT"
                     /\ \A s \in Syms : keysDown[s] = NoText

Waiting(s) == s \in held \/ \E i \in 1 .. Len(queue) : queue[i].sym = s

\* Why key k is down: a button, a key that types no text, or one that does.
ByPad(k)  == \E b \in prev \cup missed \cup ({"Home"} \cap devices) : k \in Types(b)
BySpecial(k) ==
    \E s \in Specials \cup {Ctrl} :
        (Waiting(s) /\ k = SDL_key2rfbKeySym(s)) \/ (s \in mixed /\ k \in Codes(s))
ByKey(k)  == IF Ctrl \in held THEN k \in Syms /\ Waiting(k)
             ELSE k \in Texts /\ \E s \in Syms : keysDown[s] = k /\ Waiting(s)

\* A key that types was held while Control or its text changed.
Mixed == mixed \cap Syms # {}

HasReason(k) == ByPad(k) \/ BySpecial(k) \/ ByKey(k) \/ (Mixed /\ k \in Texts \cup Syms)

Calm == ~viewOnly /\ ~Mixed

Orders   == PressesEnd /\ (Calm => TextFollows /\ TextStands /\ SentEnds /\ CtrlSilent)
PadSeen  == prev \subseteq devices /\ missed \subseteq devices
Reasons  == ~viewOnly => \A k \in keys : HasReason(k)

-----------------------------------------------------------------------------
(* Types.                                                                  *)

TypeInv == TypeOK /\ queue \in Seq(Events)

LEMMA EventFacts ==
  ASSUME NEW e \in Events
  PROVE  /\ e.type \in {"KEYDOWN", "KEYUP", "TEXTINPUT"}
         /\ e.sym \in AllKeys
         /\ e.type = "TEXTINPUT" => e.sym \in Syms /\ e.text \in Texts
         /\ e.type # "TEXTINPUT" => e.text = NoText
  BY DEF Events, AllKeys

\* The queue when its first event is taken.
LEMMA TailFacts ==
  ASSUME NEW q \in Seq(Events), q # <<>>
  PROVE  /\ Tail(q) \in Seq(Events) /\ Len(q) \in Nat \ {0} /\ Len(Tail(q)) = Len(q) - 1
         /\ Head(q) = q[1] /\ q[1] \in Events
         /\ \A i \in 1 .. Len(q) - 1 : Tail(q)[i] = q[i + 1]
  OBVIOUS

LEMMA TypeInit == ASSUME Init PROVE TypeInv
  BY ClientAssumption DEF Init, InitPad, TypeInv, TypeOK, NotStarted, MouseButtons

LEMMA MaskType ==
  ASSUME NEW now
  PROVE  MouseMask(now) \subseteq MouseButtons \cup buttonMask
  BY DEF MouseMask, Click, WheelDown, WheelUp, MouseButtons

LEMMA TypePump ==
  ASSUME TypeInv, NEW ev \in Seq(Events), Pump(ev),
         held' \subseteq AllKeys, mixed' \subseteq Syms \cup Specials
  PROVE  TypeInv'
  BY DEF TypeInv, TypeOK, AllKeys, Pump, padVars, mouseVars, frameVars, session

LEMMA TypeKeyboard ==
  ASSUME TypeInv, PressCtrl \/ ReleaseCtrl \/ KeyMoves
  PROVE  TypeInv'
<1>1. ASSUME NEW s \in AllKeys
      PROVE  <<KeyDownEvent(s)>> \in Seq(Events) /\ <<KeyUpEvent(s)>> \in Seq(Events)
  BY DEF KeyDownEvent, KeyUpEvent, Events
<1>2. Ctrl \in AllKeys /\ held \subseteq AllKeys /\ mixed \subseteq Syms \cup Specials
      /\ Overridden \subseteq Syms \cup Specials
  BY DEF AllKeys, TypeInv, TypeOK, Overridden
<1>3. CASE PressCtrl \/ ReleaseCtrl
  <2>1. held' \subseteq AllKeys /\ mixed' \subseteq Syms \cup Specials
    BY <1>2, <1>3 DEF PressCtrl, ReleaseCtrl
  <2> QED BY <1>1, <1>2, <1>3, <2>1, TypePump DEF PressCtrl, ReleaseCtrl
<1>4. ASSUME NEW s \in Syms \cup Specials, ReleaseKey(s) \/ (s \in Specials /\ PressSpecial(s))
      PROVE  TypeInv'
  <2>1. s \in AllKeys /\ held' \subseteq AllKeys /\ mixed' \subseteq Syms \cup Specials
    BY <1>2, <1>4 DEF ReleaseKey, PressSpecial, AllKeys
  <2> QED BY <1>1, <1>4, <2>1, TypePump DEF ReleaseKey, PressSpecial
<1>5. ASSUME NEW s \in Syms, NEW t \in Texts, PressKey(s, t) PROVE TypeInv'
  <2> DEFINE rest == IF Ctrl \notin held THEN <<TextEvent(s, t)>> ELSE <<>>
  <2>1. rest \in Seq(Events)
    <3>1. TextEvent(s, t) \in Events
      BY DEF TextEvent, Events
    <3> QED BY <3>1
  <2>2. <<KeyDownEvent(s)>> \o rest \in Seq(Events)
    <3>1. s \in AllKeys
      BY DEF AllKeys
    <3> HIDE DEF rest
    <3> QED BY <1>1, <2>1, <3>1
  <2>3. held' \subseteq AllKeys /\ mixed' \subseteq Syms \cup Specials
    BY <1>2, <1>5 DEF PressKey, AllKeys
  <2> QED BY <1>5, <2>2, <2>3, TypePump DEF PressKey
<1> QED BY <1>3, <1>4, <1>5 DEF KeyMoves

\* How a key is sent: one that types by its keycode with Control, and by its text
\* without; the others always.
LEMMA ByCode ==
  ASSUME NEW s \in AllKeys
  PROVE  /\ s \in Syms => SDL_key2rfbKeySym(s) = IF Ctrl \in held THEN s ELSE NoSym
         /\ s \notin Syms => SDL_key2rfbKeySym(s) # NoSym /\ SDL_key2rfbKeySym(s) \in Codes(s)
         /\ s \notin Syms /\ s \notin Low => SDL_key2rfbKeySym(s) = XK[s]
<1>1. CASE s \in Syms
  BY <1>1, ClientAssumption DEF SDL_key2rfbKeySym, Low
<1>2. CASE s \notin Syms
  <2>1. s \in DOMAIN XK
    BY <1>2, ClientAssumption DEF AllKeys, XK, Ctrl
  <2>2. s # NoSym /\ XK[s] # NoSym
    BY <2>1 DEF XK, NoSym
  <2> QED BY <1>2, <2>1, <2>2 DEF SDL_key2rfbKeySym, Codes
<1> QED BY <1>1, <1>2

LEMMA TypeHandle == ASSUME TypeInv, HandleKey PROVE TypeInv'
<1> DEFINE e == Head(queue)
<1>1. queue # <<>> /\ queue \in Seq(Events) /\ queue' = Tail(queue)
  BY DEF HandleKey, TypeInv
<1>2. e \in Events /\ queue' \in Seq(Events)
  BY <1>1, TailFacts
<1> HIDE DEF e
<1>3. symDown' \in Syms \cup {NoSym}
  <2>1. CASE e.type = "KEYDOWN" /\ KeyDown(e.sym)
    <3>1. e.sym \in AllKeys
      BY <1>2, EventFacts
    <3>2. SDL_key2rfbKeySym(e.sym) = NoSym => e.sym \in Syms
      BY <3>1, ByCode
    <3> QED BY <2>1, <3>2 DEF TypeInv, TypeOK, KeyDown
  <2>2. CASE e.type = "KEYUP" /\ UNCHANGED symDown
    BY <2>2 DEF TypeInv, TypeOK
  <2>3. CASE e.type = "TEXTINPUT" /\ TextInput(e.text)
    BY <2>3 DEF TextInput
  <2> QED BY <2>1, <2>2, <2>3 DEF HandleKey, e
<1>4. keysDown' \in [Syms \cup {NoSym} -> Texts \cup {NoText}]
  <2>1. CASE e.type = "KEYDOWN" /\ UNCHANGED keysDown
    BY <2>1 DEF TypeInv, TypeOK
  <2>2. CASE e.type = "KEYUP" /\ KeyUp(e.sym)
    BY <2>2 DEF TypeInv, TypeOK, KeyUp
  <2>3. CASE e.type = "TEXTINPUT" /\ TextInput(e.text)
    <3>1. e.text \in Texts
      BY <1>2, <2>3, EventFacts
    <3> QED BY <2>3, <3>1 DEF TypeInv, TypeOK, TextInput
  <2> QED BY <2>1, <2>2, <2>3 DEF HandleKey, e
<1>5. /\ UNCHANGED <<held, mixed, mouseVars, frameVars, session, running>>
      /\ UNCHANGED <<prev, joystick, missed, buttonMask>>
  BY DEF HandleKey, SameKeyboard, SamePad
<1> QED BY <1>2, <1>3, <1>4, <1>5 DEF TypeInv, TypeOK, mouseVars, frameVars, session

LEMMA TypePoll ==
  ASSUME TypeInv, NEW now \in SUBSET (Buttons \cap devices), Poll(now)
  PROVE  TypeInv'
<1>1. prev' \subseteq Buttons /\ missed' \subseteq Buttons /\ joystick' \in BOOLEAN
  BY DEF TypeInv, TypeOK, Poll, Process_DRC_Input, ProcessButtons, Mode
<1>2. buttonMask' \subseteq MouseButtons \cup IF viewOnly THEN {} ELSE mouse
  BY MaskType DEF TypeInv, TypeOK, Poll, Process_DRC_Input, ProcessButtons
<1>3. dropped' \subseteq MouseButtons
  BY DEF TypeInv, TypeOK, Poll
<1>4. UNCHANGED <<keyVars, mouse, frameVars, session, running>>
  BY DEF Poll
<1> QED BY <1>1, <1>2, <1>3, <1>4 DEF TypeInv, TypeOK, keyVars, frameVars, session

LEMMA TypeMouse ==
  ASSUME TypeInv,
         \/ \E b \in SdlButtons : MouseDown(b) \/ MouseUp(b)
         \/ \E bit \in {"wheelUp", "wheelDown"} : MouseWheel(bit)
  PROVE  TypeInv'
<1>1. buttonMask' \subseteq (MouseButtons \cup IF viewOnly THEN {} ELSE mouse')
      /\ mouse' \subseteq SdlButtons
      /\ dropped' \subseteq MouseButtons
  BY DEF TypeInv, TypeOK, MouseDown, MouseUp, MouseWheel, WheelClear, mouseVars, session
<1>2. UNCHANGED <<keyVars, frameVars, session, running>> /\ UNCHANGED <<prev, joystick, missed>>
  BY DEF MouseDown, MouseUp, MouseWheel, SamePad
<1> QED BY <1>1, <1>2 DEF TypeInv, TypeOK, keyVars, frameVars, session

LEMMA TypeOther ==
  ASSUME TypeInv, ServerUpdate \/ ServerGone \/ Quit \/ Tick \/ UNCHANGED vars
  PROVE  TypeInv'
<1>1. elapsed' \in 0 .. NotStarted /\ updates' \in {0, 1}
  BY ClientAssumption DEF TypeInv, TypeOK, ServerUpdate, Push_DRC_Frame, ServerGone, Quit, Tick,
                          vars, frameVars, NotStarted
<1>2. running' \in BOOLEAN
  BY DEF TypeInv, TypeOK, ServerUpdate, ServerGone, Quit, Tick, vars
<1>3. UNCHANGED <<padVars, keyVars, mouseVars, session>>
  BY DEF ServerUpdate, ServerGone, Quit, Tick, vars
<1> QED BY <1>1, <1>2, <1>3 DEF TypeInv, TypeOK, padVars, keyVars, mouseVars, session

LEMMA TypeStep == ASSUME TypeInv, [Next]_vars PROVE TypeInv'
<1>1. CASE PressCtrl \/ ReleaseCtrl \/ KeyMoves
  BY <1>1, TypeKeyboard
<1>2. CASE HandleKey
  BY <1>2, TypeHandle
<1>3. CASE \/ \E b \in SdlButtons : MouseDown(b) \/ MouseUp(b)
           \/ \E bit \in {"wheelUp", "wheelDown"} : MouseWheel(bit)
  BY <1>3, TypeMouse
<1>4. ASSUME NEW now \in SUBSET (Buttons \cap devices), Poll(now) PROVE TypeInv'
  BY <1>4, TypePoll
<1>5. CASE ServerUpdate \/ ServerGone \/ Quit \/ Tick \/ UNCHANGED vars
  BY <1>5, TypeOther
<1> QED BY <1>1, <1>2, <1>3, <1>4, <1>5 DEF Next

\* The viewer's variables keep their types: above all, the bits of the wheel
\* stay in buttonMask only while a side button that shares them is down, symDown and keysDown are only ever given keys that type,
\* and the frame limiter's clock stays within its range.
THEOREM TypeCorrect == Spec => []TypeOK
<1>1. Init => TypeInv BY TypeInit
<1>2. TypeInv /\ [Next]_vars => TypeInv' BY TypeStep
<1>3. TypeInv => TypeOK BY DEF TypeInv
<1> QED BY <1>1, <1>2, <1>3, PTL DEF Spec

-----------------------------------------------------------------------------
(* The order of a key's events, when one is pumped.                        *)

\* q2 is q with more events at its end.
Extends(q, q2) == /\ Len(q) \in Nat /\ Len(q2) \in Nat /\ Len(q) <= Len(q2)
                  /\ \A i \in 1 .. Len(q) : q2[i] = q[i]

LEMMA ReleasedGrows ==
  ASSUME NEW q, NEW q2, Extends(q, q2), NEW i, NEW s, Released(q, i, s)
  PROVE  Released(q2, i, s)
<1>1. PICK j \in 1 .. Len(q) : j > i /\ q[j].type = "KEYUP" /\ q[j].sym = s
  BY DEF Released
<1>2. j \in 1 .. Len(q2) /\ q2[j] = q[j]
  BY <1>1 DEF Extends
<1> QED BY <1>1, <1>2 DEF Released

\* One event, or a press and its text, at the end of the queue.
LEMMA AppendOne ==
  ASSUME NEW q \in Seq(Events), NEW e
  PROVE  /\ Extends(q, q \o <<e>>) /\ Len(q) \in Nat /\ Len(q \o <<e>>) = Len(q) + 1
         /\ (q \o <<e>>)[Len(q) + 1] = e
  BY DEF Extends

Adds(q, q2, e, f) == /\ Extends(q, q2) /\ Len(q2) = Len(q) + 2
                     /\ q2[Len(q) + 1] = e /\ q2[Len(q) + 2] = f

LEMMA AppendTwo ==
  ASSUME NEW q \in Seq(Events), NEW e \in Events, NEW f \in Events
  PROVE  Adds(q, q \o (<<e>> \o <<f>>), e, f)
<1>1. PICK d : d = <<e>> \o <<f>>
  OBVIOUS
<1>2. d \in Seq(Events) /\ Len(d) = 2 /\ d[1] = e /\ d[2] = f
  BY <1>1
<1>3. Adds(q, q \o d, e, f)
  <2>1. /\ Len(q) \in Nat /\ Len(q \o d) = Len(q) + 2
        /\ \A i \in 1 .. Len(q) + 2 : (q \o d)[i] = IF i <= Len(q) THEN q[i] ELSE d[i - Len(q)]
    <3>1. /\ Len(q \o d) = Len(q) + Len(d)
          /\ \A i \in 1 .. Len(q) + Len(d) :
                (q \o d)[i] = IF i <= Len(q) THEN q[i] ELSE d[i - Len(q)]
      BY <1>2, ConcatProperties, Zenon
    <3>2. Len(q) \in Nat
      OBVIOUS
    <3> QED BY <1>2, <3>1, <3>2, Zenon
  <2>2. PICK q2 : q2 = q \o d
    OBVIOUS
  <2>3. Adds(q, q2, e, f)
    BY <1>2, <2>1, <2>2 DEF Extends, Adds
  <2> QED BY <2>2, <2>3
<1> QED BY <1>1, <1>3

\* A release that is pumped ends the presses of its key that wait.
LEMMA ReleaseEnds ==
  ASSUME PressesEnd, queue \in Seq(Events), NEW s,
         queue' = queue \o <<KeyUpEvent(s)>>, held' = held \ {s}
  PROVE  PressesEnd' /\ Released(queue', 0, s)
<1> DEFINE n == Len(queue)
<1>1. /\ n \in Nat /\ Len(queue') = n + 1 /\ queue'[n + 1] = KeyUpEvent(s)
      /\ Extends(queue, queue')
  BY AppendOne
<1>2. queue'[n + 1].type = "KEYUP" /\ queue'[n + 1].sym = s
  BY <1>1 DEF KeyUpEvent
<1>3. \A i \in 0 .. n : Released(queue', i, s)
  BY <1>1, <1>2 DEF Released
<1>4. SUFFICES ASSUME NEW i \in 1 .. n + 1, queue'[i].type # "KEYUP"
      PROVE  queue'[i].sym \in held' \/ Released(queue', i, queue'[i].sym)
  BY <1>1, <1>3 DEF PressesEnd
<1>5. i \in 1 .. n /\ queue'[i] = queue[i]
  BY <1>1, <1>2, <1>4 DEF Extends
<1>6. CASE queue[i].sym = s
  BY <1>1, <1>3, <1>5, <1>6
<1>7. CASE queue[i].sym # s
  <2>1. queue[i].sym \in held \/ Released(queue, i, queue[i].sym)
    BY <1>4, <1>5 DEF PressesEnd
  <2> QED BY <1>1, <1>5, <1>7, <2>1, ReleasedGrows
<1> QED BY <1>6, <1>7

\* A press that is pumped is of a key that is down now.
LEMMA PressEnds ==
  ASSUME PressesEnd, Extends(queue, queue'), NEW s, held' = held \cup {s},
         \A i \in Len(queue) + 1 .. Len(queue') : queue'[i].sym = s
  PROVE  PressesEnd'
<1>1. SUFFICES ASSUME NEW i \in 1 .. Len(queue'), queue'[i].type # "KEYUP"
      PROVE  queue'[i].sym \in held' \/ Released(queue', i, queue'[i].sym)
  BY DEF PressesEnd
<1>2. CASE i \in 1 .. Len(queue)
  <2>1. queue'[i] = queue[i]
    BY <1>2 DEF Extends
  <2>2. queue[i].sym \in held \/ Released(queue, i, queue[i].sym)
    BY <1>1, <1>2, <2>1 DEF PressesEnd
  <2> QED BY <2>1, <2>2, ReleasedGrows
<1>3. CASE i \notin 1 .. Len(queue)
  BY <1>1, <1>3 DEF Extends
<1> QED BY <1>2, <1>3

\* TextStandsAt only looks at the queue up to i.
LEMMA StandsLocal ==
  ASSUME NEW q, NEW q2, NEW sent, NEW i \in Nat \ {0}, \A j \in 1 .. i : q2[j] = q[j],
         TextStandsAt(q, sent, i)
  PROVE  TextStandsAt(q2, sent, i)
<1>1. q2[i] = q[i]
  OBVIOUS
<1>2. \A j \in 1 .. i - 1 : q2[j] = q[j]
  OBVIOUS
<1>3. ASSUME NEW j \in 1 .. i - 1, NEW l \in j + 1 .. i - 1 PROVE q2[l] = q[l]
  OBVIOUS
<1> QED BY <1>1, <1>2, <1>3 DEF TextStandsAt

\* Events that are no text change nothing for the text that waits.
LEMMA NoNewText ==
  ASSUME TextFollows, TextStands, Extends(queue, queue'), UNCHANGED <<symDown, keysDown>>,
         \A i \in Len(queue) + 1 .. Len(queue') : queue'[i].type # "TEXTINPUT"
  PROVE  TextFollows' /\ TextStands'
<1>1. ASSUME NEW i \in 1 .. Len(queue'), queue'[i].type = "TEXTINPUT"
      PROVE  i \in 1 .. Len(queue) /\ \A j \in 1 .. i : queue'[j] = queue[j]
  BY <1>1 DEF Extends
<1>2. TextFollows'
  <2> SUFFICES ASSUME NEW i \in 1 .. Len(queue'), queue'[i].type = "TEXTINPUT"
               PROVE  IF i = 1 THEN symDown' = queue'[i].sym
                      ELSE queue'[i - 1].type = "KEYDOWN" /\ queue'[i - 1].sym = queue'[i].sym
    BY DEF TextFollows
  <2>1. i \in 1 .. Len(queue) /\ queue'[i] = queue[i] /\ (i # 1 => queue'[i - 1] = queue[i - 1])
    <3>1. i \in 1 .. Len(queue) /\ \A j \in 1 .. i : queue'[j] = queue[j]
      BY <1>1
    <3>2. i \in 1 .. i /\ (i # 1 => i - 1 \in 1 .. i)
      BY <3>1 DEF Extends
    <3> QED BY <3>1, <3>2
  <2> QED BY <2>1 DEF TextFollows
<1>3. TextStands'
  <2> SUFFICES ASSUME NEW i \in 1 .. Len(queue'), queue'[i].type = "TEXTINPUT"
               PROVE  TextStandsAt(queue', keysDown', i)
    BY DEF TextStands
  <2>1. i \in 1 .. Len(queue) /\ \A j \in 1 .. i : queue'[j] = queue[j]
    BY <1>1
  <2>2. TextStandsAt(queue, keysDown, i)
    BY <2>1 DEF TextStands, Extends
  <2> QED BY <2>1, <2>2, StandsLocal DEF Extends
<1> QED BY <1>2, <1>3

\* What was sent stays released, as long as no more than one key goes up, with its
\* release pumped.
LEMMA SentGrows ==
  ASSUME SentEnds, Extends(queue, queue'), UNCHANGED keysDown, NEW u,
         \A s \in Syms : s \in held /\ s # u => s \in held',
         u \in held' \/ u \notin Syms \/ Released(queue', 0, u)
  PROVE  SentEnds'
<1> SUFFICES ASSUME NEW s \in Syms, keysDown[s] # NoText
             PROVE  s \in held' \/ Released(queue', 0, s)
  BY DEF SentEnds
<1>1. s \in held \/ Released(queue, 0, s)
  BY DEF SentEnds
<1> QED BY <1>1, ReleasedGrows

\* Control changes.
LEMMA OrdersCtrl ==
  ASSUME TypeInv, Orders, PressCtrl \/ ReleaseCtrl
  PROVE  Orders'
<1> DEFINE n == Len(queue)
<1>1. queue \in Seq(Events) /\ Ctrl \notin Syms /\ UNCHANGED <<symDown, keysDown, viewOnly>>
  BY KeyNames DEF TypeInv, PressCtrl, ReleaseCtrl, Pump, session
<1>2. PICK e \in {KeyDownEvent(Ctrl), KeyUpEvent(Ctrl)} : queue' = queue \o <<e>>
  BY DEF PressCtrl, ReleaseCtrl, Pump
<1>3. /\ n \in Nat /\ Len(queue') = n + 1 /\ queue'[n + 1] = e /\ Extends(queue, queue')
  BY <1>1, <1>2, AppendOne
<1>4. e.type # "TEXTINPUT" /\ e.sym = Ctrl
  BY <1>2 DEF KeyDownEvent, KeyUpEvent
<1>5. PressesEnd'
  <2>1. CASE PressCtrl
    <3>1. \A i \in n + 1 .. Len(queue') : queue'[i].sym = Ctrl
      BY <1>3, <1>4
    <3> QED BY <1>3, <2>1, <3>1, PressEnds DEF Orders, PressCtrl
  <2>2. CASE ReleaseCtrl
    BY <1>1, <2>2, ReleaseEnds DEF Orders, ReleaseCtrl, Pump
  <2> QED BY <2>1, <2>2
<1>6. ASSUME Calm' PROVE TextFollows' /\ TextStands' /\ SentEnds' /\ CtrlSilent'
  <2>1. Calm /\ \A s \in Syms : s \notin held /\ ~Queued(s)
    BY <1>1, <1>6 DEF Calm, Mixed, PressCtrl, ReleaseCtrl, Overridden, Low
  <2>2. TextFollows /\ TextStands /\ SentEnds /\ CtrlSilent
    BY <2>1 DEF Orders
  <2>3. \A i \in n + 1 .. Len(queue') : queue'[i].type # "TEXTINPUT"
    BY <1>3, <1>4
  <2>4. TextFollows' /\ TextStands'
    BY <1>1, <1>3, <2>2, <2>3, NoNewText
  <2>5. SentEnds'
    <3>1. \A s \in Syms : s \in held /\ s # Ctrl => s \in held'
      BY DEF PressCtrl, ReleaseCtrl
    <3> QED BY <1>1, <1>3, <2>2, <3>1, SentGrows
  <2>6. CtrlSilent'
    <3>1. ASSUME NEW i \in 1 .. n PROVE queue[i].sym \notin Syms /\ queue[i].type # "TEXTINPUT"
      <4>1. queue[i] \in Events /\ i \in DOMAIN queue
        BY <1>1
      <4>2. queue[i].sym \notin Syms
        BY <2>1, <4>1 DEF Queued
      <4> QED BY <4>1, <4>2, EventFacts
    <3>2. \A i \in 1 .. Len(queue') : queue'[i].type # "TEXTINPUT"
      BY <1>3, <1>4, <3>1 DEF Extends
    <3>3. \A s \in Syms : keysDown[s] = NoText
      BY <2>1, <2>2, <3>1 DEF SentEnds, Released
    <3> QED BY <1>1, <3>2, <3>3 DEF CtrlSilent
  <2> QED BY <2>4, <2>5, <2>6
<1> QED BY <1>5, <1>6 DEF Orders

\* A key is released.
LEMMA OrdersRelease ==
  ASSUME TypeInv, Orders, NEW s \in Syms \cup Specials, ReleaseKey(s)
  PROVE  Orders'
<1> DEFINE n == Len(queue)
<1>1. /\ queue \in Seq(Events) /\ Ctrl # s /\ UNCHANGED <<symDown, keysDown, viewOnly, mixed>>
      /\ queue' = queue \o <<KeyUpEvent(s)>> /\ held' = held \ {s}
  BY KeyNames DEF TypeInv, ReleaseKey, Pump, session
<1>2. /\ n \in Nat /\ Len(queue') = n + 1 /\ queue'[n + 1] = KeyUpEvent(s)
      /\ Extends(queue, queue')
  BY <1>1, AppendOne
<1>3. PressesEnd' /\ Released(queue', 0, s)
  BY <1>1, ReleaseEnds DEF Orders
<1>4. ASSUME Calm' PROVE TextFollows' /\ TextStands' /\ SentEnds' /\ CtrlSilent'
  <2>1. TextFollows /\ TextStands /\ SentEnds /\ CtrlSilent
    BY <1>1, <1>4 DEF Orders, Calm, Mixed
  <2>2. \A i \in n + 1 .. Len(queue') : queue'[i].type # "TEXTINPUT"
    BY <1>2 DEF KeyUpEvent
  <2>3. TextFollows' /\ TextStands'
    BY <1>1, <1>2, <2>1, <2>2, NoNewText
  <2>4. SentEnds'
    BY <1>1, <1>2, <1>3, <2>1, SentGrows
  <2>5. CtrlSilent'
    <3>1. Ctrl \in held' => Ctrl \in held
      BY <1>1
    <3>2. ASSUME \A i \in 1 .. n : queue[i].type # "TEXTINPUT"
          PROVE  \A i \in 1 .. Len(queue') : queue'[i].type # "TEXTINPUT"
      BY <1>2, <2>2, <3>2 DEF Extends
    <3> QED BY <1>1, <2>1, <3>1, <3>2 DEF CtrlSilent
  <2> QED BY <2>3, <2>4, <2>5
<1> QED BY <1>3, <1>4 DEF Orders

\* A key is pressed, or repeats, without text.
LEMMA OrdersPress ==
  ASSUME TypeInv, Orders, NEW s \in Syms \cup Specials, UNCHANGED <<symDown, keysDown, viewOnly, mixed>>,
         queue' = queue \o <<KeyDownEvent(s)>>, held' = held \cup {s}
  PROVE  Orders'
<1> DEFINE n == Len(queue)
<1>1. queue \in Seq(Events) /\ Ctrl # s
  BY KeyNames DEF TypeInv
<1>2. /\ n \in Nat /\ Len(queue') = n + 1 /\ queue'[n + 1] = KeyDownEvent(s)
      /\ Extends(queue, queue')
  BY <1>1, AppendOne
<1>3. \A i \in n + 1 .. Len(queue') : queue'[i].type # "TEXTINPUT" /\ queue'[i].sym = s
  BY <1>2 DEF KeyDownEvent
<1>4. PressesEnd'
  BY <1>2, <1>3, PressEnds DEF Orders
<1>5. ASSUME Calm' PROVE TextFollows' /\ TextStands' /\ SentEnds' /\ CtrlSilent'
  <2>1. TextFollows /\ TextStands /\ SentEnds /\ CtrlSilent
    BY <1>5 DEF Orders, Calm, Mixed
  <2>2. TextFollows' /\ TextStands'
    BY <1>2, <1>3, <2>1, NoNewText
  <2>3. SentEnds'
    BY <1>2, <2>1, SentGrows
  <2>4. CtrlSilent'
    <3>1. Ctrl \in held' => Ctrl \in held
      BY <1>1
    <3>2. ASSUME \A i \in 1 .. n : queue[i].type # "TEXTINPUT"
          PROVE  \A i \in 1 .. Len(queue') : queue'[i].type # "TEXTINPUT"
      BY <1>2, <1>3, <3>2 DEF Extends
    <3> QED BY <2>1, <3>1, <3>2 DEF CtrlSilent
  <2> QED BY <2>2, <2>3, <2>4
<1> QED BY <1>4, <1>5 DEF Orders

LEMMA OrdersPressCtrl ==
  ASSUME TypeInv, Orders, NEW s \in Syms, NEW t \in Texts, PressKey(s, t), Ctrl \in held
  PROVE  Orders'
<1>1. /\ UNCHANGED <<symDown, keysDown, viewOnly, mixed>> /\ held' = held \cup {s}
      /\ queue' = queue \o (<<KeyDownEvent(s)>> \o <<>>)
  BY DEF PressKey, Pump, session
<1>2. <<KeyDownEvent(s)>> \o <<>> = <<KeyDownEvent(s)>>
  OBVIOUS
<1> QED BY <1>1, <1>2, OrdersPress

\* A key types text.
LEMMA OrdersPressText ==
  ASSUME TypeInv, Orders, NEW s \in Syms, NEW t \in Texts, PressKey(s, t), Ctrl \notin held
  PROVE  Orders'
<1> DEFINE n == Len(queue)
<1>1. /\ queue \in Seq(Events) /\ Ctrl # s /\ UNCHANGED <<symDown, keysDown, viewOnly>>
      /\ queue' = queue \o (<<KeyDownEvent(s)>> \o <<TextEvent(s, t)>>)
      /\ held' = held \cup {s}
  BY KeyNames DEF TypeInv, PressKey, Pump, session
<1>2. KeyDownEvent(s) \in Events /\ TextEvent(s, t) \in Events
  BY DEF KeyDownEvent, TextEvent, Events, AllKeys
<1>3. /\ n \in Nat /\ Len(queue') = n + 2 /\ Extends(queue, queue')
      /\ queue'[n + 1] = KeyDownEvent(s) /\ queue'[n + 2] = TextEvent(s, t)
  <2>1. Adds(queue, queue', KeyDownEvent(s), TextEvent(s, t))
    BY <1>1, <1>2, AppendTwo
  <2> QED BY <2>1 DEF Adds, Extends
<1>4. /\ queue'[n + 1].type = "KEYDOWN" /\ queue'[n + 1].sym = s
      /\ queue'[n + 2].type = "TEXTINPUT" /\ queue'[n + 2].sym = s /\ queue'[n + 2].text = t
  BY <1>3 DEF KeyDownEvent, TextEvent
<1>5. ASSUME NEW i \in 1 .. Len(queue')
      PROVE  i = n + 1 \/ i = n + 2 \/ (i \in 1 .. n /\ \A j \in 1 .. i : queue'[j] = queue[j])
  BY <1>3 DEF Extends
<1>6. PressesEnd'
  <2>1. \A i \in n + 1 .. Len(queue') : queue'[i].sym = s
    BY <1>3, <1>4
  <2> QED BY <1>1, <1>3, <2>1, PressEnds DEF Orders
<1>7. ASSUME Calm' PROVE TextFollows' /\ TextStands' /\ SentEnds' /\ CtrlSilent'
  <2>1. Calm /\ (s \in held => ~Retyped(s, t))
    BY <1>1, <1>7 DEF Calm, Mixed, PressKey
  <2>2. TextFollows /\ TextStands /\ SentEnds /\ PressesEnd
    BY <2>1 DEF Orders
  <2>3. TextFollows'
    <3> SUFFICES ASSUME NEW i \in 1 .. Len(queue'), queue'[i].type = "TEXTINPUT"
                 PROVE  IF i = 1 THEN symDown' = queue'[i].sym
                        ELSE queue'[i - 1].type = "KEYDOWN" /\ queue'[i - 1].sym = queue'[i].sym
      BY DEF TextFollows
    <3>1. CASE i = n + 2
      <4>1. i # 1 /\ i - 1 = n + 1
        BY <1>3, <3>1
      <4> QED BY <1>4, <3>1, <4>1
    <3>2. CASE i \in 1 .. n /\ \A j \in 1 .. i : queue'[j] = queue[j]
      <4>1. queue'[i] = queue[i] /\ (i # 1 => queue'[i - 1] = queue[i - 1])
        BY <3>2
      <4> QED BY <1>1, <2>2, <3>2, <4>1 DEF TextFollows
    <3> QED BY <1>4, <1>5, <3>1, <3>2
  <2>4. TextStands'
    <3> SUFFICES ASSUME NEW i \in 1 .. Len(queue'), queue'[i].type = "TEXTINPUT"
                 PROVE  TextStandsAt(queue', keysDown', i)
      BY DEF TextStands
    <3>1. CASE i = n + 2
      <4>1. queue'[i].sym = s /\ queue'[i].text = t /\ i - 1 = n + 1
        BY <1>3, <1>4, <3>1
      <4>2. CASE s \in held
        <5>1. keysDown[s] \in {t, NoText}
          BY <2>1, <4>2 DEF Retyped
        <5>2. ASSUME NEW j \in 1 .. n + 1, queue'[j].type = "TEXTINPUT", queue'[j].sym = s
              PROVE  queue'[j].text = t
          <6>1. j \in 1 .. n /\ queue'[j] = queue[j] /\ j \in DOMAIN queue
            BY <1>1, <1>3, <1>4, <5>2 DEF Extends
          <6> QED BY <2>1, <4>2, <5>2, <6>1 DEF Retyped
        <5> QED BY <1>1, <4>1, <5>1, <5>2 DEF TextStandsAt
      <4>3. CASE s \notin held
        <5>1. ASSUME NEW k \in 0 .. n, Released(queue, k, s)
              PROVE  \E l \in k + 1 .. n + 1 : queue'[l].type = "KEYUP" /\ queue'[l].sym = s
          <6>1. PICK l \in 1 .. n : l > k /\ queue[l].type = "KEYUP" /\ queue[l].sym = s
            BY <5>1 DEF Released
          <6>2. l \in k + 1 .. n + 1 /\ queue'[l] = queue[l]
            BY <1>3, <6>1 DEF Extends
          <6> QED BY <6>1, <6>2
        <5>2. \/ keysDown[s] \in {t, NoText}
              \/ \E l \in 1 .. n + 1 : queue'[l].type = "KEYUP" /\ queue'[l].sym = s
          <6>1. 0 \in 0 .. n /\ 0 + 1 = 1
            BY <1>3
          <6> QED BY <2>2, <4>3, <5>1, <6>1 DEF SentEnds
        <5>3. ASSUME NEW j \in 1 .. n + 1, queue'[j].type = "TEXTINPUT", queue'[j].sym = s
              PROVE  \E l \in j + 1 .. n + 1 : queue'[l].type = "KEYUP" /\ queue'[l].sym = s
          <6>1. j \in 1 .. n /\ queue'[j] = queue[j] /\ j \in 0 .. n
            BY <1>1, <1>3, <1>4, <5>3 DEF Extends
          <6>2. Released(queue, j, s)
            BY <2>2, <4>3, <5>3, <6>1 DEF PressesEnd
          <6> QED BY <5>1, <6>1, <6>2
        <5> HIDE DEF n
        <5>4. keysDown' = keysDown
          BY <1>1
        <5> QED BY <4>1, <5>2, <5>3, <5>4 DEF TextStandsAt
      <4> QED BY <4>2, <4>3
    <3>2. CASE i \in 1 .. n /\ \A j \in 1 .. i : queue'[j] = queue[j]
      <4>1. i \in Nat \ {0} /\ queue'[i] = queue[i]
        BY <3>2
      <4>2. TextStandsAt(queue, keysDown, i)
        BY <2>2, <3>2, <4>1 DEF TextStands
      <4> QED BY <1>1, <3>2, <4>1, <4>2, StandsLocal
    <3> QED BY <1>4, <1>5, <3>1, <3>2
  <2>5. SentEnds'
    BY <1>1, <1>3, <2>2, SentGrows
  <2>6. CtrlSilent'
    BY <1>1 DEF CtrlSilent
  <2> QED BY <2>3, <2>4, <2>5, <2>6
<1> QED BY <1>6, <1>7 DEF Orders

-----------------------------------------------------------------------------
(* ... and when one is handled.                                            *)

\* What HandleKey finds and leaves: n events wait, the first is e.
Taken(n, e) ==
    /\ n \in Nat \ {0} /\ n = Len(queue) /\ e = queue[1] /\ Len(queue') = n - 1
    /\ \A i \in 1 .. n : queue[i] \in Events
    /\ \A i \in 1 .. n - 1 : queue'[i] = queue[i + 1]
    /\ UNCHANGED <<held, mixed, devices, viewOnly, prev, missed>>

LEMMA HandleTakes ==
  ASSUME TypeInv, HandleKey
  PROVE  Taken(Len(queue), queue[1]) /\ Head(queue) = queue[1]
<1>1. queue \in Seq(Events) /\ queue # <<>> /\ queue' = Tail(queue)
  BY DEF TypeInv, HandleKey
<1>2. /\ Len(queue) \in Nat \ {0} /\ Len(queue') = Len(queue) - 1 /\ Head(queue) = queue[1]
      /\ \A i \in 1 .. Len(queue) - 1 : queue'[i] = queue[i + 1]
  BY <1>1, TailFacts
<1>3. \A i \in 1 .. Len(queue) : queue[i] \in Events
  BY <1>1
<1>4. UNCHANGED <<held, mixed, devices, viewOnly, prev, missed>>
  BY DEF HandleKey, SameKeyboard, SamePad, session
<1> QED BY <1>2, <1>3, <1>4 DEF Taken

LEMMA ReleasedTaken ==
  ASSUME NEW n, NEW e, Taken(n, e), NEW i \in Nat, NEW s, Released(queue, i + 1, s)
  PROVE  Released(queue', i, s)
<1>1. PICK j \in 1 .. n : j > i + 1 /\ queue[j].type = "KEYUP" /\ queue[j].sym = s
  BY DEF Released, Taken
<1>2. j - 1 \in 1 .. n - 1 /\ j - 1 > i /\ queue'[j - 1] = queue[j]
  BY <1>1 DEF Taken
<1> QED BY <1>1, <1>2 DEF Released, Taken

LEMMA PressesTaken ==
  ASSUME PressesEnd, NEW n, NEW e, Taken(n, e)
  PROVE  PressesEnd'
<1> SUFFICES ASSUME NEW i \in 1 .. n - 1, queue'[i].type # "KEYUP"
             PROVE  queue'[i].sym \in held' \/ Released(queue', i, queue'[i].sym)
  BY DEF PressesEnd, Taken
<1>1. i \in Nat /\ i + 1 \in 1 .. n /\ queue'[i] = queue[i + 1] /\ held' = held
  BY DEF Taken
<1>2. queue[i + 1].sym \in held \/ Released(queue, i + 1, queue[i + 1].sym)
  BY <1>1 DEF PressesEnd, Taken
<1> QED BY <1>1, <1>2, ReleasedTaken

\* What the first event does to symDown and to the text sent for each key.
Typing(e, s)   == e.type = "TEXTINPUT" /\ symDown = s
Lifting(e, s)  == e.type = "KEYUP" /\ e.sym = s /\ Ctrl \notin held
Handled(e) ==
    /\ e.type = "KEYDOWN" /\ e.sym \in Syms /\ Ctrl \notin held => symDown' = e.sym
    /\ \A s \in Syms :
          /\ Typing(e, s) => keysDown'[s] = e.text
          /\ Lifting(e, s) => keysDown'[s] = NoText
          /\ ~Typing(e, s) /\ ~Lifting(e, s) => keysDown'[s] = keysDown[s]

LEMMA HandledFacts ==
  ASSUME TypeInv, HandleKey, ~viewOnly
  PROVE  Handled(queue[1])
<1> DEFINE e == queue[1]
<1>1. /\ e \in Events /\ Head(queue) = e
      /\ keysDown \in [Syms \cup {NoSym} -> Texts \cup {NoText}]
      /\ symDown \in Syms \cup {NoSym} /\ Ctrl \notin Syms /\ NoSym \notin Syms
  BY HandleTakes, KeyNames DEF TypeInv, TypeOK, Taken
<1> SUFFICES Handled(e)
  OBVIOUS
<1> HIDE DEF e
<1>2. /\ e.sym \in AllKeys
      /\ SDL_key2rfbKeySym(e.sym) = NoSym <=> e.sym \in Syms /\ Ctrl \notin held
  BY <1>1, EventFacts, ByCode
<1>3. CASE e.type = "KEYDOWN" /\ KeyDown(e.sym) /\ UNCHANGED keysDown
  <2>1. e.sym \in Syms /\ Ctrl \notin held => symDown' = e.sym
    BY <1>2, <1>3 DEF KeyDown
  <2>2. ASSUME NEW s \in Syms
        PROVE  ~Typing(e, s) /\ ~Lifting(e, s) /\ keysDown'[s] = keysDown[s]
    BY <1>3 DEF Typing, Lifting
  <2> QED BY <2>1, <2>2 DEF Handled
<1>4. CASE e.type = "KEYUP" /\ KeyUp(e.sym) /\ UNCHANGED symDown
  <2>1. e.type # "KEYDOWN" /\ \A s : ~Typing(e, s)
    BY <1>4 DEF Typing
  <2>2. CASE e.sym \notin Syms \/ Ctrl \in held
    <3>1. keysDown' = keysDown
      BY <1>2, <1>4, <2>2 DEF KeyUp
    <3>2. \A s \in Syms : ~Lifting(e, s)
      BY <1>1, <2>2 DEF Lifting
    <3> QED BY <2>1, <3>1, <3>2 DEF Handled
  <2>3. CASE e.sym \in Syms /\ Ctrl \notin held
    <3>1. keysDown' = [keysDown EXCEPT ![e.sym] = NoText]
      BY <1>2, <1>4, <2>3 DEF KeyUp
    <3>2. \A s \in Syms :
            /\ Lifting(e, s) => keysDown'[s] = NoText
            /\ ~Lifting(e, s) => keysDown'[s] = keysDown[s]
      BY <1>1, <1>4, <2>3, <3>1 DEF Lifting
    <3> QED BY <2>1, <3>2 DEF Handled
  <2> QED BY <2>2, <2>3
<1>5. CASE e.type = "TEXTINPUT" /\ TextInput(e.text)
  <2>1. e.type # "KEYDOWN" /\ \A s : ~Lifting(e, s)
    BY <1>5 DEF Lifting
  <2>2. keysDown' = [keysDown EXCEPT ![symDown] = e.text]
    BY <1>5 DEF TextInput
  <2>3. \A s \in Syms :
          /\ Typing(e, s) => keysDown'[s] = e.text
          /\ ~Typing(e, s) => keysDown'[s] = keysDown[s]
    BY <1>1, <1>5, <2>2 DEF Typing
  <2> QED BY <2>1, <2>3 DEF Handled
<1>6. \/ e.type = "KEYDOWN" /\ KeyDown(e.sym) /\ UNCHANGED keysDown
      \/ e.type = "KEYUP" /\ KeyUp(e.sym) /\ UNCHANGED symDown
      \/ e.type = "TEXTINPUT" /\ TextInput(e.text)
  BY <1>1 DEF HandleKey
<1> QED BY <1>3, <1>4, <1>5, <1>6

\* An event that is handled leaves the others in their order.
LEMMA OrdersHandle ==
  ASSUME TypeInv, Orders, HandleKey
  PROVE  Orders'
<1> DEFINE n == Len(queue)
           e == queue[1]
<1>1. Taken(n, e)
  BY HandleTakes
<1> HIDE DEF n, e
<1>2. PressesEnd'
  BY <1>1, PressesTaken DEF Orders
<1>3. ASSUME Calm' PROVE TextFollows' /\ TextStands' /\ SentEnds' /\ CtrlSilent'
  <2>1. ~viewOnly /\ TextFollows /\ TextStands /\ SentEnds /\ CtrlSilent /\ PressesEnd
    BY <1>1, <1>3 DEF Calm, Mixed, Orders, Taken
  <2>2. Handled(e)
    BY <2>1, HandledFacts DEF e
  <2>3. /\ n \in Nat \ {0} /\ n = Len(queue) /\ e = queue[1] /\ Len(queue') = n - 1
        /\ 1 \in 1 .. n /\ e \in Events /\ held' = held /\ Ctrl \notin Syms
    BY <1>1, KeyNames DEF Taken
  <2>4. ASSUME NEW i \in 1 .. n - 1
        PROVE  i + 1 \in 1 .. n /\ i + 1 # 1 /\ queue'[i] = queue[i + 1] /\ queue[i + 1] \in Events
    BY <1>1 DEF Taken
  <2>5. ASSUME NEW i \in 1 .. n, queue[i].type = "TEXTINPUT"
        PROVE  Ctrl \notin held /\ queue[i].sym \in Syms
    <3>1. queue[i] \in Events
      BY <1>1 DEF Taken
    <3> QED BY <2>1, <2>3, <2>5, <3>1, EventFacts DEF CtrlSilent
  <2>6. TextFollows'
    <3> SUFFICES ASSUME NEW i \in 1 .. n - 1, queue'[i].type = "TEXTINPUT"
                 PROVE  IF i = 1 THEN symDown' = queue'[i].sym
                        ELSE queue'[i - 1].type = "KEYDOWN" /\ queue'[i - 1].sym = queue'[i].sym
      BY <2>3 DEF TextFollows
    <3>1. queue[i].type = "KEYDOWN" /\ queue[i].sym = queue'[i].sym
      <4>1. (i + 1) - 1 = i
        OBVIOUS
      <4> QED BY <2>1, <2>3, <2>4, <4>1 DEF TextFollows
    <3>2. Ctrl \notin held /\ queue'[i].sym \in Syms
      BY <2>4, <2>5
    <3>3. CASE i = 1
      BY <2>2, <2>3, <3>1, <3>2, <3>3 DEF Handled
    <3>4. CASE i # 1
      <4>1. i - 1 \in 1 .. n - 1 /\ (i - 1) + 1 = i
        BY <2>3, <3>4
      <4> QED BY <2>4, <3>1, <3>4, <4>1
    <3> QED BY <3>3, <3>4
  <2>7. TextStands'
    <3> SUFFICES ASSUME NEW i \in 1 .. n - 1, queue'[i].type = "TEXTINPUT"
                 PROVE  TextStandsAt(queue', keysDown', i)
      BY <2>3 DEF TextStands
    <3> DEFINE s == queue'[i].sym
               t == queue'[i].text
    <3>1. /\ queue[i + 1].sym = s /\ queue[i + 1].text = t /\ s \in Syms /\ Ctrl \notin held
          /\ TextStandsAt(queue, keysDown, i + 1) /\ (i + 1) - 1 = i
      BY <2>1, <2>3, <2>4, <2>5 DEF TextStands
    <3> HIDE DEF s, t
    <3>2. /\ \/ keysDown[s] \in {t, NoText}
             \/ \E j \in 1 .. i : queue[j].type = "KEYUP" /\ queue[j].sym = s
          /\ \A j \in 1 .. i : queue[j].type = "TEXTINPUT" /\ queue[j].sym = s /\ queue[j].text # t
                => \E l \in j + 1 .. i : queue[l].type = "KEYUP" /\ queue[l].sym = s
      BY <3>1 DEF TextStandsAt
    <3>3. ASSUME NEW j \in Nat, NEW l \in j + 2 .. i, queue[l].type = "KEYUP", queue[l].sym = s
          PROVE  \E m \in j + 1 .. i - 1 : queue'[m].type = "KEYUP" /\ queue'[m].sym = s
      <4>1. l - 1 \in j + 1 .. i - 1 /\ l - 1 \in 1 .. n - 1 /\ (l - 1) + 1 = l
        BY <2>3
      <4> QED BY <2>4, <3>3, <4>1
    <3>4. ASSUME NEW j \in 1 .. i - 1, queue'[j].type = "TEXTINPUT", queue'[j].sym = s,
                 queue'[j].text # t
          PROVE  \E m \in j + 1 .. i - 1 : queue'[m].type = "KEYUP" /\ queue'[m].sym = s
      <4>1. j \in 1 .. n - 1 /\ j + 1 \in 1 .. i /\ (j + 1) + 1 = j + 2 /\ j \in Nat
        BY <2>3
      <4>2. \E l \in (j + 1) + 1 .. i : queue[l].type = "KEYUP" /\ queue[l].sym = s
        BY <2>4, <3>2, <3>4, <4>1
      <4> QED BY <3>3, <4>1, <4>2
    <3>5. \/ keysDown'[s] \in {t, NoText}
          \/ \E m \in 1 .. i - 1 : queue'[m].type = "KEYUP" /\ queue'[m].sym = s
      <4>1. ASSUME NEW l \in 2 .. i, queue[l].type = "KEYUP", queue[l].sym = s
            PROVE  \E m \in 1 .. i - 1 : queue'[m].type = "KEYUP" /\ queue'[m].sym = s
        <5>1. 0 \in Nat /\ 0 + 2 = 2 /\ 0 + 1 = 1
          OBVIOUS
        <5> QED BY <3>3, <4>1, <5>1
      <4>2. 1 \in 1 .. i /\ \A j \in 1 .. i : j = 1 \/ j \in 2 .. i
        OBVIOUS
      <4>3. CASE Typing(e, s)
        <5>1. e.type = "TEXTINPUT" /\ e.sym = s
          BY <2>1, <2>3, <4>3 DEF Typing, TextFollows
        <5>2. keysDown'[s] = e.text
          BY <2>2, <3>1, <4>3 DEF Handled
        <5>3. CASE e.text # t
          <6>1. \E l \in 1 + 1 .. i : queue[l].type = "KEYUP" /\ queue[l].sym = s
            BY <2>3, <3>2, <4>2, <5>1, <5>3
          <6> QED BY <4>1, <6>1
        <5> QED BY <5>2, <5>3
      <4>4. CASE Lifting(e, s)
        BY <2>2, <3>1, <4>4 DEF Handled
      <4>5. CASE ~Typing(e, s) /\ ~Lifting(e, s)
        <5>1. keysDown'[s] = keysDown[s]
          BY <2>2, <3>1, <4>5 DEF Handled
        <5>2. ~(queue[1].type = "KEYUP" /\ queue[1].sym = s)
          BY <2>3, <3>1, <4>5 DEF Lifting
        <5> QED BY <3>2, <4>1, <4>2, <5>1, <5>2
      <4> QED BY <4>3, <4>4, <4>5
    <3> QED BY <3>4, <3>5 DEF TextStandsAt, s, t
  <2>8. SentEnds'
    <3> SUFFICES ASSUME NEW s \in Syms, keysDown'[s] # NoText
                 PROVE  s \in held' \/ Released(queue', 0, s)
      BY DEF SentEnds
    <3>1. ASSUME Released(queue, 1, s) PROVE Released(queue', 0, s)
      <4>1. 0 \in Nat /\ 0 + 1 = 1
        OBVIOUS
      <4> QED BY <1>1, <3>1, <4>1, ReleasedTaken
    <3>2. CASE Typing(e, s)
      <4>1. e.type = "TEXTINPUT" /\ e.sym = s /\ e.type # "KEYUP"
        BY <2>1, <2>3, <3>2 DEF Typing, TextFollows
      <4>2. s \in held \/ Released(queue, 1, s)
        BY <2>1, <2>3, <4>1 DEF PressesEnd
      <4> QED BY <2>3, <3>1, <4>2
    <3>3. CASE ~Typing(e, s)
      <4>1. ~Lifting(e, s) /\ keysDown[s] # NoText
        BY <2>2, <3>3 DEF Handled
      <4>2. Ctrl \notin held
        BY <2>1, <4>1 DEF CtrlSilent
      <4>3. ~(e.type = "KEYUP" /\ e.sym = s)
        BY <4>1, <4>2 DEF Lifting
      <4>4. s \in held \/ Released(queue, 0, s)
        BY <2>1, <4>1 DEF SentEnds
      <4>5. Released(queue, 0, s) => Released(queue, 1, s)
        <5> SUFFICES ASSUME NEW j \in 1 .. n, queue[j].type = "KEYUP", queue[j].sym = s
                     PROVE  j > 1
          BY <2>3 DEF Released
        <5> QED BY <2>3, <4>3
      <4> QED BY <2>3, <3>1, <4>4, <4>5
    <3> QED BY <3>2, <3>3
  <2>9. CtrlSilent'
    <3> SUFFICES ASSUME Ctrl \in held
                 PROVE  /\ \A i \in 1 .. n - 1 : queue'[i].type # "TEXTINPUT"
                        /\ \A s \in Syms : keysDown'[s] = NoText
      BY <2>3 DEF CtrlSilent
    <3>1. \A i \in 1 .. n - 1 : queue'[i].type # "TEXTINPUT"
      BY <2>4, <2>5
    <3>2. ASSUME NEW s \in Syms PROVE keysDown'[s] = NoText
      <4>1. ~Typing(e, s)
        BY <2>3, <2>5 DEF Typing
      <4> QED BY <2>1, <2>2, <4>1 DEF Handled, CtrlSilent
    <3> QED BY <3>1, <3>2
  <2> QED BY <2>6, <2>7, <2>8, <2>9
<1> QED BY <1>2, <1>3 DEF Orders

-----------------------------------------------------------------------------
(* Why each key is down.                                                   *)

\* A key waits as long as it is down or an event of it is queued.
LEMMA WaitingGrows ==
  ASSUME Extends(queue, queue'), NEW u, u \in held => u \in held', Waiting(u)
  PROVE  Waiting(u)'
<1>1. CASE u \in held
  BY <1>1 DEF Waiting
<1>2. ASSUME NEW i \in 1 .. Len(queue), queue[i].sym = u PROVE Waiting(u)'
  <2>1. i \in 1 .. Len(queue') /\ queue'[i] = queue[i]
    BY DEF Extends
  <2> QED BY <1>2, <2>1 DEF Waiting
<1> QED BY <1>1, <1>2 DEF Waiting

\* A key that is pressed or released: nothing is sent yet.
LEMMA ReasonsKey ==
  ASSUME TypeInv, Reasons, NEW s \in Syms \cup Specials,
         ReleaseKey(s) \/ PressSpecial(s) \/ (s \in Syms /\ \E t \in Texts : PressKey(s, t))
  PROVE  Reasons'
<1>1. /\ UNCHANGED <<prev, missed, devices, viewOnly, keys, keysDown>>
      /\ mixed \subseteq mixed' /\ s # Ctrl /\ (Ctrl \in held <=> Ctrl \in held')
  BY KeyNames DEF ReleaseKey, PressSpecial, PressKey, Pump, padVars, session
<1>2. PICK e \in {KeyDownEvent(s), KeyUpEvent(s)}, rest \in Seq(Events) :
        queue' = queue \o (<<e>> \o rest) /\ held \ {s} \subseteq held'
  <2>1. CASE ReleaseKey(s)
    <3>1. <<KeyUpEvent(s)>> = <<KeyUpEvent(s)>> \o <<>> /\ <<>> \in Seq(Events)
      OBVIOUS
    <3> QED BY <2>1, <3>1 DEF ReleaseKey, Pump
  <2>2. CASE PressSpecial(s)
    <3>1. <<KeyDownEvent(s)>> = <<KeyDownEvent(s)>> \o <<>> /\ <<>> \in Seq(Events)
      OBVIOUS
    <3> QED BY <2>2, <3>1 DEF PressSpecial, Pump
  <2>3. ASSUME s \in Syms, NEW t \in Texts, PressKey(s, t)
        PROVE  \E rest \in Seq(Events) : /\ queue' = queue \o (<<KeyDownEvent(s)>> \o rest)
                                         /\ held \ {s} \subseteq held'
    <3> DEFINE text == IF Ctrl \notin held THEN <<TextEvent(s, t)>> ELSE <<>>
    <3>1. text \in Seq(Events)
      <4>1. TextEvent(s, t) \in Events
        BY <2>3 DEF TextEvent, Events
      <4> QED BY <4>1
    <3>2. queue' = queue \o (<<KeyDownEvent(s)>> \o text) /\ held \ {s} \subseteq held'
      BY <2>3 DEF PressKey, Pump
    <3> HIDE DEF text
    <3> QED BY <3>1, <3>2
  <2> QED BY <2>1, <2>2, <2>3
<1>3. /\ queue \in Seq(Events) /\ e \in Events /\ e.sym = s
  BY <1>2 DEF TypeInv, KeyDownEvent, KeyUpEvent, Events, AllKeys
<1>4. Extends(queue, queue') /\ Waiting(s)'
  <2>1. PICK d : d = <<e>> \o rest
    OBVIOUS
  <2>2. <<e>> \in Seq(Events) /\ Len(<<e>>) = 1 /\ <<e>>[1] = e
    BY <1>3
  <2>3. /\ d \in Seq(Events) /\ Len(d) = 1 + Len(rest)
        /\ \A i \in 1 .. 1 + Len(rest) : d[i] = IF i <= 1 THEN <<e>>[i] ELSE rest[i - 1]
    BY <2>1, <2>2, ConcatProperties, Zenon
  <2>4. Len(rest) \in Nat /\ Len(queue) \in Nat /\ Len(d) \in Nat \ {0} /\ d[1] = e
    <3>1. Len(rest) \in Nat /\ Len(queue) \in Nat
      BY <1>3
    <3> QED BY <2>2, <2>3, <3>1
  <2>5. /\ Len(queue') = Len(queue) + Len(d)
        /\ \A i \in 1 .. Len(queue) + Len(d) :
              queue'[i] = IF i <= Len(queue) THEN queue[i] ELSE d[i - Len(queue)]
    BY <1>2, <1>3, <2>1, <2>3, ConcatProperties, Zenon
  <2>6. Len(queue) + 1 \in 1 .. Len(queue') /\ queue'[Len(queue) + 1] = e
    BY <2>4, <2>5
  <2> QED BY <1>3, <2>4, <2>5, <2>6 DEF Extends, Waiting
<1>5. ASSUME NEW u, Waiting(u) PROVE Waiting(u)'
  BY <1>2, <1>4, <1>5, WaitingGrows
<1>6. ASSUME NEW k, HasReason(k) PROVE HasReason(k)'
  <2>1. CASE ByPad(k)
    BY <1>1, <2>1 DEF ByPad, HasReason
  <2>2. CASE BySpecial(k)
    <3>1. \A u : SDL_key2rfbKeySym(u)' = SDL_key2rfbKeySym(u)
      BY <1>1 DEF SDL_key2rfbKeySym
    <3> QED BY <1>1, <1>5, <2>2, <3>1 DEF BySpecial, HasReason
  <2>3. CASE ByKey(k)
    BY <1>1, <1>5, <2>3 DEF ByKey, HasReason
  <2>4. CASE Mixed /\ k \in Texts \cup Syms
    BY <1>1, <2>4 DEF Mixed, HasReason
  <2> QED BY <1>6, <2>1, <2>2, <2>3, <2>4 DEF HasReason
<1> QED BY <1>1, <1>6 DEF Reasons

\* Control changes: whatever a key of the keyboard holds down is excepted from now
\* on, unless there is none.
LEMMA ReasonsCtrl ==
  ASSUME TypeInv, Reasons, PressCtrl \/ ReleaseCtrl
  PROVE  Reasons'
<1>1. /\ UNCHANGED <<prev, missed, devices, viewOnly, keys, keysDown>>
      /\ mixed' = mixed \cup Overridden
      /\ queue \in Seq(Events)
  BY DEF PressCtrl, ReleaseCtrl, Pump, padVars, session, TypeInv
<1>2. PICK e \in {KeyDownEvent(Ctrl), KeyUpEvent(Ctrl)} : queue' = queue \o <<e>>
  BY DEF PressCtrl, ReleaseCtrl, Pump
<1>3. Waiting(Ctrl)'
  <2>1. /\ Len(queue) \in Nat /\ Len(queue') = Len(queue) + 1 /\ queue'[Len(queue) + 1] = e
    BY <1>1, <1>2, AppendOne
  <2>2. e.sym = Ctrl
    BY <1>2 DEF KeyDownEvent, KeyUpEvent
  <2> QED BY <2>1, <2>2 DEF Waiting
<1>4. ASSUME NEW s \in Syms \cup Specials, s \in Low, Waiting(s) PROVE s \in mixed'
  <2>1. DOMAIN queue = 1 .. Len(queue)
    BY <1>1
  <2> QED BY <1>1, <1>4, <2>1 DEF Waiting, Queued, Overridden
<1>5. ASSUME NEW k, HasReason(k) PROVE HasReason(k)'
  <2>1. CASE ByPad(k)
    BY <1>1, <2>1 DEF ByPad, HasReason
  <2>2. CASE BySpecial(k)
    <3>1. PICK s \in Specials \cup {Ctrl} :
          (Waiting(s) /\ k = SDL_key2rfbKeySym(s)) \/ (s \in mixed /\ k \in Codes(s))
      BY <2>2 DEF BySpecial
    <3>2. s \in AllKeys /\ s \notin Syms
      BY KeyNames DEF AllKeys
    <3>3. CASE s \in mixed /\ k \in Codes(s)
      BY <1>1, <3>3 DEF BySpecial, HasReason
    <3>4. CASE Waiting(s) /\ k = SDL_key2rfbKeySym(s) /\ s \in Low
      <4>1. s # Ctrl
        BY <3>4, KeyNames DEF Low, Ctrl
      <4>2. s \in mixed'
        BY <1>4, <3>4, <4>1
      <4>3. k \in Codes(s)
        BY <3>2, <3>4, ByCode
      <4> QED BY <4>2, <4>3 DEF BySpecial, HasReason
    <3>5. CASE Waiting(s) /\ k = SDL_key2rfbKeySym(s) /\ s \notin Low
      <4>1. k = SDL_key2rfbKeySym(s)'
        BY <3>5 DEF SDL_key2rfbKeySym
      <4>2. Waiting(s)'
        <5>1. CASE s = Ctrl
          BY <1>3, <5>1
        <5>2. CASE s # Ctrl
          <6>1. Extends(queue, queue') /\ (s \in held => s \in held')
            BY <1>1, <1>2, <5>2, AppendOne DEF PressCtrl, ReleaseCtrl
          <6> QED BY <3>5, <6>1, WaitingGrows
        <5> QED BY <5>1, <5>2
      <4> QED BY <4>1, <4>2 DEF BySpecial, HasReason
    <3> QED BY <3>1, <3>3, <3>4, <3>5
  <2>3. CASE ByKey(k)
    BY <1>4, <2>3 DEF ByKey, HasReason, Mixed, Low
  <2>4. CASE Mixed /\ k \in Texts \cup Syms
    BY <1>1, <2>4 DEF Mixed, HasReason
  <2> QED BY <1>5, <2>1, <2>2, <2>3, <2>4 DEF HasReason
<1> QED BY <1>1, <1>5 DEF Reasons

\* Only the release of a key may be the last that waits of it.
LEMMA WaitingTaken ==
  ASSUME PressesEnd, NEW n, NEW e, Taken(n, e), NEW u, Waiting(u), u # e.sym \/ e.type # "KEYUP"
  PROVE  Waiting(u)'
<1>1. CASE u \in held
  BY <1>1 DEF Waiting, Taken
<1>2. ASSUME NEW i \in 1 .. n, queue[i].sym = u, i # 1 PROVE Waiting(u)'
  <2>1. i - 1 \in 1 .. n - 1 /\ queue'[i - 1] = queue[i]
    BY <1>2 DEF Taken
  <2> QED BY <1>2, <2>1 DEF Waiting, Taken
<1>3. CASE e.sym = u /\ e.type # "KEYUP" /\ u \notin held
  <2>1. Released(queue, 1, u)
    BY <1>3 DEF PressesEnd, Taken
  <2>2. PICK j \in 1 .. n : j > 1 /\ queue[j].sym = u
    BY <2>1 DEF Released, Taken
  <2> QED BY <1>2, <2>2
<1> QED BY <1>1, <1>2, <1>3 DEF Waiting, Taken

LEMMA ReasonsHandle ==
  ASSUME TypeInv, Orders, Reasons, HandleKey
  PROVE  Reasons'
<1> DEFINE n == Len(queue)
           e == queue[1]
<1>1. Taken(n, e) /\ PressesEnd /\ Head(queue) = e
  BY HandleTakes DEF Orders
<1> HIDE DEF n, e
<1>2. SUFFICES ASSUME ~viewOnly, NEW k \in keys' PROVE HasReason(k)'
  BY <1>1 DEF Reasons, Taken
<1>3. /\ UNCHANGED <<held, mixed, devices, viewOnly, prev, missed>> /\ e \in Events
      /\ n \in Nat \ {0} /\ n = Len(queue) /\ e = queue[1] /\ 1 \in 1 .. n
      /\ Ctrl \notin Syms /\ NoSym \notin Syms /\ NoText \notin Texts
      /\ (Mixed' <=> Mixed)
  BY <1>1, KeyNames DEF Taken, Mixed
<1>4. /\ e.sym \in AllKeys
      /\ e.type = "TEXTINPUT" => e.sym \in Syms /\ e.text \in Texts
  BY <1>3, EventFacts
<1>5. Handled(e)
  BY <1>2, HandledFacts DEF e
<1>6. Waiting(e.sym)
  BY <1>3 DEF Waiting
<1>7. ASSUME NEW x, ByPad(x) PROVE ByPad(x)'
  BY <1>3, <1>7 DEF ByPad
<1>8. ASSUME NEW x, BySpecial(x), e.type # "KEYUP" \/ x # SDL_key2rfbKeySym(e.sym)
      PROVE  BySpecial(x)'
  <2>1. PICK s \in Specials \cup {Ctrl} :
        (Waiting(s) /\ x = SDL_key2rfbKeySym(s)) \/ (s \in mixed /\ x \in Codes(s))
    BY <1>8 DEF BySpecial
  <2>2. SDL_key2rfbKeySym(s)' = SDL_key2rfbKeySym(s)
    BY <1>3 DEF SDL_key2rfbKeySym
  <2>3. CASE s \in mixed /\ x \in Codes(s)
    BY <1>3, <2>3 DEF BySpecial
  <2>4. CASE Waiting(s) /\ x = SDL_key2rfbKeySym(s)
    <3>1. s # e.sym \/ e.type # "KEYUP"
      BY <1>8, <2>4
    <3>2. Waiting(s)'
      BY <1>1, <2>4, <3>1, WaitingTaken
    <3> QED BY <2>2, <2>4, <3>2 DEF BySpecial
  <2> QED BY <2>1, <2>3, <2>4
<1>9. CASE k \in keys /\ e.type # "KEYUP"
  <2>1. HasReason(k)
    BY <1>2, <1>9 DEF Reasons
  <2>2. CASE ByKey(k) /\ ~Mixed
    <3>1. CASE Ctrl \in held
      BY <1>1, <1>3, <1>9, <2>2, <3>1, WaitingTaken DEF ByKey, HasReason
    <3>2. CASE Ctrl \notin held
      <4>1. PICK s \in Syms : keysDown[s] = k /\ Waiting(s) /\ k \in Texts
        BY <2>2, <3>2 DEF ByKey
      <4>2. keysDown'[s] = k
        <5>1. CASE Typing(e, s)
          <6>1. TextFollows /\ TextStands
            BY <1>2, <2>2 DEF Orders, Calm
          <6>2. e.type = "TEXTINPUT" /\ e.sym = s
            BY <1>3, <5>1, <6>1 DEF Typing, TextFollows
          <6>3. keysDown[s] \in {e.text, NoText}
            <7>1. TextStandsAt(queue, keysDown, 1)
              BY <1>3, <6>1, <6>2 DEF TextStands
            <7> QED BY <1>3, <6>2, <7>1 DEF TextStandsAt
          <6> QED BY <1>3, <1>5, <4>1, <5>1, <6>3 DEF Handled
        <5>2. CASE ~Typing(e, s)
          BY <1>5, <1>9, <4>1, <5>2 DEF Handled, Lifting
        <5> QED BY <5>1, <5>2
      <4>3. Waiting(s)'
        BY <1>1, <1>9, <4>1, WaitingTaken
      <4> QED BY <1>3, <3>2, <4>1, <4>2, <4>3 DEF ByKey, HasReason
    <3> QED BY <3>1, <3>2
  <2>3. CASE Mixed /\ k \in Texts \cup Syms
    BY <1>3, <2>3 DEF HasReason
  <2>4. ByKey(k) => k \in Texts \cup Syms
    BY DEF ByKey
  <2>5. CASE ByPad(k) \/ BySpecial(k)
    BY <1>7, <1>8, <1>9, <2>5 DEF HasReason
  <2> QED BY <2>1, <2>2, <2>3, <2>4, <2>5 DEF HasReason
<1>10. CASE e.type = "KEYDOWN"
  <2>1. CASE k \in keys
    BY <1>9, <1>10, <2>1
  <2>2. CASE k \notin keys
    <3>1. k = SDL_key2rfbKeySym(e.sym) /\ k # NoSym
      BY <1>1, <1>2, <1>10, <2>2 DEF HandleKey, KeyDown
    <3>2. PICK u : u = e.sym
      OBVIOUS
    <3>3. Waiting(u)'
      BY <1>1, <1>6, <1>10, <3>2, WaitingTaken
    <3>4. CASE e.sym \notin Syms
      <4>1. u \in Specials \cup {Ctrl} /\ k = SDL_key2rfbKeySym(u)'
        BY <1>3, <1>4, <3>1, <3>2, <3>4 DEF AllKeys, SDL_key2rfbKeySym
      <4> QED BY <3>3, <4>1 DEF BySpecial, HasReason
    <3>5. CASE e.sym \in Syms
      <4>1. Ctrl \in held /\ k = u
        BY <1>4, <3>1, <3>2, <3>5, ByCode
      <4> QED BY <1>3, <1>4, <3>2, <3>3, <3>5, <4>1 DEF ByKey, HasReason
    <3> QED BY <3>4, <3>5
  <2> QED BY <2>1, <2>2
<1>11. CASE e.type = "TEXTINPUT"
  <2>1. CASE k \in keys
    BY <1>9, <1>11, <2>1
  <2>2. CASE k \notin keys
    <3>1. k = e.text /\ k \in Texts
      BY <1>1, <1>4, <1>11, <2>2 DEF HandleKey, TextInput
    <3>2. CASE ~Mixed
      <4>1. TextFollows /\ CtrlSilent
        BY <1>2, <3>2 DEF Orders, Calm
      <4>2. symDown = e.sym /\ Ctrl \notin held
        BY <1>3, <1>11, <4>1 DEF TextFollows, CtrlSilent
      <4>3. PICK u : u = e.sym
        OBVIOUS
      <4>4. keysDown'[u] = k /\ u \in Syms
        BY <1>4, <1>5, <1>11, <3>1, <4>2, <4>3 DEF Handled, Typing
      <4>5. Waiting(u)'
        BY <1>1, <1>6, <1>11, <4>3, WaitingTaken
      <4> QED BY <1>3, <3>1, <4>2, <4>4, <4>5 DEF ByKey, HasReason
    <3>3. CASE Mixed
      BY <1>3, <3>1, <3>3 DEF HasReason
    <3> QED BY <3>2, <3>3
  <2> QED BY <2>1, <2>2
<1>12. CASE e.type = "KEYUP"
  <2>1. k \in keys /\ KeyUp(e.sym)
    BY <1>1, <1>2, <1>12 DEF HandleKey, KeyUp
  <2>2. HasReason(k)
    BY <1>2, <2>1 DEF Reasons
  <2>3. \A s \in Syms : ~Typing(e, s)
    BY <1>12 DEF Typing
  <2>4. CASE ByPad(k)
    BY <1>7, <2>4 DEF HasReason
  <2>5. CASE Mixed /\ k \in Texts \cup Syms
    BY <1>3, <2>5 DEF HasReason
  <2>6. CASE BySpecial(k)
    <3>1. k # SDL_key2rfbKeySym(e.sym)
      <4>1. CASE SDL_key2rfbKeySym(e.sym) = NoSym
        <5>1. PICK s \in Specials \cup {Ctrl} : k = SDL_key2rfbKeySym(s) \/ k \in Codes(s)
          BY <2>6 DEF BySpecial
        <5>2. s \in AllKeys /\ s \notin Syms /\ s \in DOMAIN XK
          BY KeyNames, ClientAssumption DEF AllKeys, XK, Ctrl
        <5>3. k # NoSym
          <6>1. NoSym \notin Codes(s)
            BY <5>2 DEF Codes, XK, NoSym
          <6> QED BY <5>1, <5>2, <6>1, ByCode
        <5> QED BY <4>1, <5>3
      <4>2. CASE SDL_key2rfbKeySym(e.sym) # NoSym
        BY <1>2, <2>1, <4>2 DEF KeyUp
      <4> QED BY <4>1, <4>2
    <3> QED BY <1>8, <2>6, <3>1 DEF HasReason
  <2>7. CASE ByKey(k) /\ Ctrl \in held
    <3>1. k \in Syms /\ Waiting(k) /\ k # e.sym
      <4>1. e.sym \in Syms => k # e.sym
        BY <1>2, <1>3, <1>4, <2>1, <2>7, ByCode DEF KeyUp
      <4> QED BY <2>7, <4>1 DEF ByKey
    <3>2. Waiting(k)'
      BY <1>1, <3>1, WaitingTaken
    <3> QED BY <1>3, <2>7, <3>1, <3>2 DEF ByKey, HasReason
  <2>8. CASE ByKey(k) /\ Ctrl \notin held
    <3>1. PICK s \in Syms : keysDown[s] = k /\ Waiting(s) /\ k \in Texts
      BY <2>8 DEF ByKey
    <3>2. s # e.sym
      <4>1. e.sym \in Syms => k # keysDown[e.sym]
        BY <1>2, <1>4, <2>1, <2>8, ByCode DEF KeyUp
      <4> QED BY <1>3, <3>1, <4>1
    <3>3. keysDown'[s] = k
      BY <1>5, <2>3, <3>1, <3>2 DEF Handled, Lifting
    <3>4. Waiting(s)'
      BY <1>1, <3>1, <3>2, WaitingTaken
    <3> QED BY <1>3, <2>8, <3>1, <3>3, <3>4 DEF ByKey, HasReason
  <2> QED BY <2>2, <2>4, <2>5, <2>6, <2>7, <2>8 DEF HasReason
<1> QED BY <1>3, <1>10, <1>11, <1>12, EventFacts

\* What Process_DRC_Input leaves down in mouse mode: what a button that is down
\* types, and what no button that went up types; but for Home.
LEMMA KeysAfter ==
  ASSUME NEW now, NEW k \in KeysWith(now), ~ \E b \in now : k \in Types(b)
  PROVE  k \in keys /\ \A b \in prev \ now : b # "Home" => k \notin Types(b)
<1> DEFINE plain == {KeyOf[b] : b \in {b \in DOMAIN KeyOf : Changed({b}, now) /\ b \in now}}
           gone  == {KeyOf[b] : b \in {b \in DOMAIN KeyOf : Changed({b}, now) /\ b \notin now}}
           first == (keys \cup plain) \ gone
           paste == PressOrRelease(first, "Plus", {"Control", "v"}, now)
           copy  == PressOrRelease(paste, "Minus", {"Control", "c"}, now)
<1>1. KeysWith(now) = IF Changed({"Minus"}, now)
                      THEN PressOrRelease(copy, "Home", {"Escape"}, now) ELSE copy
  BY Zenon DEF KeysWith
<1>2. /\ "Plus" \notin DOMAIN KeyOf /\ "Minus" \notin DOMAIN KeyOf /\ "Home" \notin DOMAIN KeyOf
  BY DEF KeyOf
<1>3. /\ Types("Plus") = {"Control", "v"} /\ Types("Minus") = {"Control", "c"}
      /\ Types("Home") = {"Escape"}
  BY <1>2 DEF Types
<1>4. \A b \in DOMAIN KeyOf : Types(b) = {KeyOf[b]}
  BY DEF Types
<1>5. \A b \in prev \ now : Changed({b}, now)
  BY DEF Changed
<1> HIDE DEF plain, gone, first, paste, copy
<1>6. k \in copy
  BY <1>1, <1>3 DEF PressOrRelease
<1>7. k \in paste /\ ("Minus" \in prev \ now => k \notin Types("Minus"))
  BY <1>3, <1>5, <1>6 DEF copy, PressOrRelease
<1>8. k \in first /\ ("Plus" \in prev \ now => k \notin Types("Plus"))
  BY <1>3, <1>5, <1>7 DEF paste, PressOrRelease
<1>9. k \in keys /\ k \notin gone
  BY <1>4, <1>8 DEF first, plain
<1>10. ASSUME NEW b \in prev \ now, b \in DOMAIN KeyOf PROVE k \notin Types(b)
  BY <1>4, <1>5, <1>9, <1>10 DEF gone
<1>11. ASSUME NEW b, b \notin DOMAIN KeyOf, b # "Plus", b # "Minus", b # "Home"
       PROVE  Types(b) = {}
  BY <1>11 DEF Types
<1> QED BY <1>7, <1>8, <1>9, <1>10, <1>11

LEMMA ReasonsPoll ==
  ASSUME TypeInv, PadSeen, Reasons, NEW now \in SUBSET (Buttons \cap devices), Poll(now)
  PROVE  PadSeen' /\ Reasons'
<1> DEFINE changes == {b \in Buttons : Changed({b}, now)}
<1>1. /\ prev' = now /\ UNCHANGED <<devices, viewOnly, held, queue, keysDown, mixed>>
      /\ missed' = IF joystick' THEN missed \cup changes ELSE missed \ changes
      /\ keys' = IF joystick' THEN keys ELSE KeysWith(now)
  BY DEF Poll, Process_DRC_Input, ProcessButtons, keyVars, session
<1>2. \A b \in Buttons : b \in changes <=> (b \in prev /\ b \notin now) \/ (b \in now /\ b \notin prev)
  BY DEF Changed
<1> HIDE DEF changes
<1>3. changes \subseteq prev \cup now /\ prev \subseteq Buttons /\ missed \subseteq Buttons
      /\ changes \subseteq Buttons
  BY <1>2 DEF TypeInv, TypeOK, changes
<1>4. PadSeen'
  BY <1>1, <1>3 DEF PadSeen
<1>5. ASSUME NEW k, ByKey(k) \/ BySpecial(k) \/ (Mixed /\ k \in Texts \cup Syms)
      PROVE  HasReason(k)'
  BY <1>1, <1>5 DEF HasReason, ByKey, BySpecial, Waiting, Mixed, SDL_key2rfbKeySym
<1>6. ASSUME NEW b \in prev \cup missed \cup ({"Home"} \cap devices), b = "Home" \/ b \notin prev \ now
      PROVE  b \in prev' \cup missed' \cup ({"Home"} \cap devices')
  <2>1. CASE b = "Home"
    BY <1>1, <2>1 DEF PadSeen
  <2>2. CASE b # "Home"
    <3>1. b \in prev => b \in now
      BY <1>6, <2>2
    <3>2. b \notin prev /\ b \in changes => b \in now
      BY <1>2, <1>3
    <3> QED BY <1>1, <1>3, <2>2, <3>1, <3>2
  <2> QED BY <2>1, <2>2
<1>7. ASSUME ~viewOnly, NEW k \in keys' PROVE HasReason(k)'
  <2>1. CASE joystick'
    <3>1. k \in keys /\ HasReason(k)
      BY <1>1, <1>7, <2>1 DEF Reasons
    <3>2. CASE ByPad(k)
      <4>1. PICK b \in prev \cup missed \cup ({"Home"} \cap devices) : k \in Types(b)
        BY <3>2 DEF ByPad
      <4>2. b \in prev \ now => b \in missed'
        BY <1>1, <1>2, <1>3, <2>1
      <4> QED BY <1>6, <4>1, <4>2 DEF HasReason, ByPad
    <3> QED BY <1>5, <3>1, <3>2 DEF HasReason
  <2>2. CASE ~joystick' /\ \E b \in now : k \in Types(b)
    BY <1>1, <2>2 DEF HasReason, ByPad
  <2>3. CASE ~joystick' /\ ~ \E b \in now : k \in Types(b)
    <3>1. k \in keys /\ \A b \in prev \ now : b # "Home" => k \notin Types(b)
      BY <1>1, <1>7, <2>3, KeysAfter
    <3>2. HasReason(k)
      BY <1>7, <3>1 DEF Reasons
    <3>3. CASE ByPad(k)
      <4>1. PICK b \in prev \cup missed \cup ({"Home"} \cap devices) : k \in Types(b)
        BY <3>3 DEF ByPad
      <4> QED BY <1>6, <3>1, <4>1 DEF HasReason, ByPad
    <3> QED BY <1>5, <3>2, <3>3 DEF HasReason
  <2> QED BY <2>1, <2>2, <2>3
<1> QED BY <1>1, <1>4, <1>7 DEF Reasons

-----------------------------------------------------------------------------
KeysInv == TypeInv /\ PadSeen /\ Orders /\ Reasons

LEMMA KeysInvInit == ASSUME Init PROVE KeysInv
<1>1. TypeInv
  BY TypeInit
<1>2. PadSeen /\ Reasons
  BY DEF Init, InitPad, PadSeen, Reasons
<1>3. Len(queue) = 0 /\ \A s \in Syms : keysDown[s] = NoText
  BY DEF Init
<1>4. Orders
  BY <1>3 DEF Orders, PressesEnd, TextFollows, TextStands, SentEnds, CtrlSilent
<1> QED BY <1>1, <1>2, <1>4 DEF KeysInv

\* Steps of the mouse, the server and the clock.
LEMMA KeysQuiet ==
  ASSUME PadSeen, Orders, Reasons,
         UNCHANGED <<keyVars, keys, prev, missed, devices, viewOnly>>
  PROVE  PadSeen' /\ Orders' /\ Reasons'
<1>1. PadSeen'
  BY DEF PadSeen
<1>2. Orders'
  BY DEF Orders, keyVars, PressesEnd, Calm, Mixed, TextFollows, TextStands, SentEnds, CtrlSilent
<1>3. \A k : HasReason(k)' <=> HasReason(k)
  BY DEF keyVars, HasReason, ByPad, BySpecial, ByKey, Waiting, Mixed, SDL_key2rfbKeySym
<1> QED BY <1>1, <1>2, <1>3 DEF Reasons

LEMMA KeysInvStep == ASSUME KeysInv, [Next]_vars PROVE KeysInv'
<1>1. TypeInv'
  BY TypeStep DEF KeysInv
<1>2. CASE PressCtrl \/ ReleaseCtrl
  <2>1. PadSeen'
    BY <1>2 DEF KeysInv, PadSeen, PressCtrl, ReleaseCtrl, Pump, padVars, session
  <2> QED BY <1>1, <1>2, <2>1, OrdersCtrl, ReasonsCtrl DEF KeysInv
<1>3. ASSUME NEW s \in Syms \cup Specials,
             ReleaseKey(s) \/ PressSpecial(s) \/ (s \in Syms /\ \E t \in Texts : PressKey(s, t))
      PROVE  KeysInv'
  <2>1. PadSeen'
    BY <1>3 DEF KeysInv, PadSeen, ReleaseKey, PressSpecial, PressKey, Pump, padVars, session
  <2>2. Orders'
    <3>1. CASE PressSpecial(s)
      BY <3>1, OrdersPress DEF KeysInv, PressSpecial, Pump, session
    <3> QED BY <1>3, <3>1, OrdersRelease, OrdersPressCtrl, OrdersPressText DEF KeysInv
  <2> QED BY <1>1, <1>3, <2>1, <2>2, ReasonsKey DEF KeysInv
<1>4. CASE HandleKey
  <2>1. PadSeen'
    BY <1>4 DEF KeysInv, PadSeen, HandleKey, SameKeyboard, SamePad, session
  <2> QED BY <1>1, <1>4, <2>1, OrdersHandle, ReasonsHandle DEF KeysInv
<1>5. CASE \/ \E b \in SdlButtons : MouseDown(b) \/ MouseUp(b)
           \/ \E bit \in {"wheelUp", "wheelDown"} : MouseWheel(bit)
  <2>1. UNCHANGED <<keyVars, keys, prev, missed, devices, viewOnly>>
    BY <1>5 DEF MouseDown, MouseUp, MouseWheel, SamePad, session
  <2> QED BY <1>1, <2>1, KeysQuiet DEF KeysInv
<1>6. ASSUME NEW now \in SUBSET (Buttons \cap devices), Poll(now) PROVE KeysInv'
  <2>1. Orders'
    <3>1. UNCHANGED <<keyVars, viewOnly>>
      BY <1>6 DEF Poll, session
    <3> QED BY <3>1 DEF KeysInv, Orders, keyVars, PressesEnd, Calm, Mixed, TextFollows, TextStands,
                        SentEnds, CtrlSilent
  <2> QED BY <1>1, <1>6, <2>1, ReasonsPoll DEF KeysInv
<1>7. CASE ServerUpdate \/ ServerGone \/ Quit \/ Tick \/ UNCHANGED vars
  <2>1. UNCHANGED <<keyVars, keys, prev, missed, devices, viewOnly>>
    BY <1>7 DEF ServerUpdate, ServerGone, Quit, Tick, vars, padVars, session
  <2> QED BY <1>1, <2>1, KeysQuiet DEF KeysInv
<1> QED BY <1>2, <1>3, <1>4, <1>5, <1>6, <1>7 DEF Next, KeyMoves

LEMMA NothingStuck == ASSUME KeysInv PROVE NoStuckKeys
<1>1. DOMAIN queue = 1 .. Len(queue)
  BY DEF KeysInv, TypeInv
<1>2. \A s : Waiting(s) <=> s \in held \/ Queued(s)
  BY <1>1 DEF Waiting, Queued
<1> DEFINE down    == {s \in Syms \cup Specials \cup {Ctrl} : s \in held \/ Queued(s)}
           typed   == IF (down \cup mixed) \cap Syms # {} THEN Texts \cup Syms ELSE {}
           special == UNION {Codes(s) : s \in (down \cup mixed) \ Syms}
           pad     == prev \cup missed \cup ({"Home"} \cap devices)
           buttons == UNION {Types(b) : b \in pad}
<1>3. \A s \in AllKeys : Waiting(s) => s \in down
  BY <1>2 DEF AllKeys
<1> HIDE DEF down
<1>4. ASSUME ~viewOnly, NEW k \in keys
      PROVE  k \in buttons \/ k \in typed \/ k \in special
  <2>1. HasReason(k)
    BY <1>4 DEF KeysInv, Reasons
  <2>2. CASE ByPad(k)
    BY <2>2 DEF ByPad
  <2>3. CASE BySpecial(k)
    <3>1. PICK s \in Specials \cup {Ctrl} :
          (Waiting(s) /\ k = SDL_key2rfbKeySym(s)) \/ (s \in mixed /\ k \in Codes(s))
      BY <2>3 DEF BySpecial
    <3>2. s \in AllKeys /\ s \notin Syms
      BY KeyNames DEF AllKeys
    <3>3. s \in (down \cup mixed) \ Syms /\ k \in Codes(s)
      BY <1>3, <3>1, <3>2, ByCode
    <3> QED BY <3>3
  <2>4. ASSUME k \in Texts \cup Syms, (down \cup mixed) \cap Syms # {} PROVE k \in typed
    BY <2>4
  <2> HIDE DEF typed, special, pad, buttons
  <2>5. CASE ByKey(k)
    <3>1. k \in Texts \cup Syms /\ \E s \in Syms : Waiting(s)
      BY <2>5 DEF ByKey
    <3> QED BY <1>3, <2>4, <3>1 DEF AllKeys
  <2>6. CASE Mixed /\ k \in Texts \cup Syms
    BY <2>4, <2>6 DEF Mixed
  <2> QED BY <2>1, <2>2, <2>3, <2>5, <2>6 DEF HasReason
<1>5. ~viewOnly => keys \subseteq buttons \cup typed \cup special
  <2> HIDE DEF typed, special, pad, buttons
  <2> QED BY <1>4
<1> QED BY <1>5, Zenon DEF NoStuckKeys, down

\* No key stays down on the remote desktop once it was released on the GamePad and
\* on the keyboard, for any keys, texts, buttons and length of SDL's queue: what
\* handleSDLEvent presses for a key, by its keycode or by its text, is what it
\* releases, however late the events are handled; the exceptions are the four that
\* NoStuckKeys names.
THEOREM NoKeyStuck == Spec => []NoStuckKeys
<1>1. Init => KeysInv BY KeysInvInit
<1>2. KeysInv /\ [Next]_vars => KeysInv' BY KeysInvStep
<1>3. KeysInv => NoStuckKeys BY NothingStuck
<1> QED BY <1>1, <1>2, <1>3, PTL DEF Spec
=============================================================================
