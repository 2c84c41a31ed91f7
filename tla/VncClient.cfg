SPECIFICATION Spec
CONSTANTS
    Buttons = {"A", "ZL", "ZR", "L", "Up", "Down", "Plus", "Minus", "Home", "TV"}
    Syms = {"a"}
    Specials = {"return", "arrow"}
    Texts = {"a", "A"}
    MaxQueue = 3
    FrameWait = 1
    Sessions = {{"ZL", "ZR", "L", "Up", "TV", "left", "right", "wheel"}, {"ZL", "Up", "Down", "left", "middle", "wheelUp", "wheel"}, {"Plus", "TV", "a", "ctrl"}, {"A", "TV", "return", "ctrl"}, {"a", "return", "ctrl"}, {"arrow", "return", "ctrl"}, {"Plus", "Minus", "TV", "server"}, {"Minus", "Home"}, {"a", "ctrl", "server"}}
CHECK_DEADLOCK FALSE
INVARIANTS TypeOK ClicksFollow NoStuckKeys
PROPERTY FramesKeepComing
