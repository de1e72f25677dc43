SPECIFICATION Spec
CONSTANTS
    Fingers = {f1, f2, f3}
    f1 = f1
    f2 = f2
    f3 = f3
    Coords = {0, 60}
    MoveThreshold = 50
    DragThreshold = 10
    WheelStep = 50
    ScrollSens = 50
    ZoomSens = 75
    DoubleTapThreshold = 50
    VKeys <- MCVKeys
    FixedKeys <- MCFixedKeys
    DOMKeyTable <- MCDOMKeyTable
    Symbols = {"a", "A", "b"}
    Typing <- MCTyping
    Layouts <- MCLayouts
    FbSizes <- MCFbSizes
    ScreenSizes <- MCScreenSizes
    Drags <- MCDrags
    Devices = {"touch", "mouse", "keys", "window"}
    Buttons = {0, 2}
    MaxHeld = 2
    MaxTouches = 3
INVARIANTS
    FingersAccounted
    
    
    
    KeysMirrored
    ViewFits
    
PROPERTIES
    TapHonoured
SYMMETRY MCFingers
CHECK_DEADLOCK FALSE
