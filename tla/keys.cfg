SPECIFICATION Spec
CONSTANTS
    Ctrl = Ctrl
    RightCtrl = RightCtrl
    Shift = Shift
    Super = Super
    A = A
    V = V
    NoKey = NoKey
    CtrlKey = {Ctrl, RightCtrl}
    ShiftKey = {Shift}
    SuperKey = {}
    PlainKey = {A}
    EnterKey = {}
    NavKey = {A}
    PttKey = {}
    PttMods = {}
    ExitKey = {A}
    MaxBuffered = 3
    Traffic = {"straddle", "orphan", "tap", "mixed", "reset", "layout"}
INVARIANTS
    TypeOK
    NoPhantomModifier
    UndecidedIsHeld
    TrackedIsDown
    EngineReleaseMatches
PROPERTIES
    RepeatIsHeld
SYMMETRY Ctrls
