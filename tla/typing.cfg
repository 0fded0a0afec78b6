SPECIFICATION Spec
CONSTANTS
    Ctrl = Ctrl
    RightCtrl = RightCtrl
    Shift = Shift
    Super = Super
    A = A
    V = V
    NoKey = NoKey
    CtrlKey = {Ctrl}
    ShiftKey = {Shift}
    SuperKey = {Super}
    PlainKey = {V}
    EnterKey = {V}
    NavKey = {}
    PttKey = {V}
    PttMods = {"SUPER"}
    ExitKey = {V}
    MaxBuffered = 5
    Traffic = {"unready", "reset", "layout"}
INVARIANTS
    NoStuckKey
    NotReadyIsQuiet
