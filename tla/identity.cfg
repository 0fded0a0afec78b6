SPECIFICATION Spec
CONSTANTS
    Handle = {h1, h2}
    App = {editor, browser}
    Engine = {rime, mozc}
    None = None
    MaxSerial = 5
INVARIANT TracksToplevels
CHECK_DEADLOCK FALSE
