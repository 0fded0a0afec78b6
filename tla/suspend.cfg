SPECIFICATION Spec
CONSTANTS
    fieldA = fieldA
    fieldB = fieldB
    Field = {fieldA}
    NoField = NoField
    WireCap = 3
    MaxAttempts = 1
    GuardThreshold = 2
    Faults = {}
    Traffic = {"resume", "engine", "wsi", "update", "switch", "split", "modifiers"}
INVARIANTS NoGrabUnwanted NoStaleReady ComposeOnlyFocused
