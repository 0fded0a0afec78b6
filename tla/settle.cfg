SPECIFICATION FairSpec
CONSTANTS
    fieldA = fieldA
    fieldB = fieldB
    Field = {fieldA}
    NoField = NoField
    WireCap = 4
    MaxAttempts = 1
    GuardThreshold = 2
    Faults = {}
    Traffic = {"move", "switch"}
PROPERTIES FocusConverges BlurConverges KeymapWaitEnds
