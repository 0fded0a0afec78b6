SPECIFICATION Spec
CONSTANTS
    fieldA = fieldA
    fieldB = fieldB
    Field = {fieldA, fieldB}
    NoField = NoField
    WireCap = 4
    MaxAttempts = 1
    GuardThreshold = 2
    Faults = {}
    Traffic = {}
INVARIANT CompositionStaysInField
