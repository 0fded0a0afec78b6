SPECIFICATION Spec
CONSTANTS
    fieldA = fieldA
    fieldB = fieldB
    Field = {fieldA}
    NoField = NoField
    WireCap = 3
    MaxAttempts = 1
    GuardThreshold = 2
    Faults = {"session", "grab", "dup", "xkb", "no_vk", "null_vk", "retry"}
    Traffic = {"split", "emergency", "unavailable", "stop", "delete", "restart"}
INVARIANTS TypeOK FocusMatchesWant KeymapWaitIsBounded
PROPERTIES KeepsPromise SoftPauseKeepsGrab DisplayFollowsFocus
