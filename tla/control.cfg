SPECIFICATION Spec
CONSTANTS
    Catalog <- Engines
    Renders = {"zh"}
    Language <- Languages2
    Manifest <- Files
    HostCapabilities = {"keyboard"}
    EngineDirs <- AllDirs
    ReloadDirs <- SystemDirs
    Setting <- Settings
    Edits <- UserEdits
    Mode <- Modes
    Dynamic <- Dynamics
    MaxOps = 2
INVARIANT TypeOK SnapshotIsRegistry SubscribersKnow TrayShowsState BadgeIsOfLanguage HostIsCurrent NotifiedAreAlive ConfigIsCurrent
PROPERTY RefusedChangesNothing RestartIsCarriedOut
CHECK_DEADLOCK FALSE
