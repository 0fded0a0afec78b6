SPECIFICATION Spec
CONSTANTS
    List = {l1}
    Selected = {s1}
    Label = {m1}
    Voice = {recording}
    Error = {failed}
    None = None
    Events <- AllEvents
    Failing = TRUE
INVARIANT TypeOK PanelIsOwned IndicatorIsTimed VoiceStatusEnds
PROPERTY PendingResolves RetryEnds
