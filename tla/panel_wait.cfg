SPECIFICATION TimedSpec
CONSTANTS
    List = {l1, l2}
    Selected = {s1}
    Label = {m1}
    Voice = {recording}
    Error = {failed}
    None = None
    Events <- QuietEvents
    Failing = FALSE
PROPERTY PendingResolvesAlone
