\* Two containers, one controller, a pod that lives on, a longer watch lag.
SPECIFICATION Spec
CONSTANTS
    Containers = {c1, c2}
    Sidecars = {}
    AppImages = {i1, i2}
    BackendImage = back
    FrontendImage = front
    NoImage = NoImage
    NoPod = NoPod
    Controllers = {k1}
    Templates <- OneTemplate
    StableName = FALSE
    Edits = {}
    FlakyReports = {"pullFail"}
    MaxLag = 2
    GaugeBound = 0
INVARIANTS
    UnpublishedNeverLost
PROPERTIES
    NoPrematureRevert
    NoForeignImage
CHECK_DEADLOCK FALSE
