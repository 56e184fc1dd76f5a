\* The gauge rises while the pod is stubbed already.
SPECIFICATION Spec
CONSTANTS
    Containers = {c1}
    Sidecars = {}
    AppImages = {i1}
    BackendImage = back
    FrontendImage = front
    NoImage = NoImage
    NoPod = NoPod
    Controllers = {k1}
    Templates <- OneTemplate
    StableName = FALSE
    Edits = {}
    FlakyReports = {}
    MaxLag = 1
    GaugeBound = 2
PROPERTIES
    GaugeCountsRescuedPods
CHECK_DEADLOCK FALSE
