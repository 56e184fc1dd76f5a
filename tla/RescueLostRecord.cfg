\* Two containers: a pod that is not restored although all its images are there.
SPECIFICATION FairSpec
CONSTANTS
    Containers = {c1, c2}
    Sidecars = {}
    AppImages = {i1, i2}
    BackendImage = back
    FrontendImage = front
    NoImage = NoImage
    NoPod = NoPod
    Controllers = {k1}
    Templates <- OneTemplate
    StableName = FALSE
    Edits = {}
    FlakyReports = {"pullFail"}
    MaxLag = 1
    GaugeBound = 0
PROPERTIES
    EventuallyRestored
CHECK_DEADLOCK FALSE
