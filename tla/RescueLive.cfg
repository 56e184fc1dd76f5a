\* One container, one controller, every fault until the environment is calm.
SPECIFICATION FairSpec
CONSTANTS
    Containers = {c1}
    Sidecars = {}
    AppImages = {i1}
    BackendImage = back
    FrontendImage = front
    NoImage = NoImage
    NoPod = NoPod
    Controllers = {k1}
    Templates <- OneTemplate
    StableName = TRUE
    Edits <- AnyEdit
    FlakyReports = {"creating", "pullFail"}
    MaxLag = 1
    GaugeBound = 0
PROPERTIES
    EveryPodBoots
    EventuallyRestored
CHECK_DEADLOCK FALSE
