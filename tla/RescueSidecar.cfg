\* A container beside a sidecar, re-creation from changing templates.
SPECIFICATION Spec
CONSTANTS
    Containers = {c1, s1}
    Sidecars = {s1}
    AppImages = {i1, i2}
    BackendImage = back
    FrontendImage = front
    NoImage = NoImage
    NoPod = NoPod
    Controllers = {k1}
    Templates <- UniformTemplates
    StableName = TRUE
    Edits <- AnyEdit
    FlakyReports = {"pullFail"}
    MaxLag = 1
    GaugeBound = 0
INVARIANTS
    SidecarsUntouched
PROPERTIES
    NoPrematureRevert
CHECK_DEADLOCK FALSE
