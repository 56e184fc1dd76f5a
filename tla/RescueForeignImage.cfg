\* A stub planned for a deleted pod lands on its successor, which has another
\* image, and records the old one, which a later revert then installs.
SPECIFICATION Spec
CONSTANTS
    Containers = {c1}
    Sidecars = {}
    AppImages = {i1, i2}
    BackendImage = back
    FrontendImage = front
    NoImage = NoImage
    NoPod = NoPod
    Controllers = {k1}
    Templates <- UniformTemplates
    StableName = TRUE
    Edits = {}
    FlakyReports = {}
    MaxLag = 1
    GaugeBound = 0
PROPERTIES
    NoForeignImage
CHECK_DEADLOCK FALSE
