\* One container, two controllers, all faults, re-creation from one template.
SPECIFICATION Spec
CONSTANTS
    Containers = {c1}
    Sidecars = {}
    AppImages = {i1}
    BackendImage = back
    FrontendImage = front
    NoImage = NoImage
    NoPod = NoPod
    Controllers = {k1, k2}
    Templates <- OneTemplate
    StableName = TRUE
    Edits <- OneOptOut
    FlakyReports = {"pullFail"}
    MaxLag = 1
    GaugeBound = 0
INVARIANTS
    TypeOK
    DummyIsRecorded
PROPERTIES
    ContractSpec
SYMMETRY Interchangeable
CHECK_DEADLOCK FALSE
