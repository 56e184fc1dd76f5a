\* Injected and rescued containers with every probe and environment; a tick is 5 s.
SPECIFICATION PodSpec
CONSTANTS
    SidecarNames = {}
    BackendImage = back
    FrontendImage = front
    Absent = Absent
    Unset = Unset
    Blank = Blank
    Clients = {c1, c2}
    Grace = 3
    KillAfter = 6
    Propagation = 2
    RequestTime = 2
    UnprivilegedStart = 1024
    Manifests <- SomeManifests
    AnnotationSets <- SomeAnnotations
INVARIANTS
    TypeOK
    NoneRefused
    NoneCut
PROPERTIES
    InjectedBoots
    RescuedBoots
CHECK_DEADLOCK FALSE
