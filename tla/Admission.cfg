\* Every shape of a container, every annotation, every way to mount two volumes.
SPECIFICATION Spec
CONSTANTS
    SidecarNames = {"istio-proxy"}
    BackendImage = back
    FrontendImage = front
    Absent = Absent
    Reviews <- AllReviews
INVARIANTS
    TypeOK
    PatchAdmissible
    SkippedUntouched
    WholeOrNothing
    LeftoversAreKept
    PortsAgree
    OwnersChoicesKept
CHECK_DEADLOCK FALSE
