\* A startupProbe of the owner's that no dummy answers.
SPECIFICATION Spec
CONSTANTS
    SidecarNames = {"istio-proxy"}
    BackendImage = back
    FrontendImage = front
    Absent = Absent
    Reviews <- SlowStarts
INVARIANTS
    BootsGreen
CHECK_DEADLOCK FALSE
