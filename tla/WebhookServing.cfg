\* Two reviews, three versions of the Secret, every environment; a tick is 5 s.
SPECIFICATION FairSpec
CONSTANTS
    Reviews = {r1, r2}
    Unset = Unset
    Blank = Blank
    Malformed = Malformed
    Unbindable = Unbindable
    Environments <- SomeEnvironments
    Rotations = 2
    Grace = 6
    KillAfter = 6
    Propagation = 2
    Timeout = 2
INVARIANTS
    TypeOK
    ServesOnlyUsable
    ListedAnswers
    NoReviewDropped
PROPERTIES
    EventuallyCurrent
CHECK_DEADLOCK FALSE
