\* Every spelling of a registry, two pull secrets, passwords rotated at any time.
SPECIFICATION Spec
CONSTANTS
    Absent = Absent
    Garbage = Garbage
    Anonymous = Anonymous
    Images <- SomeImages
    References <- SomeReferences
    Secrets <- SomeSecrets
    Admissions <- SomeAdmissions
INVARIANTS
    TypeOK
    ParsedAsWritten
    SentToItsHost
    AnonymousOnlyIfNothingUsable
PROPERTIES
    EventuallySeen
