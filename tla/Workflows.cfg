SPECIFICATION Spec
CONSTANTS
    Requests = {r1, r2, r3}
    MaxVersions = 2
    MaxSecrets = 2
INVARIANTS
    TypeOK
    VersionsAreNumbered
    OneActiveVersion
PROPERTIES
    TriggersAreTimely
    EditsArePermitted
SYMMETRY Symmetric
CHECK_DEADLOCK FALSE
