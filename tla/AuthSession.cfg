SPECIFICATION Spec
CONSTANTS
    Users = {u1, u2}
    Requests = {r1, r2}
    MaxSessions = 2
    MaxTime = 2
    AccessTtl = 1
    RefreshTtl = 2
    SessionTtl = 2
    NoSession = NoSession
INVARIANTS
    TypeOK
    DeletedAccountHasNoSession
PROPERTIES
    UsedTokenIsDead
    LogoutEndsTheToken
    OnlyItsTokenMovesASession
SYMMETRY Symmetric
CHECK_DEADLOCK FALSE
