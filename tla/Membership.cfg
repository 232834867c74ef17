SPECIFICATION Spec
CONSTANTS
    Users = {u1, u2, u3}
    Requests = {r1, r2, r3}
    MaxRows = 4
    NoRow = NoRow
INVARIANTS
    TypeOK
    OneOwnerUnlessRaced
PROPERTIES
    ChangesArePermitted
SYMMETRY Symmetric
CHECK_DEADLOCK FALSE
