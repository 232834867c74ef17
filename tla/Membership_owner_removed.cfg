SPECIFICATION Spec
CONSTANTS
    Users = {u1, u2}
    Requests = {r1, r2}
    MaxRows = 2
    NoRow = NoRow
PROPERTIES
    OwnerIsNotRemoved
CHECK_DEADLOCK FALSE
