CONSTANTS
    Request = {r, s}
    MaxId = 3
    Inserts <- RowsIn
    Column = {c, d}
    PageSize = 1
    MaxRows = 1
    Limits = {2, 3}
    Scopes <- Changes
    None = None
SPECIFICATION Spec
SYMMETRY Symmetry
CHECK_DEADLOCK FALSE
PROPERTY ConstraintsComeBack
