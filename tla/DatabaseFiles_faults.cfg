CONSTANTS
    Name = {a, b}
    Admin = {p}
    Inode = {i1, i2, i3, i4, i5, i6}
    Data = {d1, d2, d3, d4}
    Existing = {}
    Ops = {"create", "import", "rename", "delete", "replace"}
    MaxFaults = 1
    Cancels = TRUE
    Crashes = TRUE
    NoInode = NoInode
    NoData = NoData
    NoName = NoName
    Nobody = Nobody
SPECIFICATION Spec
SYMMETRY Symmetry
CHECK_DEADLOCK FALSE
INVARIANT TypeOK
INVARIANT RegisteredIntact
INVARIANT NeverHalfRegistered
PROPERTY DataSurvives
