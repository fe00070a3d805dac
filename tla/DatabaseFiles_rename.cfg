CONSTANTS
    Name = {a, b, c}
    Admin = {p, q}
    Inode = {i1, i2}
    Data = {d1, d2}
    Existing = {a, b}
    Ops = {"rename"}
    MaxFaults = 0
    Cancels = TRUE
    Crashes = FALSE
    NoInode = NoInode
    NoData = NoData
    NoName = NoName
    Nobody = Nobody
SPECIFICATION Spec
CHECK_DEADLOCK FALSE
INVARIANT RenameKeepsData

