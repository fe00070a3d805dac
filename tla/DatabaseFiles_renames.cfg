CONSTANTS
    Name = {a, b, c}
    Admin = {p, q}
    Inode = {i1, i2}
    Data = {d1, d2}
    Existing = {a, b}
    Ops = {"rename"}
    MaxFaults = 2
    Cancels = TRUE
    Crashes = FALSE
    NoInode = NoInode
    NoData = NoData
    NoName = NoName
    Nobody = Nobody
SPECIFICATION FairSpec
CHECK_DEADLOCK FALSE
INVARIANT RegisteredIntact
PROPERTY RequestsReturn
