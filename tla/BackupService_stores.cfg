CONSTANTS
    Name = {a}
    Data = {d1, d2}
    Admin = {p}
    Ticker = Ticker
    Schedule = {s}
    Settings <- KeepOne
    Ops = {"restore", "delete", "run", "schedule", "write", "damage"}
    MaxBackups = 3
    MaxFaults = 1
    NoName = NoName
    NoData = NoData
    NoSetting = NoSetting
    Damaged = Damaged
SPECIFICATION Spec
SYMMETRY Symmetry
CHECK_DEADLOCK FALSE
INVARIANT TypeOK
INVARIANT StoreMatchesRows
PROPERTY RecoveryPointKept
PROPERTY RestoreLeavesWayBack
PROPERTY RestoredIsTheBackup
