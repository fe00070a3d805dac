CONSTANTS
    Name = {a, b}
    Data = {d}
    Admin = {p}
    Ticker = Ticker
    Schedule = {s, t}
    Settings <- PerName
    Ops = {"create", "schedule", "drop", "crash", "cancel"}
    MaxBackups = 1
    MaxFaults = 1
    NoName = NoName
    NoData = NoData
    NoSetting = NoSetting
    Damaged = Damaged
SPECIFICATION FairSpec
CHECK_DEADLOCK FALSE
PROPERTY RecordsFinish
PROPERTY DueRuns
