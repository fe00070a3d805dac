CONSTANTS
    Name = {a, b}
    Client = {c1, c2}
    Maintainer = {m1}
    Job = {j1}
    Handle = {h1, h2}
    MaxOpen = 1
    ShutdownTimesOut = TRUE
    NoHandle = NoHandle
    NoName = NoName
SPECIFICATION FairSpec
CHECK_DEADLOCK FALSE
INVARIANT TypeOK
INVARIANT CacheBounded
INVARIANT CachedHandleUsable
INVARIANT RefsMatchHolders
INVARIANT SingleOwner
PROPERTY DrainTerminates
PROPERTY ShutdownCompletes
PROPERTY EvictedGetClosed
