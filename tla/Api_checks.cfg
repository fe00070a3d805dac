CONSTANTS
    Own = {k}
    Scoped = {ke}
    Cap <- TighterOnEndpoint
    Minute = 3
    GcAfter = 4
    Request = {r1, r2}
    MaxTime = 9
    Key = {k1}
    Endpoint = {e1, e2}
    Public = {e2}
    Client = {c, d}
    Form <- Forms
    Nested = 2
    Odd = {}
    None = None
SPECIFICATION ApiSpec
SYMMETRY Symmetry
INVARIANT TypeOK
INVARIANT NoDoubleBurst
INVARIANT RetryHonoured
INVARIANT GrantsAsSaved
INVARIANT AdmittedAsGranted
INVARIANT CutWhereStatementsEnd
INVARIANT ParametersAsBound
PROPERTY ImplementsQuota
