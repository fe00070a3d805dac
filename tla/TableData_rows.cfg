CONSTANTS
    Request = {r, s}
    MaxId = 3
    Inserts <- RowsIn
    Column = {c, d}
    PageSize = 1
    MaxRows = 1
    Limits = {2, 3}
    Scopes <- RowsSchemaAndExports
    None = None
SPECIFICATION Spec
SYMMETRY Symmetry
CHECK_DEADLOCK FALSE
INVARIANT TypeOK
INVARIANT ShownIdsStillName
INVARIANT AnswersDurable
INVARIANT ExportComplete
PROPERTY RebuildKeeps
PROPERTY InsertsConfirmed
