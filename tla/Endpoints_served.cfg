CONSTANTS
    Id = {e1, e2}
    Shape = {"resource", "query", "other"}
    RoutesOf <- ShapeRoutes
    Database = {d1}
    Name = {n1, n2}
    Admin = {a, b}
    Client = {c, d}
    Changes = {"define", "toggle", "delete", "database"}
    Saved <- SavedEnabled
    None = None
SPECIFICATION Spec
SYMMETRY Symmetry
CHECK_DEADLOCK FALSE
INVARIANT RouterCurrent
INVARIANT ConflictsOnlyUnseen
