CONSTANTS
    Nested = 1
    Odd = {"case"}
SPECIFICATION Spec
INVARIANT BodiesKeptWhole
