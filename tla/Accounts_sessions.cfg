CONSTANTS
    User = {u1, u2}
    Session = {s1, s2}
    Request = {p, q}
    Password = {w1, w2}
    Change <- Changes
    First = u1
    NoAccount = NoAccount
    NoSession = NoSession
    NoUser = NoUser
SPECIFICATION Spec
SYMMETRY Symmetry
CHECK_DEADLOCK FALSE
INVARIANT SessionFitsPassword
INVARIANT DisabledSignedOut
PROPERTY LastOwnerGuarded
