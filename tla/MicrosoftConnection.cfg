\* One discovery is enough; the second shows that a healthy status survives too.
SPECIFICATION Spec
CONSTANTS
    Discoveries = {d1, d2}
    Users = {admin, analyst}
    Admins = {admin}
    None = None
INVARIANTS
    FailureShown
CHECK_DEADLOCK FALSE
