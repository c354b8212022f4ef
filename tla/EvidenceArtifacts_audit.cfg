\* One recording makes the artifact clean, one download is authorized.
SPECIFICATION Spec
CONSTANTS
    Observations = {e1}
    Stored = {e1}
    Recordings = {c1}
    Downloads = {d1}
    Users = {admin}
    Admins = {admin}
    Readers = {admin}
    None = None
INVARIANTS
    EveryGrantAudited
\* Every request has been served: nothing is left to do.
CHECK_DEADLOCK FALSE
