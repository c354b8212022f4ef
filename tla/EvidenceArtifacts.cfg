\* Two stored artifacts would not interact: one, and one observation without
\* an artifact.  Three recordings: one may commit while two wait.
SPECIFICATION FairSpec
CONSTANTS
    Observations = {e1, e2}
    Stored = {e1}
    Recordings = {c1, c2, c3}
    Downloads = {d1, d2}
    Users = {admin, owner, outsider}
    Admins = {admin}
    Readers = {admin, owner}
    None = None
INVARIANTS
    TypeOK
    LedgerExplainsRow
PROPERTIES
    ImplementsCustody
    WithdrawnForGood
    RecordingsEnd
\* Every request has been served: nothing is left to do.
CHECK_DEADLOCK FALSE
