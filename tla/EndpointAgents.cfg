\* Two devices, one of which may retry, and three exchanges of a token with two
\* uses; two check-ins under one key, of one agent or of two.
SPECIFICATION FairSpec
CONSTANTS
    Devices = {d1, d2}
    Exchanges = {e1, e2, e3}
    CheckIns = {c1, c2}
    Keys = {k1}
    MaxUses = 2
    Torn = Torn
    None = None
INVARIANTS
    TypeOK
    UsesAreAgents
    SavedCredentialAccepted
PROPERTIES
    ImplementsRegistry
    CallsEnd
\* Every call has been served: nothing is left to do.
CHECK_DEADLOCK FALSE
