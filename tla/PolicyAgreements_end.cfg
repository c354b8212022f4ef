\* Two requests to one person, for one version or for two, and two calls with a token
\* that race each other for a request, or for the person's row, and a revocation.
SPECIFICATION FairSpec
CONSTANTS
    MaxAgreements = 2
    Recipients = {employee}
    Signings = {s1, s2}
    Revocations = {v1}
    Users = {admin}
    Admins = {admin}
    Decisions = {"approved", "draft"}
    MaxVersion = 2
    None = None
PROPERTIES
    ImplementsLedger
    RequestsEnd
\* Every request has been served: nothing is left to do.
CHECK_DEADLOCK FALSE
