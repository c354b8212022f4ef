\* A recurring request and two renewals of it, of one version or of two: the
\* second renewal runs beside the first or after its revocation.
SPECIFICATION Spec
CONSTANTS
    MaxAgreements = 3
    Recipients = {employee}
    Signings = {s1}
    Revocations = {v1}
    Users = {admin, outsider}
    Admins = {admin}
    Decisions = {"draft", "approved"}
    MaxVersion = 2
    None = None
INVARIANTS
    TypeOK
    OneReceipt
    OneSuccessor
    PinnedVersionApproved
\* Every request has been served: nothing is left to do.
CHECK_DEADLOCK FALSE
