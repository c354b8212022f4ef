\* Two requests beside three edits: a publication that read a version which was
\* approved, and is revised and approved again.
SPECIFICATION FairReferences
CONSTANTS
    MaxEdits = 3
    MaxRequests = 2
    Items <- MCItems
    Roles <- MCRoles
    Users = {admin}
    Editors = {admin}
    Approvers = {admin}
    Admins = {admin}
    None = None
INVARIANTS
    ReferencesTypeOK
    EveryRevisionKept
    StatusIsOfCurrentVersion
    PublishedVersionApproved
PROPERTIES
    ReferencesEnd
    ImplementsRegister
    ImplementsDocument
\* Every request has been served: nothing is left to do.
CHECK_DEADLOCK FALSE
