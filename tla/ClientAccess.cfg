\* Two invitations of the guest may run together, in one tenant or in two; two
\* presentations of a token race each other and a revocation.
SPECIFICATION FairSpec
CONSTANTS
    o1 = o1
    o2 = o2
    boss = boss
    guest = guest
    Orgs = {o1, o2}
    People = {boss, guest}
    Invitations = {i1, i2}
    Acceptances = {a1, a2}
    Revocations = {v1}
    Roles = {"customer_admin", "reviewer"}
    Profiles = {"customer_admin"}
    AdminRoles = {"customer_admin"}
    Initial <- MCInitial
    None = None
INVARIANTS
    TypeOK
    OneOutcome
    StandingAccessNotInvited
PROPERTIES
    ImplementsGrants
    RequestsEnd
\* Every request has been served: nothing is left to do.
CHECK_DEADLOCK FALSE
