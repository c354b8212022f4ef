\* A limit of one domain, so that two registrations can exceed it; two requests
\* that race each other and are followed by any others.
SPECIFICATION FairSpec
CONSTANTS
    owner = owner
    rival = rival
    h1 = h1
    h2 = h2
    Tenants = {owner, rival}
    Hostnames = {h1, h2}
    Owner <- MCOwner
    Wants <- MCWants
    Limit = 1
    Requests = {q1, q2}
    None = None
INVARIANTS
    TypeOK
    OwnerRouted
    LimitUnlessOverlapping
PROPERTIES
    ImplementsRegistry
    HostGoesDark
    RequestsEnd
