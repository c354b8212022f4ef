\* The guest, at first without access to o1, is invited twice.
SPECIFICATION FairSpec
CONSTANTS
    o1 = o1
    o2 = o2
    boss = boss
    guest = guest
    Orgs = {o1}
    People = {boss, guest}
    Invitations = {i1, i2}
    Acceptances = {a1, a2}
    Revocations = {}
    Roles = {"customer_admin", "reviewer"}
    Profiles = {"customer_admin", "reviewer"}
    AdminRoles = {"customer_admin"}
    Initial <- MCInitial
    None = None
PROPERTIES
    ActiveAccessKept
CHECK_DEADLOCK FALSE
