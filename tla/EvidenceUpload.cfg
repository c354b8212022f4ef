\* One upload session and three completion requests: one completes, one waits
\* behind it, one starts afterwards or after a crash.
SPECIFICATION FairSpec
CONSTANTS
    Uploads = {u1}
    Requests = {r1, r2, r3}
    Bodies = {good, other}
    Users = {creator, admin, analyst}
    Submitters = {creator, admin}
    Admins = {admin}
    Policies = {unlocked, governance}
    Unlocked = unlocked
    None = None
INVARIANTS
    TypeOK
    VerifiedEvidence
    OneEvidencePerSession
    RetentionEnforced
PROPERTIES
    ImplementsLedger
    CompletionsEnd
