\* Two completions of one session: the second waits for the first.
SPECIFICATION Spec
CONSTANTS
    Uploads = {u1}
    Requests = {r1, r2}
    Bodies = {good}
    Users = {creator}
    Submitters = {creator}
    Admins = {}
    Policies = {unlocked}
    Unlocked = unlocked
    None = None
INVARIANTS
    RepeatedCompletionAnswered
