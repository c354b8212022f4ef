------------------------------ MODULE ClientAccess ------------------------------
(***************************************************************************)
(* Client invitations: access.py's _create_organization_invitation,        *)
(* revoke_organization_invitation and accept_organization_invitation, the  *)
(* security-definer functions of migration 0007 and the tables             *)
(* organization_invitations and organization_memberships.                  *)
(*                                                                         *)
(* Creation and revocation run in tenant_session, which answers before it  *)
(* commits; acceptance opens its own transaction and commits before it     *)
(* answers.  An app_user is its normalized email address, which the index  *)
(* app_users_email_ci_unique makes unique; an acceptance holds that row,   *)
(* inserted or updated, from its upsert to its end.                        *)
(***************************************************************************)
EXTENDS Naturals, FiniteSets

CONSTANTS
    Orgs,           \* tenants
    People,         \* natural persons, by normalized email address
    Invitations,    \* invitation rows, each with its token
    Acceptances,    \* acceptance requests
    Revocations,    \* revocation requests
    Roles,          \* membership roles
    Profiles,       \* roles a client invitation may carry
    AdminRoles,     \* INVITATION_ADMINS
    Initial,        \* organization_memberships before any invitation
    None            \* absent row, holder or field

ASSUME RolesNested == Profiles \subseteq Roles /\ AdminRoles \subseteq Roles
ASSUME RequestsDisjoint == Acceptances \cap Revocations = {}

VARIABLES
    invitation,     \* rows of organization_invitations
    lapsed,         \* whether expires_at of an invitation has passed
    members,        \* committed rows of organization_memberships
    rowLock,        \* the request whose open transaction updated the row
    acceptance,     \* acceptance requests
    revocation      \* revocation requests

vars == <<invitation, lapsed, members, rowLock, acceptance, revocation>>

-----------------------------------------------------------------------------
Membership == [role : Roles, active : BOOLEAN]

ASSUME NoneAbsent == None \notin Acceptances \cup Revocations \cup People \cup Membership
ASSUME InitialMembers ==
    Initial \subseteq [Orgs -> [People -> Membership \cup {None}]]

\* "checked": the member check passed, the insert has not run; "answered": the
\* token is sent, the insert not committed; "lost": refused or rolled back.
InvitationStatus == {"absent", "checked", "answered", "lost", "pending",
                     "accepted", "revoked"}

Invitation == [status : InvitationStatus, org : Orgs \cup {None},
               email : People \cup {None}, role : Profiles \cup {None}]

NoInvitation == [status |-> "absent", org |-> None, email |-> None,
                 role |-> None]

\* fresh: the invitation had not expired at the transaction's now().
\* user: resolved_user_id, None before the upsert of app_users.
\* "accepted" and "ended": the transaction is over, with or without effect.
Acceptance == [pc : {"idle", "begun", "consumed", "accepted", "ended"},
               invitation : Invitations \cup {None}, fresh : BOOLEAN,
               user : People \cup {None}]

NoAcceptance == [pc |-> "idle", invitation |-> None, fresh |-> FALSE, user |-> None]

\* "answered": 204 sent, not committed.
Revocation == [pc : {"idle", "begun", "answered", "revoked", "ended"},
               invitation : Invitations \cup {None}]

TypeOK ==
    /\ invitation \in [Invitations -> Invitation]
    /\ lapsed \in [Invitations -> BOOLEAN]
    /\ members \in [Orgs -> [People -> Membership \cup {None}]]
    /\ rowLock \in [Invitations -> Acceptances \cup Revocations \cup {None}]
    /\ acceptance \in [Acceptances -> Acceptance]
    /\ revocation \in [Revocations -> Revocation]

Init ==
    /\ invitation = [i \in Invitations |-> NoInvitation]
    /\ lapsed = [i \in Invitations |-> FALSE]
    /\ members \in Initial
    /\ rowLock = [i \in Invitations |-> None]
    /\ acceptance = [a \in Acceptances |-> NoAcceptance]
    /\ revocation = [v \in Revocations |-> [pc |-> "idle", invitation |-> None]]

\* The role tenant_session finds for a person, None without active membership.
RoleIn(o, p) ==
    IF members[o][p] # None /\ members[o][p].active THEN members[o][p].role
                                                    ELSE None

\* organization_has_member_email
HasMember(o, p) == RoleIn(o, p) # None

SameKey(i, j) == /\ invitation[i].org = invitation[j].org
                 /\ invitation[i].email = invitation[j].email

-----------------------------------------------------------------------------
\* Creation.  A caller who is refused at once (403, 409, 422) changes nothing.

\* A bug: the person's access is not looked up.
InviteAnyone(i, w, o, p, r) ==
    /\ invitation[i].status = "absent"
    /\ RoleIn(o, w) \in AdminRoles
    /\ r \in Profiles
    /\ invitation' = [invitation EXCEPT ![i] =
            [status |-> "checked", org |-> o, email |-> p, role |-> r]]
    /\ UNCHANGED <<lapsed, members, rowLock, acceptance, revocation>>

\* The administrator w of o invites p; p has no active access to o now.
CheckInvitee(i, w, o, p, r) ==
    /\ invitation[i].status = "absent"
    /\ RoleIn(o, w) \in AdminRoles
    /\ r \in Profiles
    /\ ~HasMember(o, p)
    /\ invitation' = [invitation EXCEPT ![i] =
            [status |-> "checked", org |-> o, email |-> p, role |-> r]]
    /\ UNCHANGED <<lapsed, members, rowLock, acceptance, revocation>>

\* The insert passes organization_invitations_pending_email_unique.  It waits
\* for an open transaction that inserted or is changing a row of its key.
InsertInvitation(i) ==
    /\ invitation[i].status = "checked"
    /\ \A j \in Invitations : SameKey(i, j) =>
            invitation[j].status \notin {"answered", "pending"}
    /\ invitation' = [invitation EXCEPT ![i].status = "answered"]
    /\ UNCHANGED <<lapsed, members, rowLock, acceptance, revocation>>

\* UniqueViolation: 409.  The row of an expired invitation is pending too.
DuplicateInvitation(i) ==
    /\ invitation[i].status = "checked"
    /\ \E j \in Invitations : /\ SameKey(i, j)
                              /\ invitation[j].status = "pending"
                              /\ rowLock[j] = None
    /\ invitation' = [invitation EXCEPT ![i].status = "lost"]
    /\ UNCHANGED <<lapsed, members, rowLock, acceptance, revocation>>

CommitInvitation(i) ==
    /\ invitation[i].status = "answered"
    /\ invitation' = [invitation EXCEPT ![i].status = "pending"]
    /\ UNCHANGED <<lapsed, members, rowLock, acceptance, revocation>>

\* The creating process or its connection dies.
CrashCreation(i) ==
    /\ invitation[i].status \in {"checked", "answered"}
    /\ invitation' = [invitation EXCEPT ![i].status = "lost"]
    /\ UNCHANGED <<lapsed, members, rowLock, acceptance, revocation>>

Expire(i) ==
    /\ invitation[i].status \in {"answered", "pending"}
    /\ ~lapsed[i]
    /\ lapsed' = [lapsed EXCEPT ![i] = TRUE]
    /\ UNCHANGED <<invitation, members, rowLock, acceptance, revocation>>

-----------------------------------------------------------------------------
\* A bug: a dead connection's row lock outlives it.
StillLocked(t) == rowLock

\* Row locks after the transaction of request t has ended.
Unlocked(t) == [i \in Invitations |-> IF rowLock[i] = t THEN None ELSE rowLock[i]]

\* Acceptance: the holder of the token starts a transaction, whose now() is
\* fixed from here on.
Present(a, i) ==
    /\ acceptance[a].pc = "idle"
    /\ invitation[i].status \notin {"absent", "checked"}
    /\ acceptance' = [acceptance EXCEPT ![a] =
            [pc |-> "begun", invitation |-> i, fresh |-> ~lapsed[i], user |-> None]]
    /\ UNCHANGED <<invitation, lapsed, members, rowLock, revocation>>

\* A bug: the status found before the wait for the row is not looked at again.
ConsumeUnchecked(a) ==
    LET i == acceptance[a].invitation
    IN  /\ acceptance[a].pc = "begun"
        /\ acceptance[a].fresh
        /\ rowLock[i] = None
        /\ invitation[i].status # "answered"
        /\ rowLock' = [rowLock EXCEPT ![i] = a]
        /\ acceptance' = [acceptance EXCEPT ![a].pc = "consumed"]
        /\ UNCHANGED <<invitation, lapsed, members, revocation>>

\* The conditional update locks the row; one that had to wait evaluates its
\* condition on the row the other transaction left.
Consume(a) ==
    LET i == acceptance[a].invitation
    IN  /\ acceptance[a].pc = "begun"
        /\ acceptance[a].fresh
        /\ rowLock[i] = None
        /\ invitation[i].status = "pending"
        /\ rowLock' = [rowLock EXCEPT ![i] = a]
        /\ acceptance' = [acceptance EXCEPT ![a].pc = "consumed"]
        /\ UNCHANGED <<invitation, lapsed, members, revocation>>

\* 401: the update finds no row that is committed, pending and unexpired.
RefuseAcceptance(a) ==
    LET i == acceptance[a].invitation
    IN  /\ acceptance[a].pc = "begun"
        /\ \/ ~acceptance[a].fresh
           \/ rowLock[i] = None /\ invitation[i].status # "pending"
        /\ acceptance' = [acceptance EXCEPT ![a].pc = "ended"]
        /\ UNCHANGED <<invitation, lapsed, members, rowLock, revocation>>

\* The acceptances whose open transaction has upserted the person's app_users row.
UserHolders(p) == {b \in Acceptances : acceptance[b].pc = "consumed" /\ acceptance[b].user = p}

\* The upsert of app_users: it waits for an open transaction that has inserted or
\* updated the row of the same email, while it holds the invitation.
ResolveUser(a) ==
    LET p == invitation[acceptance[a].invitation].email
    IN  /\ acceptance[a].pc = "consumed"
        /\ acceptance[a].user = None
        /\ UserHolders(p) = {}
        /\ acceptance' = [acceptance EXCEPT ![a].user = p]
        /\ UNCHANGED <<invitation, lapsed, members, rowLock, revocation>>

\* A bug: the upsert writes no status into the membership.
UpsertedWithoutStatus(i) == [role |-> invitation[i].role, active |-> None]

\* The upsert of the membership: an absent one is inserted, a present one gets
\* the invitation's role and becomes active.
Upserted(i) == [role |-> invitation[i].role, active |-> TRUE]

\* A bug: the membership is looked up by user alone.
GrantInEveryTenant(a) ==
    LET i == acceptance[a].invitation
    IN  /\ acceptance[a].pc = "consumed"
        /\ acceptance[a].user # None
        /\ invitation' = [invitation EXCEPT ![i].status = "accepted"]
        /\ members' = [o \in Orgs |-> [members[o] EXCEPT
                ![acceptance[a].user] =
                    IF @ # None \/ o = invitation[i].org THEN Upserted(i) ELSE @]]
        /\ rowLock' = Unlocked(a)
        /\ acceptance' = [acceptance EXCEPT ![a].pc = "accepted"]
        /\ UNCHANGED <<lapsed, revocation>>

\* Membership, accepted_by and audit event are written for the user found, and all
\* of it commits with the consumed token.
CommitAcceptance(a) ==
    LET i == acceptance[a].invitation
    IN  /\ acceptance[a].pc = "consumed"
        /\ acceptance[a].user # None
        /\ invitation' = [invitation EXCEPT ![i].status = "accepted"]
        /\ members' = [members EXCEPT
                ![invitation[i].org][acceptance[a].user] = Upserted(i)]
        /\ rowLock' = Unlocked(a)
        /\ acceptance' = [acceptance EXCEPT ![a].pc = "accepted"]
        /\ UNCHANGED <<lapsed, revocation>>

CrashAcceptance(a) ==
    /\ acceptance[a].pc \in {"begun", "consumed"}
    /\ rowLock' = Unlocked(a)
    /\ acceptance' = [acceptance EXCEPT ![a].pc = "ended"]
    /\ UNCHANGED <<invitation, lapsed, members, revocation>>

-----------------------------------------------------------------------------
\* Revocation, by an administrator w of o.  Row-level security hides the
\* invitations of other tenants: 404.

BeginRevocation(v, w, o, i) ==
    /\ revocation[v].pc = "idle"
    /\ RoleIn(o, w) \in AdminRoles
    /\ invitation[i].org = o
    /\ invitation[i].status \notin {"absent", "checked"}
    /\ revocation' = [revocation EXCEPT ![v] = [pc |-> "begun", invitation |-> i]]
    /\ UNCHANGED <<invitation, lapsed, members, rowLock, acceptance>>

\* The conditional update locks a pending row, expired or not; 204 is sent.
Revoke(v) ==
    LET i == revocation[v].invitation
    IN  /\ revocation[v].pc = "begun"
        /\ rowLock[i] = None
        /\ invitation[i].status = "pending"
        /\ rowLock' = [rowLock EXCEPT ![i] = v]
        /\ revocation' = [revocation EXCEPT ![v].pc = "answered"]
        /\ UNCHANGED <<invitation, lapsed, members, acceptance>>

\* 404: the update finds no pending row.
RefuseRevocation(v) ==
    LET i == revocation[v].invitation
    IN  /\ revocation[v].pc = "begun"
        /\ rowLock[i] = None
        /\ invitation[i].status # "pending"
        /\ revocation' = [revocation EXCEPT ![v].pc = "ended"]
        /\ UNCHANGED <<invitation, lapsed, members, rowLock, acceptance>>

CommitRevocation(v) ==
    /\ revocation[v].pc = "answered"
    /\ invitation' = [invitation EXCEPT
                        ![revocation[v].invitation].status = "revoked"]
    /\ rowLock' = Unlocked(v)
    /\ revocation' = [revocation EXCEPT ![v].pc = "revoked"]
    /\ UNCHANGED <<lapsed, members, acceptance>>

CrashRevocation(v) ==
    /\ revocation[v].pc \in {"begun", "answered"}
    /\ rowLock' = Unlocked(v)
    /\ revocation' = [revocation EXCEPT ![v].pc = "ended"]
    /\ UNCHANGED <<invitation, lapsed, members, acceptance>>

-----------------------------------------------------------------------------
Create(i) == InsertInvitation(i) \/ DuplicateInvitation(i) \/ CommitInvitation(i)

Accept(a) ==
    \/ Consume(a) \/ RefuseAcceptance(a) \/ ResolveUser(a) \/ CommitAcceptance(a)

Withdraw(v) == Revoke(v) \/ RefuseRevocation(v) \/ CommitRevocation(v)

Next ==
    \/ \E i \in Invitations :
          \/ \E w, p \in People, o \in Orgs, r \in Roles : CheckInvitee(i, w, o, p, r)
          \/ Create(i) \/ CrashCreation(i) \/ Expire(i)
    \/ \E a \in Acceptances :
          \/ \E i \in Invitations : Present(a, i)
          \/ Accept(a) \/ CrashAcceptance(a)
    \/ \E v \in Revocations :
          \/ \E w \in People, o \in Orgs, i \in Invitations :
                BeginRevocation(v, w, o, i)
          \/ Withdraw(v) \/ CrashRevocation(v)

Spec == Init /\ [][Next]_vars

\* Every handler step is eventually taken, and a waiter gets a row lock, an index
\* key or a user's row that stays free.
Fairness ==
    /\ \A i \in Invitations : WF_vars(Create(i))
    /\ \A a \in Acceptances : WF_vars(Accept(a))
    /\ \A v \in Revocations : WF_vars(Withdraw(v))

FairSpec == Spec /\ Fairness

-----------------------------------------------------------------------------
\* Properties

\* "Atomically consumes the token" (docs/client-access.md): of the requests that
\* present or revoke one invitation, at the same time or one after the other, at
\* most one takes effect, and the row says which kind it was.
OneOutcome ==
    \A i \in Invitations :
        LET accepted == {a \in Acceptances : acceptance[a].invitation = i
                                          /\ acceptance[a].pc = "accepted"}
            revoked == {v \in Revocations : revocation[v].invitation = i
                                         /\ revocation[v].pc = "revoked"}
        IN  /\ Cardinality(accepted) + Cardinality(revoked) <= 1
            /\ invitation[i].status = "accepted" <=> accepted # {}
            /\ invitation[i].status = "revoked" <=> revoked # {}

\* An invitation is under way for somebody with active access only where an
\* earlier invitation gave that access in the meantime: access that was there
\* before is never up for rewriting.
StandingAccessNotInvited ==
    \A i \in Invitations :
        /\ invitation[i].status \in {"checked", "answered", "pending"}
        /\ HasMember(invitation[i].org, invitation[i].email)
        => \E j \in Invitations : SameKey(i, j) /\ invitation[j].status = "accepted"

\* Every request ends although they wait for each other's rows and index keys, and an
\* acceptance that others wait for waits itself for the row of its person.
RequestsEnd ==
    /\ \A i \in Invitations : invitation[i].status = "checked" ~>
            invitation[i].status \in {"lost", "pending", "accepted", "revoked"}
    /\ \A a \in Acceptances :
            acceptance[a].pc = "begun" ~> acceptance[a].pc \in {"accepted", "ended"}
    /\ \A v \in Revocations :
            revocation[v].pc = "begun" ~> revocation[v].pc \in {"revoked", "ended"}

\* "Invitations cannot silently rewrite active access"
\* (tests/test_invitations.py): no step changes an active membership.
ActiveAccessKept ==
    [][\A o \in Orgs, p \in People :
            HasMember(o, p) => members'[o][p] = members[o][p]]_vars

\* The abstract grants: an invitation is open when its row is committed.
GrantOffer ==
    [i \in Invitations |->
        IF invitation[i].status \in {"pending", "accepted", "revoked"}
        THEN [org |-> invitation[i].org, email |-> invitation[i].email,
              role |-> invitation[i].role]
        ELSE None]
GrantOutcome ==
    [i \in Invitations |->
        CASE invitation[i].status = "pending" -> "open"
          [] invitation[i].status \in {"accepted", "revoked"} -> invitation[i].status
          [] OTHER -> "none"]
GrantAccess(m) ==
    [o \in Orgs |-> [p \in People |->
        IF m[o][p] # None /\ m[o][p].active THEN m[o][p].role ELSE None]]

Grants == INSTANCE AccessGrants WITH
            offer <- GrantOffer, outcome <- GrantOutcome,
            access <- GrantAccess(members),
            Initial <- {GrantAccess(m) : m \in Initial}

\* Invitations implement the grants: access changes only with the acceptance of
\* an open invitation, in its organization and to its role, and an invitation
\* that expired, was lost, accepted or revoked never changes it again.
ImplementsGrants == Grants!Spec
=============================================================================
