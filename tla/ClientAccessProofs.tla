------------------------- MODULE ClientAccessProofs -------------------------
(***************************************************************************)
(* Theorems about ClientAccess, for any sets of tenants, people,           *)
(* invitations and requests: an invitation has one outcome, only access    *)
(* that an earlier invitation gave is up for rewriting, invitations        *)
(* implement the abstract grants, outcomes are final, a person has one     *)
(* pending invitation and waits form no cycle.                             *)
(***************************************************************************)
EXTENDS ClientAccess, FiniteSetTheorems, TLAPS

InUse == {"checked", "answered", "pending", "accepted", "revoked"}

\* An invitation that was checked offers a role to somebody; a request under way is
\* for an invitation.
FieldInv ==
    /\ \A i \in Invitations : invitation[i].status \in InUse =>
            /\ invitation[i].org \in Orgs
            /\ invitation[i].email \in People
            /\ invitation[i].role \in Profiles
    /\ \A a \in Acceptances : acceptance[a].pc # "idle" =>
            acceptance[a].invitation \in Invitations
    /\ \A a \in Acceptances : acceptance[a].pc = "begun" => acceptance[a].user = None
    /\ \A v \in Revocations : revocation[v].pc # "idle" =>
            revocation[v].invitation \in Invitations

\* A request past its update holds the row, which is still pending.
LockInv ==
    /\ \A a \in Acceptances : acceptance[a].pc = "consumed" =>
            /\ rowLock[acceptance[a].invitation] = a
            /\ invitation[acceptance[a].invitation].status = "pending"
    /\ \A v \in Revocations : revocation[v].pc = "answered" =>
            /\ rowLock[revocation[v].invitation] = v
            /\ invitation[revocation[v].invitation].status = "pending"

\* The user of an acceptance under way is the one its invitation names.
UserInv ==
    \A a \in Acceptances : acceptance[a].pc = "consumed" =>
        acceptance[a].user \in {None, invitation[acceptance[a].invitation].email}

\* A request that took effect is the only one, and the row says so.
AcceptedInv ==
    /\ \A a \in Acceptances : acceptance[a].pc = "accepted" =>
            invitation[acceptance[a].invitation].status = "accepted"
    /\ \A i \in Invitations : invitation[i].status = "accepted" =>
            \E a \in Acceptances : acceptance[a].pc = "accepted" /\ acceptance[a].invitation = i
    /\ \A a, b \in Acceptances :
            /\ acceptance[a].pc = "accepted" /\ acceptance[b].pc = "accepted"
            /\ acceptance[a].invitation = acceptance[b].invitation
            => a = b

RevokedInv ==
    /\ \A v \in Revocations : revocation[v].pc = "revoked" =>
            invitation[revocation[v].invitation].status = "revoked"
    /\ \A i \in Invitations : invitation[i].status = "revoked" =>
            \E v \in Revocations : revocation[v].pc = "revoked" /\ revocation[v].invitation = i
    /\ \A v, w \in Revocations :
            /\ revocation[v].pc = "revoked" /\ revocation[w].pc = "revoked"
            /\ revocation[v].invitation = revocation[w].invitation
            => v = w

\* The inductive invariant.
IInv == /\ TypeOK
        /\ FieldInv
        /\ LockInv
        /\ UserInv
        /\ AcceptedInv
        /\ RevokedInv
        /\ StandingAccessNotInvited

-----------------------------------------------------------------------------
LEMMA InitInv == Init => IInv
<1>. SUFFICES ASSUME Init PROVE IInv
  OBVIOUS
<1>1. /\ \A i \in Invitations : invitation[i] = NoInvitation
      /\ \A a \in Acceptances : acceptance[a].pc = "idle"
      /\ \A v \in Revocations : revocation[v].pc = "idle"
  BY DEF Init, NoAcceptance
<1>2. NoInvitation \in Invitation /\ NoInvitation.status = "absent"
  BY DEF NoInvitation, Invitation, InvitationStatus
<1>3. invitation \in [Invitations -> Invitation]
  BY <1>2 DEF Init
<1>4. /\ acceptance \in [Acceptances -> Acceptance]
      /\ revocation \in [Revocations -> Revocation]
  BY DEF Init, Acceptance, NoAcceptance, Revocation
<1>5. TypeOK
  BY <1>3, <1>4, InitialMembers DEF Init, TypeOK
<1>. QED
  BY <1>1, <1>2, <1>5 DEF IInv, FieldInv, LockInv, UserInv, AcceptedInv, RevokedInv, InUse,
                          StandingAccessNotInvited

-----------------------------------------------------------------------------
\* Creation

\* A row that no request has taken takes a new status, on its way to "pending".
LEMMA RowStep ==
    ASSUME IInv, NEW i \in Invitations, NEW v \in Invitation,
           invitation' = [invitation EXCEPT ![i] = v],
           UNCHANGED <<lapsed, members, rowLock, acceptance, revocation>>,
           invitation[i].status \in {"absent", "checked", "answered"},
           v.status \in {"checked", "answered", "pending", "lost"},
           v.status # "lost" => v.org \in Orgs /\ v.email \in People /\ v.role \in Profiles,
           invitation[i].status = "absent" => ~HasMember(v.org, v.email),
           invitation[i].status # "absent" => /\ v.org = invitation[i].org
                                              /\ v.email = invitation[i].email
    PROVE  IInv'
<1>1. /\ invitation' \in [Invitations -> Invitation]
      /\ invitation'[i] = v
      /\ \A j \in Invitations \ {i} : invitation'[j] = invitation[j]
  BY DEF IInv, TypeOK
<1>2. TypeOK'
  BY <1>1 DEF IInv, TypeOK
<1>3. FieldInv'
  BY <1>1 DEF IInv, FieldInv, InUse
<1>4. LockInv'
  BY <1>1 DEF IInv, LockInv, FieldInv
<1>5. AcceptedInv'
  BY <1>1 DEF IInv, AcceptedInv, FieldInv
<1>6. RevokedInv'
  BY <1>1 DEF IInv, RevokedInv, FieldInv
<1>7. \A o, p : HasMember(o, p)' = HasMember(o, p)
  BY DEF HasMember, RoleIn
<1>8. StandingAccessNotInvited'
  <2>. SUFFICES ASSUME NEW j \in Invitations,
                       invitation'[j].status \in {"checked", "answered", "pending"},
                       HasMember(invitation'[j].org, invitation'[j].email)
                PROVE  \E k \in Invitations :
                          /\ invitation'[j].org = invitation'[k].org
                          /\ invitation'[j].email = invitation'[k].email
                          /\ invitation'[k].status = "accepted"
    BY <1>7 DEF StandingAccessNotInvited, SameKey
  <2>1. \A k \in Invitations : invitation[k].status = "accepted" => invitation'[k] = invitation[k]
    BY <1>1
  <2>2. /\ invitation[j].status \in {"checked", "answered", "pending"}
        /\ invitation'[j].org = invitation[j].org
        /\ invitation'[j].email = invitation[j].email
    BY <1>1
  <2>3. PICK k \in Invitations : SameKey(j, k) /\ invitation[k].status = "accepted"
    BY <2>2 DEF IInv, StandingAccessNotInvited
  <2>. QED
    BY <2>1, <2>2, <2>3 DEF SameKey
<1>9. UserInv'
  BY <1>1 DEF IInv, UserInv, LockInv, FieldInv
<1>. QED
  BY <1>2, <1>3, <1>4, <1>5, <1>6, <1>8, <1>9 DEF IInv

LEMMA CheckInviteeInv ==
    ASSUME IInv, NEW i \in Invitations, NEW w \in People, NEW o \in Orgs, NEW p \in People,
           NEW r \in Roles, CheckInvitee(i, w, o, p, r)
    PROVE  IInv'
<1>. DEFINE v == [status |-> "checked", org |-> o, email |-> p, role |-> r]
<1>1. /\ invitation[i].status = "absent"
      /\ r \in Profiles /\ ~HasMember(o, p)
      /\ invitation' = [invitation EXCEPT ![i] = v]
      /\ UNCHANGED <<lapsed, members, rowLock, acceptance, revocation>>
  BY DEF CheckInvitee
<1>2. v \in Invitation
  BY <1>1 DEF Invitation, InvitationStatus
<1>3. v.status = "checked" /\ v.org = o /\ v.email = p /\ v.role = r
  OBVIOUS
<1>. HIDE DEF v
<1>. QED
  BY <1>1, <1>2, <1>3, RowStep

LEMMA CreationInv ==
    ASSUME IInv, NEW i \in Invitations, Create(i) \/ CrashCreation(i)
    PROVE  IInv'
<1>1. PICK s \in {"answered", "pending", "lost"} :
          /\ invitation' = [invitation EXCEPT ![i].status = s]
          /\ invitation[i].status \in {"checked", "answered"}
          /\ UNCHANGED <<lapsed, members, rowLock, acceptance, revocation>>
  BY DEF Create, InsertInvitation, DuplicateInvitation, CommitInvitation, CrashCreation
<1>. DEFINE v == [invitation[i] EXCEPT !.status = s]
<1>2. /\ v \in Invitation /\ v.status = s /\ v.org = invitation[i].org
      /\ v.email = invitation[i].email /\ v.role = invitation[i].role
  BY DEF IInv, TypeOK, Invitation, InvitationStatus
<1>3. invitation' = [invitation EXCEPT ![i] = v]
  BY <1>1
<1>. HIDE DEF v
<1>4. v.org \in Orgs /\ v.email \in People /\ v.role \in Profiles
  BY <1>1, <1>2 DEF IInv, FieldInv, InUse
<1>. QED
  BY <1>1, <1>2, <1>3, <1>4, RowStep

-----------------------------------------------------------------------------
\* Requests that wait, take the row, are refused or crash

\* The rows and the requests that took effect stay as they are.
LEMMA RequestFrame ==
    ASSUME IInv, UNCHANGED <<invitation, members>>, TypeOK', FieldInv', LockInv', UserInv',
           \A a \in Acceptances :
              /\ acceptance[a].pc = "accepted" <=> acceptance'[a].pc = "accepted"
              /\ acceptance[a].pc = "accepted" => acceptance'[a] = acceptance[a],
           \A v \in Revocations :
              /\ revocation[v].pc = "revoked" <=> revocation'[v].pc = "revoked"
              /\ revocation[v].pc = "revoked" => revocation'[v] = revocation[v]
    PROVE  IInv'
<1>1. AcceptedInv'
  BY DEF IInv, AcceptedInv
<1>2. RevokedInv'
  BY DEF IInv, RevokedInv
<1>3. \A o, p : HasMember(o, p)' = HasMember(o, p)
  BY DEF HasMember, RoleIn
<1>4. StandingAccessNotInvited'
  BY <1>3 DEF IInv, StandingAccessNotInvited, SameKey
<1>. QED
  BY <1>1, <1>2, <1>4 DEF IInv

LEMMA AcceptStep ==
    ASSUME IInv, NEW a \in Acceptances, NEW x \in Acceptance,
           acceptance' = [acceptance EXCEPT ![a] = x],
           UNCHANGED <<invitation, lapsed, members, revocation>>,
           acceptance[a].pc # "accepted",
           x.pc \in {"begun", "consumed", "ended"},
           x.pc = "begun" => x.user = None,
           x.invitation \in Invitations,
           rowLock' \in [Invitations -> Acceptances \cup Revocations \cup {None}],
           x.pc = "consumed" => /\ rowLock'[x.invitation] = a
                                /\ invitation[x.invitation].status = "pending"
                                /\ x.user \in {None, invitation[x.invitation].email},
           \A i \in Invitations, t \in (Acceptances \cup Revocations) \ {a} :
              rowLock[i] = t => rowLock'[i] = t
    PROVE  IInv'
<1>1. /\ acceptance' \in [Acceptances -> Acceptance]
      /\ acceptance'[a] = x
      /\ \A b \in Acceptances \ {a} : acceptance'[b] = acceptance[b]
  BY DEF IInv, TypeOK
<1>2. TypeOK'
  BY <1>1 DEF IInv, TypeOK
<1>3. FieldInv'
  BY <1>1 DEF IInv, FieldInv
<1>4. LockInv'
  <2>1. ASSUME NEW b \in Acceptances, acceptance'[b].pc = "consumed"
        PROVE  /\ rowLock'[acceptance'[b].invitation] = b
               /\ invitation'[acceptance'[b].invitation].status = "pending"
    BY <1>1, <2>1 DEF IInv, LockInv, FieldInv
  <2>2. ASSUME NEW v \in Revocations, revocation[v].pc = "answered"
        PROVE  /\ rowLock'[revocation[v].invitation] = v
               /\ invitation[revocation[v].invitation].status = "pending"
    <3>1. v # a
      BY RequestsDisjoint
    <3>. QED
      BY <2>2, <3>1 DEF IInv, LockInv, FieldInv
  <2>. QED
    BY <2>1, <2>2 DEF LockInv
<1>5. UserInv'
  BY <1>1 DEF IInv, UserInv
<1>. QED
  BY <1>1, <1>2, <1>3, <1>4, <1>5, RequestFrame

LEMMA RevokeStep ==
    ASSUME IInv, NEW v \in Revocations, NEW x \in Revocation,
           revocation' = [revocation EXCEPT ![v] = x],
           UNCHANGED <<invitation, lapsed, members, acceptance>>,
           revocation[v].pc # "revoked",
           x.pc \in {"begun", "answered", "ended"},
           x.invitation \in Invitations,
           rowLock' \in [Invitations -> Acceptances \cup Revocations \cup {None}],
           x.pc = "answered" => /\ rowLock'[x.invitation] = v
                                /\ invitation[x.invitation].status = "pending",
           \A i \in Invitations, t \in (Acceptances \cup Revocations) \ {v} :
              rowLock[i] = t => rowLock'[i] = t
    PROVE  IInv'
<1>1. /\ revocation' \in [Revocations -> Revocation]
      /\ revocation'[v] = x
      /\ \A w \in Revocations \ {v} : revocation'[w] = revocation[w]
  BY DEF IInv, TypeOK
<1>2. TypeOK'
  BY <1>1 DEF IInv, TypeOK
<1>3. FieldInv'
  BY <1>1 DEF IInv, FieldInv
<1>4. LockInv'
  <2>1. ASSUME NEW w \in Revocations, revocation'[w].pc = "answered"
        PROVE  /\ rowLock'[revocation'[w].invitation] = w
               /\ invitation'[revocation'[w].invitation].status = "pending"
    BY <1>1, <2>1 DEF IInv, LockInv, FieldInv
  <2>2. ASSUME NEW a \in Acceptances, acceptance[a].pc = "consumed"
        PROVE  /\ rowLock'[acceptance[a].invitation] = a
               /\ invitation[acceptance[a].invitation].status = "pending"
    <3>1. v # a
      BY RequestsDisjoint
    <3>. QED
      BY <2>2, <3>1 DEF IInv, LockInv, FieldInv
  <2>. QED
    BY <2>1, <2>2 DEF LockInv
<1>5. UserInv'
  BY DEF IInv, UserInv
<1>. QED
  BY <1>1, <1>2, <1>3, <1>4, <1>5, RequestFrame

LEMMA UnlockedFacts ==
    ASSUME IInv, NEW t \in Acceptances \cup Revocations
    PROVE  /\ Unlocked(t) \in [Invitations -> Acceptances \cup Revocations \cup {None}]
           /\ \A i \in Invitations, s \in (Acceptances \cup Revocations) \ {t} :
                 rowLock[i] = s => Unlocked(t)[i] = s
  BY DEF IInv, TypeOK, Unlocked

LEMMA PresentInv ==
    ASSUME IInv, NEW a \in Acceptances, NEW i \in Invitations, Present(a, i)
    PROVE  IInv'
<1>. DEFINE x == [pc |-> "begun", invitation |-> i, fresh |-> ~lapsed[i], user |-> None]
<1>1. /\ acceptance[a].pc = "idle"
      /\ acceptance' = [acceptance EXCEPT ![a] = x]
      /\ UNCHANGED <<invitation, lapsed, members, rowLock, revocation>>
  BY DEF Present
<1>2. x \in Acceptance /\ x.pc = "begun" /\ x.invitation = i /\ x.user = None
  BY DEF Acceptance
<1>. HIDE DEF x
<1>3. rowLock' \in [Invitations -> Acceptances \cup Revocations \cup {None}]
  BY <1>1 DEF IInv, TypeOK
<1>. QED
  BY <1>1, <1>2, <1>3, AcceptStep

LEMMA ConsumeInv ==
    ASSUME IInv, NEW a \in Acceptances, Consume(a)
    PROVE  IInv'
<1>. DEFINE i == acceptance[a].invitation
            x == [acceptance[a] EXCEPT !.pc = "consumed"]
<1>1. /\ acceptance[a].pc = "begun"
      /\ rowLock[i] = None
      /\ invitation[i].status = "pending"
      /\ rowLock' = [rowLock EXCEPT ![i] = a]
      /\ acceptance' = [acceptance EXCEPT ![a] = x]
      /\ UNCHANGED <<invitation, lapsed, members, revocation>>
  BY DEF Consume
<1>2. x \in Acceptance /\ x.pc = "consumed" /\ x.invitation = i
      /\ x.user = acceptance[a].user
  BY DEF IInv, TypeOK, Acceptance
<1>. HIDE DEF x
<1>3. i \in Invitations /\ x.user = None
  BY <1>1, <1>2 DEF IInv, FieldInv
<1>4. /\ rowLock' \in [Invitations -> Acceptances \cup Revocations \cup {None}]
      /\ rowLock'[i] = a
      /\ \A j \in Invitations, t \in (Acceptances \cup Revocations) \ {a} :
            rowLock[j] = t => rowLock'[j] = t
  BY <1>1, <1>3, NoneAbsent DEF IInv, TypeOK
<1>. QED
  BY <1>1, <1>2, <1>3, <1>4, AcceptStep

LEMMA ResolveUserInv ==
    ASSUME IInv, NEW a \in Acceptances, ResolveUser(a)
    PROVE  IInv'
<1>. DEFINE i == acceptance[a].invitation
            p == invitation[i].email
            x == [acceptance[a] EXCEPT !.user = p]
<1>1. /\ acceptance[a].pc = "consumed"
      /\ acceptance' = [acceptance EXCEPT ![a] = x]
      /\ UNCHANGED <<invitation, lapsed, members, rowLock, revocation>>
  BY DEF ResolveUser
<1>2. /\ i \in Invitations /\ rowLock[i] = a
      /\ invitation[i].status = "pending" /\ p \in People
  BY <1>1 DEF IInv, FieldInv, LockInv, InUse
<1>3. x \in Acceptance /\ x.pc = "consumed" /\ x.invitation = i /\ x.user = p
  BY <1>1, <1>2 DEF IInv, TypeOK, Acceptance
<1>4. p \in {None, invitation[i].email}
  OBVIOUS
<1>5. rowLock' \in [Invitations -> Acceptances \cup Revocations \cup {None}]
  BY <1>1 DEF IInv, TypeOK
<1>. HIDE DEF x, i, p
<1>. QED
  BY <1>1, <1>2, <1>3, <1>4, <1>5, AcceptStep

LEMMA EndAcceptanceInv ==
    ASSUME IInv, NEW a \in Acceptances, RefuseAcceptance(a) \/ CrashAcceptance(a)
    PROVE  IInv'
<1>. DEFINE x == [acceptance[a] EXCEPT !.pc = "ended"]
<1>1. /\ acceptance[a].pc \in {"begun", "consumed"}
      /\ rowLock' \in {rowLock, Unlocked(a)}
      /\ acceptance' = [acceptance EXCEPT ![a] = x]
      /\ UNCHANGED <<invitation, lapsed, members, revocation>>
  BY DEF RefuseAcceptance, CrashAcceptance
<1>2. x \in Acceptance /\ x.pc = "ended" /\ x.invitation = acceptance[a].invitation
  BY DEF IInv, TypeOK, Acceptance
<1>. HIDE DEF x
<1>3. x.invitation \in Invitations
  BY <1>1, <1>2 DEF IInv, FieldInv
<1>4. /\ rowLock' \in [Invitations -> Acceptances \cup Revocations \cup {None}]
      /\ \A i \in Invitations, t \in (Acceptances \cup Revocations) \ {a} :
            rowLock[i] = t => rowLock'[i] = t
  BY <1>1, UnlockedFacts DEF IInv, TypeOK
<1>. QED
  BY <1>1, <1>2, <1>3, <1>4, AcceptStep

LEMMA BeginRevocationInv ==
    ASSUME IInv, NEW v \in Revocations, NEW w \in People, NEW o \in Orgs,
           NEW i \in Invitations, BeginRevocation(v, w, o, i)
    PROVE  IInv'
<1>. DEFINE x == [pc |-> "begun", invitation |-> i]
<1>1. /\ revocation[v].pc = "idle"
      /\ revocation' = [revocation EXCEPT ![v] = x]
      /\ UNCHANGED <<invitation, lapsed, members, rowLock, acceptance>>
  BY DEF BeginRevocation
<1>2. x \in Revocation /\ x.pc = "begun" /\ x.invitation = i
  BY DEF Revocation
<1>. HIDE DEF x
<1>3. rowLock' \in [Invitations -> Acceptances \cup Revocations \cup {None}]
  BY <1>1 DEF IInv, TypeOK
<1>. QED
  BY <1>1, <1>2, <1>3, RevokeStep

LEMMA RevokeInv ==
    ASSUME IInv, NEW v \in Revocations, Revoke(v)
    PROVE  IInv'
<1>. DEFINE i == revocation[v].invitation
            x == [revocation[v] EXCEPT !.pc = "answered"]
<1>1. /\ revocation[v].pc = "begun"
      /\ rowLock[i] = None
      /\ invitation[i].status = "pending"
      /\ rowLock' = [rowLock EXCEPT ![i] = v]
      /\ revocation' = [revocation EXCEPT ![v] = x]
      /\ UNCHANGED <<invitation, lapsed, members, acceptance>>
  BY DEF Revoke
<1>2. x \in Revocation /\ x.pc = "answered" /\ x.invitation = i
  BY DEF IInv, TypeOK, Revocation
<1>. HIDE DEF x
<1>3. i \in Invitations
  BY <1>1 DEF IInv, FieldInv
<1>4. /\ rowLock' \in [Invitations -> Acceptances \cup Revocations \cup {None}]
      /\ rowLock'[i] = v
      /\ \A j \in Invitations, t \in (Acceptances \cup Revocations) \ {v} :
            rowLock[j] = t => rowLock'[j] = t
  BY <1>1, <1>3, NoneAbsent DEF IInv, TypeOK
<1>. QED
  BY <1>1, <1>2, <1>3, <1>4, RevokeStep

LEMMA EndRevocationInv ==
    ASSUME IInv, NEW v \in Revocations, RefuseRevocation(v) \/ CrashRevocation(v)
    PROVE  IInv'
<1>. DEFINE x == [revocation[v] EXCEPT !.pc = "ended"]
<1>1. /\ revocation[v].pc \in {"begun", "answered"}
      /\ rowLock' \in {rowLock, Unlocked(v)}
      /\ revocation' = [revocation EXCEPT ![v] = x]
      /\ UNCHANGED <<invitation, lapsed, members, acceptance>>
  BY DEF RefuseRevocation, CrashRevocation
<1>2. x \in Revocation /\ x.pc = "ended" /\ x.invitation = revocation[v].invitation
  BY DEF IInv, TypeOK, Revocation
<1>. HIDE DEF x
<1>3. x.invitation \in Invitations
  BY <1>1, <1>2 DEF IInv, FieldInv
<1>4. /\ rowLock' \in [Invitations -> Acceptances \cup Revocations \cup {None}]
      /\ \A i \in Invitations, t \in (Acceptances \cup Revocations) \ {v} :
            rowLock[i] = t => rowLock'[i] = t
  BY <1>1, UnlockedFacts DEF IInv, TypeOK
<1>. QED
  BY <1>1, <1>2, <1>3, <1>4, RevokeStep

-----------------------------------------------------------------------------
\* Requests that take effect

LEMMA CommitRevocationFacts ==
    ASSUME IInv, NEW v \in Revocations, CommitRevocation(v)
    PROVE  \E i \in Invitations :
              /\ revocation[v].pc = "answered"
              /\ revocation[v].invitation = i
              /\ invitation[i].status = "pending"
              /\ invitation' \in [Invitations -> Invitation]
              /\ invitation'[i].status = "revoked"
              /\ invitation'[i].org = invitation[i].org
              /\ invitation'[i].email = invitation[i].email
              /\ invitation'[i].role = invitation[i].role
              /\ \A j \in Invitations \ {i} : invitation'[j] = invitation[j]
              /\ revocation' \in [Revocations -> Revocation]
              /\ revocation'[v].pc = "revoked" /\ revocation'[v].invitation = i
              /\ \A w \in Revocations \ {v} : revocation'[w] = revocation[w]
              /\ UNCHANGED <<lapsed, members, acceptance>>
<1>. DEFINE i == revocation[v].invitation
<1>1. /\ revocation[v].pc = "answered"
      /\ invitation' = [invitation EXCEPT ![i].status = "revoked"]
      /\ revocation' = [revocation EXCEPT ![v].pc = "revoked"]
      /\ UNCHANGED <<lapsed, members, acceptance>>
  BY DEF CommitRevocation
<1>2. i \in Invitations /\ invitation[i].status = "pending"
  BY <1>1 DEF IInv, LockInv, FieldInv
<1>3. /\ invitation' \in [Invitations -> Invitation]
      /\ invitation'[i].status = "revoked"
      /\ invitation'[i].org = invitation[i].org
      /\ invitation'[i].email = invitation[i].email
      /\ invitation'[i].role = invitation[i].role
      /\ \A j \in Invitations \ {i} : invitation'[j] = invitation[j]
  BY <1>1, <1>2 DEF IInv, TypeOK, Invitation, InvitationStatus
<1>4. /\ revocation' \in [Revocations -> Revocation]
      /\ revocation'[v].pc = "revoked" /\ revocation'[v].invitation = i
      /\ \A w \in Revocations \ {v} : revocation'[w] = revocation[w]
  BY <1>1 DEF IInv, TypeOK, Revocation
<1>. QED
  BY <1>1, <1>2, <1>3, <1>4

LEMMA CommitRevocationInv ==
    ASSUME IInv, NEW v \in Revocations, CommitRevocation(v)
    PROVE  IInv'
<1>1. PICK i \in Invitations :
          /\ revocation[v].pc = "answered"
          /\ revocation[v].invitation = i
          /\ invitation[i].status = "pending"
          /\ invitation' \in [Invitations -> Invitation]
          /\ invitation'[i].status = "revoked"
          /\ invitation'[i].org = invitation[i].org
          /\ invitation'[i].email = invitation[i].email
          /\ invitation'[i].role = invitation[i].role
          /\ \A j \in Invitations \ {i} : invitation'[j] = invitation[j]
          /\ revocation' \in [Revocations -> Revocation]
          /\ revocation'[v].pc = "revoked" /\ revocation'[v].invitation = i
          /\ \A w \in Revocations \ {v} : revocation'[w] = revocation[w]
          /\ UNCHANGED <<lapsed, members, acceptance>>
  BY CommitRevocationFacts
<1>2. rowLock' = Unlocked(v)
  BY DEF CommitRevocation
<1>3. TypeOK'
  BY <1>1, <1>2, UnlockedFacts DEF IInv, TypeOK
<1>4. FieldInv'
  BY <1>1 DEF IInv, FieldInv, InUse
<1>5. LockInv'
  <2>1. rowLock[i] = v
    BY <1>1 DEF IInv, LockInv
  <2>2. ASSUME NEW a \in Acceptances, acceptance'[a].pc = "consumed"
        PROVE  /\ rowLock'[acceptance'[a].invitation] = a
               /\ invitation'[acceptance'[a].invitation].status = "pending"
    <3>1. /\ acceptance[a].invitation \in Invitations
          /\ rowLock[acceptance[a].invitation] = a
          /\ invitation[acceptance[a].invitation].status = "pending"
      BY <1>1, <2>2 DEF IInv, LockInv, FieldInv
    <3>2. a # v
      BY RequestsDisjoint
    <3>3. acceptance[a].invitation # i
      BY <2>1, <3>1, <3>2
    <3>. QED
      BY <1>1, <1>2, <3>1, <3>2, <3>3, UnlockedFacts
  <2>3. ASSUME NEW w \in Revocations, revocation'[w].pc = "answered"
        PROVE  /\ rowLock'[revocation'[w].invitation] = w
               /\ invitation'[revocation'[w].invitation].status = "pending"
    <3>1. w # v /\ revocation'[w] = revocation[w]
      BY <1>1, <2>3
    <3>2. /\ revocation[w].invitation \in Invitations
          /\ rowLock[revocation[w].invitation] = w
          /\ invitation[revocation[w].invitation].status = "pending"
      BY <2>3, <3>1 DEF IInv, LockInv, FieldInv
    <3>3. revocation[w].invitation # i
      BY <2>1, <3>1, <3>2
    <3>. QED
      BY <1>1, <1>2, <3>1, <3>2, <3>3, UnlockedFacts
  <2>. QED
    BY <2>2, <2>3 DEF LockInv
<1>6. AcceptedInv'
  BY <1>1 DEF IInv, AcceptedInv, FieldInv
<1>7. RevokedInv'
  BY <1>1 DEF IInv, RevokedInv, FieldInv
<1>8. \A o, p : HasMember(o, p)' = HasMember(o, p)
  BY <1>1 DEF HasMember, RoleIn
<1>9. StandingAccessNotInvited'
  <2>. SUFFICES ASSUME NEW j \in Invitations,
                       invitation'[j].status \in {"checked", "answered", "pending"},
                       HasMember(invitation'[j].org, invitation'[j].email)
                PROVE  \E k \in Invitations :
                          /\ invitation'[j].org = invitation'[k].org
                          /\ invitation'[j].email = invitation'[k].email
                          /\ invitation'[k].status = "accepted"
    BY <1>8 DEF StandingAccessNotInvited, SameKey
  <2>1. invitation'[j] = invitation[j]
    BY <1>1
  <2>2. PICK k \in Invitations : SameKey(j, k) /\ invitation[k].status = "accepted"
    BY <2>1 DEF IInv, StandingAccessNotInvited
  <2>. QED
    BY <1>1, <2>1, <2>2 DEF SameKey
<1>10. UserInv'
  BY <1>1 DEF IInv, UserInv, FieldInv
<1>. QED
  BY <1>3, <1>4, <1>5, <1>6, <1>7, <1>9, <1>10 DEF IInv

LEMMA CommitAcceptanceFacts ==
    ASSUME IInv, NEW a \in Acceptances, CommitAcceptance(a)
    PROVE  \E i \in Invitations, o \in Orgs, p \in People, m \in Membership :
              /\ acceptance[a].pc = "consumed"
              /\ acceptance[a].invitation = i
              /\ invitation[i].status = "pending"
              /\ invitation[i].org = o /\ invitation[i].email = p
              /\ m.role = invitation[i].role /\ m.active = TRUE
              /\ invitation' \in [Invitations -> Invitation]
              /\ invitation'[i].status = "accepted"
              /\ invitation'[i].org = o /\ invitation'[i].email = p
              /\ invitation'[i].role = invitation[i].role
              /\ \A j \in Invitations \ {i} : invitation'[j] = invitation[j]
              /\ members' = [members EXCEPT ![o][p] = m]
              /\ acceptance' \in [Acceptances -> Acceptance]
              /\ acceptance'[a].pc = "accepted" /\ acceptance'[a].invitation = i
              /\ \A b \in Acceptances \ {a} : acceptance'[b] = acceptance[b]
              /\ UNCHANGED <<lapsed, revocation>>
<1>. DEFINE i == acceptance[a].invitation
<1>1. /\ acceptance[a].pc = "consumed"
      /\ invitation' = [invitation EXCEPT ![i].status = "accepted"]
      /\ members' = [members EXCEPT ![invitation[i].org][invitation[i].email] = Upserted(i)]
      /\ acceptance' = [acceptance EXCEPT ![a].pc = "accepted"]
      /\ UNCHANGED <<lapsed, revocation>>
  BY DEF CommitAcceptance, IInv, UserInv
<1>2. i \in Invitations /\ invitation[i].status = "pending"
  BY <1>1 DEF IInv, LockInv, FieldInv
<1>3. /\ invitation[i].org \in Orgs /\ invitation[i].email \in People
      /\ invitation[i].role \in Roles
  BY <1>2, RolesNested DEF IInv, FieldInv, InUse
<1>4. /\ Upserted(i) \in Membership
      /\ Upserted(i).role = invitation[i].role /\ Upserted(i).active = TRUE
  BY <1>3 DEF Upserted, Membership
<1>5. /\ invitation' \in [Invitations -> Invitation]
      /\ invitation'[i].status = "accepted"
      /\ invitation'[i].org = invitation[i].org
      /\ invitation'[i].email = invitation[i].email
      /\ invitation'[i].role = invitation[i].role
      /\ \A j \in Invitations \ {i} : invitation'[j] = invitation[j]
  BY <1>1, <1>2 DEF IInv, TypeOK, Invitation, InvitationStatus
<1>6. /\ acceptance' \in [Acceptances -> Acceptance]
      /\ acceptance'[a].pc = "accepted" /\ acceptance'[a].invitation = i
      /\ \A b \in Acceptances \ {a} : acceptance'[b] = acceptance[b]
  BY <1>1 DEF IInv, TypeOK, Acceptance
<1>. QED
  BY <1>1, <1>2, <1>3, <1>4, <1>5, <1>6

LEMMA CommitAcceptanceInv ==
    ASSUME IInv, NEW a \in Acceptances, CommitAcceptance(a)
    PROVE  IInv'
<1>1. PICK i \in Invitations, o \in Orgs, p \in People, m \in Membership :
          /\ acceptance[a].pc = "consumed"
          /\ acceptance[a].invitation = i
          /\ invitation[i].status = "pending"
          /\ invitation[i].org = o /\ invitation[i].email = p
          /\ m.role = invitation[i].role /\ m.active = TRUE
          /\ invitation' \in [Invitations -> Invitation]
          /\ invitation'[i].status = "accepted"
          /\ invitation'[i].org = o /\ invitation'[i].email = p
          /\ invitation'[i].role = invitation[i].role
          /\ \A j \in Invitations \ {i} : invitation'[j] = invitation[j]
          /\ members' = [members EXCEPT ![o][p] = m]
          /\ acceptance' \in [Acceptances -> Acceptance]
          /\ acceptance'[a].pc = "accepted" /\ acceptance'[a].invitation = i
          /\ \A b \in Acceptances \ {a} : acceptance'[b] = acceptance[b]
          /\ UNCHANGED <<lapsed, revocation>>
  BY CommitAcceptanceFacts
<1>2. rowLock' = Unlocked(a)
  BY DEF CommitAcceptance
<1>3. members' \in [Orgs -> [People -> Membership \cup {None}]]
  BY <1>1 DEF IInv, TypeOK
<1>4. TypeOK'
  BY <1>1, <1>2, <1>3, UnlockedFacts DEF IInv, TypeOK
<1>5. FieldInv'
  BY <1>1 DEF IInv, FieldInv, InUse
<1>6. LockInv'
  <2>1. rowLock[i] = a
    BY <1>1 DEF IInv, LockInv
  <2>2. ASSUME NEW v \in Revocations, revocation'[v].pc = "answered"
        PROVE  /\ rowLock'[revocation'[v].invitation] = v
               /\ invitation'[revocation'[v].invitation].status = "pending"
    <3>1. /\ revocation[v].invitation \in Invitations
          /\ rowLock[revocation[v].invitation] = v
          /\ invitation[revocation[v].invitation].status = "pending"
      BY <1>1, <2>2 DEF IInv, LockInv, FieldInv
    <3>2. a # v
      BY RequestsDisjoint
    <3>3. revocation[v].invitation # i
      BY <2>1, <3>1, <3>2
    <3>. QED
      BY <1>1, <1>2, <3>1, <3>2, <3>3, UnlockedFacts
  <2>3. ASSUME NEW b \in Acceptances, acceptance'[b].pc = "consumed"
        PROVE  /\ rowLock'[acceptance'[b].invitation] = b
               /\ invitation'[acceptance'[b].invitation].status = "pending"
    <3>1. b # a /\ acceptance'[b] = acceptance[b]
      BY <1>1, <2>3
    <3>2. /\ acceptance[b].invitation \in Invitations
          /\ rowLock[acceptance[b].invitation] = b
          /\ invitation[acceptance[b].invitation].status = "pending"
      BY <2>3, <3>1 DEF IInv, LockInv, FieldInv
    <3>3. acceptance[b].invitation # i
      BY <2>1, <3>1, <3>2
    <3>. QED
      BY <1>1, <1>2, <3>1, <3>2, <3>3, UnlockedFacts
  <2>. QED
    BY <2>2, <2>3 DEF LockInv
<1>7. AcceptedInv'
  BY <1>1 DEF IInv, AcceptedInv, FieldInv
<1>8. RevokedInv'
  BY <1>1 DEF IInv, RevokedInv, FieldInv
<1>9. StandingAccessNotInvited'
  <2>. SUFFICES ASSUME NEW j \in Invitations, NEW x, NEW y,
                       invitation'[j].status \in {"checked", "answered", "pending"},
                       x = invitation'[j].org, y = invitation'[j].email,
                       HasMember(x, y)'
                PROVE  \E k \in Invitations : /\ x = invitation'[k].org
                                              /\ y = invitation'[k].email
                                              /\ invitation'[k].status = "accepted"
    BY DEF StandingAccessNotInvited, SameKey
  <2>1. j # i /\ invitation'[j] = invitation[j]
    BY <1>1
  <2>2. x \in Orgs /\ y \in People
    BY <2>1 DEF IInv, FieldInv, InUse
  <2>3. CASE x = o /\ y = p
    BY <1>1, <2>3
  <2>4. CASE ~(x = o /\ y = p)
    <3>1. members'[x][y] = members[x][y]
      BY <1>1, <2>2, <2>4 DEF IInv, TypeOK
    <3>2. HasMember(x, y)
      BY <3>1 DEF HasMember, RoleIn
    <3>3. PICK k \in Invitations : SameKey(j, k) /\ invitation[k].status = "accepted"
      BY <2>1, <3>2 DEF IInv, StandingAccessNotInvited
    <3>. QED
      BY <1>1, <2>1, <3>3 DEF SameKey
  <2>. QED
    BY <2>3, <2>4
<1>10. UserInv'
  BY <1>1 DEF IInv, UserInv, FieldInv
<1>. QED
  BY <1>4, <1>5, <1>6, <1>7, <1>8, <1>9, <1>10 DEF IInv

LEMMA IdleInv ==
    ASSUME IInv, lapsed' \in [Invitations -> BOOLEAN],
           UNCHANGED <<invitation, members, rowLock, acceptance, revocation>>
    PROVE  IInv'
<1>1. TypeOK' /\ FieldInv' /\ LockInv' /\ UserInv'
  BY DEF IInv, TypeOK, FieldInv, LockInv, UserInv
<1>. QED
  BY <1>1, RequestFrame

-----------------------------------------------------------------------------
LEMMA NextInv == IInv /\ [Next]_vars => IInv'
<1>. SUFFICES ASSUME IInv, [Next]_vars PROVE IInv'
  OBVIOUS
<1>1. CASE UNCHANGED vars
  BY <1>1, IdleInv DEF vars, IInv, TypeOK
<1>2. ASSUME NEW i \in Invitations, NEW w \in People, NEW p \in People, NEW o \in Orgs,
             NEW r \in Roles, CheckInvitee(i, w, o, p, r)
      PROVE  IInv'
  BY <1>2, CheckInviteeInv
<1>3. ASSUME NEW i \in Invitations, Create(i) \/ CrashCreation(i)
      PROVE  IInv'
  BY <1>3, CreationInv
<1>4. ASSUME NEW i \in Invitations, Expire(i)
      PROVE  IInv'
  <2>1. lapsed' \in [Invitations -> BOOLEAN]
    BY <1>4 DEF Expire, IInv, TypeOK
  <2>. QED
    BY <1>4, <2>1, IdleInv DEF Expire
<1>5. ASSUME NEW a \in Acceptances, NEW i \in Invitations, Present(a, i)
      PROVE  IInv'
  BY <1>5, PresentInv
<1>6. ASSUME NEW a \in Acceptances, Accept(a) \/ CrashAcceptance(a)
      PROVE  IInv'
  BY <1>6, ConsumeInv, ResolveUserInv, EndAcceptanceInv, CommitAcceptanceInv DEF Accept
<1>7. ASSUME NEW v \in Revocations, NEW w \in People, NEW o \in Orgs,
             NEW i \in Invitations, BeginRevocation(v, w, o, i)
      PROVE  IInv'
  BY <1>7, BeginRevocationInv
<1>8. ASSUME NEW v \in Revocations, Withdraw(v) \/ CrashRevocation(v)
      PROVE  IInv'
  BY <1>8, RevokeInv, EndRevocationInv, CommitRevocationInv DEF Withdraw
<1>. QED
  BY <1>1, <1>2, <1>3, <1>4, <1>5, <1>6, <1>7, <1>8 DEF Next

\* In every reachable state the inductive invariant holds.
THEOREM Inductive == Spec => []IInv
<1>. QED
  BY InitInv, NextInv, PTL DEF Spec

\* Every variable keeps its type.
THEOREM TypeCorrect == Spec => []TypeOK
<1>1. IInv => TypeOK
  BY DEF IInv
<1>. QED
  BY <1>1, Inductive, PTL

\* A token that is presented and revoked any number of times takes effect at most once.
THEOREM OneOutcomeAlways == Spec => []OneOutcome
<1>1. IInv => OneOutcome
  <2>. SUFFICES ASSUME IInv, NEW i \in Invitations
                PROVE  LET accepted == {a \in Acceptances : acceptance[a].invitation = i
                                                         /\ acceptance[a].pc = "accepted"}
                           revoked == {v \in Revocations : revocation[v].invitation = i
                                                        /\ revocation[v].pc = "revoked"}
                       IN  /\ Cardinality(accepted) + Cardinality(revoked) <= 1
                           /\ invitation[i].status = "accepted" <=> accepted # {}
                           /\ invitation[i].status = "revoked" <=> revoked # {}
    BY DEF OneOutcome
  <2>. DEFINE accepted == {a \in Acceptances : acceptance[a].invitation = i
                                            /\ acceptance[a].pc = "accepted"}
              revoked == {v \in Revocations : revocation[v].invitation = i
                                           /\ revocation[v].pc = "revoked"}
  <2>1. invitation[i].status = "accepted" <=> accepted # {}
    BY DEF IInv, AcceptedInv
  <2>2. invitation[i].status = "revoked" <=> revoked # {}
    BY DEF IInv, RevokedInv
  <2>3. accepted = {} \/ \E a : accepted = {a}
    <3>1. \A a, b \in accepted : a = b
      BY DEF IInv, AcceptedInv
    <3>. HIDE DEF accepted
    <3>2. ASSUME NEW a \in accepted
          PROVE  accepted = {a}
      BY <3>1
    <3>. QED
      BY <3>2
  <2>4. revoked = {} \/ \E v : revoked = {v}
    <3>1. \A v, w \in revoked : v = w
      BY DEF IInv, RevokedInv
    <3>. HIDE DEF revoked
    <3>2. ASSUME NEW v \in revoked
          PROVE  revoked = {v}
      BY <3>1
    <3>. QED
      BY <3>2
  <2>5. Cardinality(accepted) \in {0, 1} /\ (accepted = {} => Cardinality(accepted) = 0)
    BY <2>3, FS_EmptySet, FS_Singleton
  <2>6. Cardinality(revoked) \in {0, 1} /\ (revoked = {} => Cardinality(revoked) = 0)
    BY <2>4, FS_EmptySet, FS_Singleton
  <2>7. accepted = {} \/ revoked = {}
    BY <2>1, <2>2
  <2>. HIDE DEF accepted, revoked
  <2>8. Cardinality(accepted) + Cardinality(revoked) <= 1
    BY <2>5, <2>6, <2>7
  <2>. QED
    BY <2>1, <2>2, <2>8 DEF accepted, revoked
<1>. QED
  BY <1>1, Inductive, PTL

\* Only access that an earlier invitation gave is up for rewriting.
THEOREM StandingAccessSafe == Spec => []StandingAccessNotInvited
<1>1. IInv => StandingAccessNotInvited
  BY DEF IInv
<1>. QED
  BY <1>1, Inductive, PTL

-----------------------------------------------------------------------------
\* Refinement

LEMMA GrantsInit == Init => Grants!Init
<1>. SUFFICES ASSUME Init PROVE Grants!Init
  OBVIOUS
<1>1. \A i \in Invitations : invitation[i].status = "absent"
  BY DEF Init, NoInvitation
<1>2. GrantOffer = [i \in Invitations |-> None]
  BY <1>1 DEF GrantOffer
<1>3. GrantOutcome = [i \in Invitations |-> "none"]
  BY <1>1 DEF GrantOutcome
<1>. QED
  BY <1>2, <1>3 DEF Init, Grants!Init

\* A step that takes no row to or from a committed status is a stutter.
LEMMA GrantsStutter ==
    ASSUME members' = members,
           \A i \in Invitations :
              /\ invitation[i].status \in {"pending", "accepted", "revoked"} =>
                    invitation'[i] = invitation[i]
              /\ invitation'[i].status \in {"pending", "accepted", "revoked"} =>
                    invitation'[i] = invitation[i]
    PROVE  UNCHANGED Grants!grantVars
<1>1. GrantOffer' = GrantOffer
  BY DEF GrantOffer
<1>2. GrantOutcome' = GrantOutcome
  BY DEF GrantOutcome
<1>3. GrantAccess(members)' = GrantAccess(members)
  BY DEF GrantAccess
<1>. QED
  BY <1>1, <1>2, <1>3 DEF Grants!grantVars

LEMMA GrantsInvite ==
    ASSUME IInv, NEW i \in Invitations, CommitInvitation(i)
    PROVE  Grants!Next
<1>1. /\ invitation[i].status = "answered"
      /\ invitation' = [invitation EXCEPT ![i].status = "pending"]
      /\ members' = members
  BY DEF CommitInvitation
<1>2. /\ invitation'[i].status = "pending"
      /\ invitation'[i].org = invitation[i].org
      /\ invitation'[i].email = invitation[i].email
      /\ invitation'[i].role = invitation[i].role
      /\ \A j \in Invitations \ {i} : invitation'[j] = invitation[j]
  BY <1>1 DEF IInv, TypeOK, Invitation
<1>. DEFINE o == [org |-> invitation[i].org, email |-> invitation[i].email,
                  role |-> invitation[i].role]
<1>3. o \in Grants!Offer
  BY <1>1 DEF Grants!Offer, IInv, FieldInv, InUse
<1>4. GrantOutcome[i] = "none"
  BY <1>1 DEF GrantOutcome
<1>5. GrantOffer' = [GrantOffer EXCEPT ![i] = o]
  BY <1>1, <1>2 DEF GrantOffer
<1>6. GrantOutcome' = [GrantOutcome EXCEPT ![i] = "open"]
  BY <1>1, <1>2 DEF GrantOutcome
<1>7. GrantAccess(members)' = GrantAccess(members)
  BY <1>1 DEF GrantAccess
<1>. HIDE DEF o
<1>8. Grants!Invite(i, o)
  BY <1>4, <1>5, <1>6, <1>7 DEF Grants!Invite
<1>. QED
  BY <1>3, <1>8 DEF Grants!Next

LEMMA GrantsRevoke ==
    ASSUME IInv, NEW v \in Revocations, CommitRevocation(v)
    PROVE  Grants!Next
<1>1. PICK i \in Invitations :
          /\ invitation[i].status = "pending"
          /\ invitation'[i].status = "revoked"
          /\ invitation'[i].org = invitation[i].org
          /\ invitation'[i].email = invitation[i].email
          /\ invitation'[i].role = invitation[i].role
          /\ \A j \in Invitations \ {i} : invitation'[j] = invitation[j]
          /\ members' = members
  BY CommitRevocationFacts
<1>2. GrantOutcome[i] = "open"
  BY <1>1 DEF GrantOutcome
<1>3. GrantOffer' = GrantOffer
  BY <1>1 DEF GrantOffer
<1>4. GrantOutcome' = [GrantOutcome EXCEPT ![i] = "revoked"]
  BY <1>1 DEF GrantOutcome
<1>5. GrantAccess(members)' = GrantAccess(members)
  BY <1>1 DEF GrantAccess
<1>6. Grants!Revoke(i)
  BY <1>2, <1>3, <1>4, <1>5 DEF Grants!Revoke
<1>. QED
  BY <1>6 DEF Grants!Next

LEMMA GrantsAccept ==
    ASSUME IInv, NEW a \in Acceptances, CommitAcceptance(a)
    PROVE  Grants!Next
<1>1. PICK i \in Invitations, o \in Orgs, p \in People, m \in Membership :
          /\ acceptance[a].pc = "consumed"
          /\ acceptance[a].invitation = i
          /\ invitation[i].status = "pending"
          /\ invitation[i].org = o /\ invitation[i].email = p
          /\ m.role = invitation[i].role /\ m.active = TRUE
          /\ invitation' \in [Invitations -> Invitation]
          /\ invitation'[i].status = "accepted"
          /\ invitation'[i].org = o /\ invitation'[i].email = p
          /\ invitation'[i].role = invitation[i].role
          /\ \A j \in Invitations \ {i} : invitation'[j] = invitation[j]
          /\ members' = [members EXCEPT ![o][p] = m]
          /\ acceptance' \in [Acceptances -> Acceptance]
          /\ acceptance'[a].pc = "accepted" /\ acceptance'[a].invitation = i
          /\ \A b \in Acceptances \ {a} : acceptance'[b] = acceptance[b]
          /\ UNCHANGED <<lapsed, revocation>>
  BY CommitAcceptanceFacts
<1>2. GrantOutcome[i] = "open"
  BY <1>1 DEF GrantOutcome
<1>3. GrantOffer' = GrantOffer
  BY <1>1 DEF GrantOffer
<1>4. GrantOutcome' = [GrantOutcome EXCEPT ![i] = "accepted"]
  BY <1>1 DEF GrantOutcome
<1>5. /\ GrantOffer[i].org = o
      /\ GrantOffer[i].email = p
      /\ GrantOffer[i].role = m.role
  BY <1>1 DEF GrantOffer
<1>6. /\ members'[o][p] = m
      /\ \A x \in Orgs, y \in People : ~(x = o /\ y = p) => members'[x][y] = members[x][y]
  BY <1>1 DEF IInv, TypeOK
<1>7. GrantAccess(members)' = [GrantAccess(members) EXCEPT ![o][p] = m.role]
  <2>1. m # None
    BY NoneAbsent
  <2>. DEFINE role(x) == IF x # None /\ x.active THEN x.role ELSE None
  <2>2. role(m) = m.role
    BY <1>1, <2>1
  <2>3. /\ GrantAccess(members) = [x \in Orgs |-> [y \in People |-> role(members[x][y])]]
        /\ GrantAccess(members)' = [x \in Orgs |-> [y \in People |-> role(members'[x][y])]]
    BY DEF GrantAccess
  <2>. HIDE DEF role
  <2>4. [GrantAccess(members) EXCEPT ![o][p] = m.role]
           = [x \in Orgs |-> [y \in People |->
                IF x = o /\ y = p THEN m.role ELSE role(members[x][y])]]
    BY <2>3
  <2>5. \A x \in Orgs, y \in People :
            role(members'[x][y]) = IF x = o /\ y = p THEN m.role ELSE role(members[x][y])
    BY <1>6, <2>2
  <2>. QED
    BY <2>3, <2>4, <2>5
<1>8. Grants!Accept(i)
  BY <1>2, <1>3, <1>4, <1>5, <1>7 DEF Grants!Accept
<1>. QED
  BY <1>8 DEF Grants!Next

LEMMA GrantsNext == IInv /\ [Next]_vars => [Grants!Next]_Grants!grantVars
<1>. SUFFICES ASSUME IInv, [Next]_vars
              PROVE  Grants!Next \/ UNCHANGED Grants!grantVars
  OBVIOUS
<1>1. CASE UNCHANGED <<invitation, members>>
  BY <1>1, GrantsStutter
<1>2. ASSUME NEW i \in Invitations,
             \/ \E w, p \in People, o \in Orgs, r \in Roles : CheckInvitee(i, w, o, p, r)
             \/ InsertInvitation(i) \/ DuplicateInvitation(i) \/ CrashCreation(i)
      PROVE  UNCHANGED Grants!grantVars
  <2>1. PICK x :
            /\ invitation' = [invitation EXCEPT ![i] = x]
            /\ x.status \in {"checked", "answered", "lost"}
            /\ invitation[i].status \in {"absent", "checked", "answered"}
            /\ members' = members
    <3>1. CASE \E w, p \in People, o \in Orgs, r \in Roles : CheckInvitee(i, w, o, p, r)
      BY <3>1 DEF CheckInvitee
    <3>2. ASSUME NEW s \in {"answered", "lost"}, invitation' = [invitation EXCEPT ![i].status = s]
          PROVE  \E x : invitation' = [invitation EXCEPT ![i] = x] /\ x.status = s
      <4>. DEFINE x == [invitation[i] EXCEPT !.status = s]
      <4>1. x.status = s
        BY DEF IInv, TypeOK, Invitation
      <4>2. invitation' = [invitation EXCEPT ![i] = x]
        BY <3>2
      <4>. QED
        BY <4>1, <4>2
    <3>3. CASE InsertInvitation(i) \/ DuplicateInvitation(i) \/ CrashCreation(i)
      <4>1. PICK s \in {"answered", "lost"} : invitation' = [invitation EXCEPT ![i].status = s]
        BY <3>3 DEF InsertInvitation, DuplicateInvitation, CrashCreation
      <4>2. invitation[i].status \in {"checked", "answered"} /\ members' = members
        BY <3>3 DEF InsertInvitation, DuplicateInvitation, CrashCreation
      <4>. QED
        BY <3>2, <4>1, <4>2
    <3>. QED
      BY <1>2, <3>1, <3>3
  <2>2. /\ invitation'[i] = x
        /\ \A j \in Invitations \ {i} : invitation'[j] = invitation[j]
    BY <2>1 DEF IInv, TypeOK
  <2>. QED
    BY <2>1, <2>2, GrantsStutter
<1>3. ASSUME NEW i \in Invitations, CommitInvitation(i)
      PROVE  Grants!Next
  BY <1>3, GrantsInvite
<1>4. ASSUME NEW i \in Invitations, Expire(i)
      PROVE  UNCHANGED <<invitation, members>>
  BY <1>4 DEF Expire
<1>5. ASSUME NEW a \in Acceptances,
             (\E i \in Invitations : Present(a, i)) \/ Consume(a) \/ RefuseAcceptance(a)
             \/ ResolveUser(a) \/ CrashAcceptance(a)
      PROVE  UNCHANGED <<invitation, members>>
  BY <1>5 DEF Present, Consume, RefuseAcceptance, ResolveUser, CrashAcceptance
<1>6. ASSUME NEW a \in Acceptances, CommitAcceptance(a)
      PROVE  Grants!Next
  BY <1>6, GrantsAccept
<1>7. ASSUME NEW v \in Revocations,
             \/ \E w \in People, o \in Orgs, i \in Invitations : BeginRevocation(v, w, o, i)
             \/ Revoke(v) \/ RefuseRevocation(v) \/ CrashRevocation(v)
      PROVE  UNCHANGED <<invitation, members>>
  BY <1>7 DEF BeginRevocation, Revoke, RefuseRevocation, CrashRevocation
<1>8. ASSUME NEW v \in Revocations, CommitRevocation(v)
      PROVE  Grants!Next
  BY <1>8, GrantsRevoke
<1>9. CASE UNCHANGED vars
  BY <1>1, <1>9 DEF vars
<1>. QED
  BY <1>1, <1>2, <1>3, <1>4, <1>5, <1>6, <1>7, <1>8, <1>9
     DEF Next, Create, Accept, Withdraw

\* Access changes only in the step that accepts an open invitation, as it offered.
THEOREM Implements == Spec => ImplementsGrants
  BY GrantsInit, GrantsNext, Inductive, PTL DEF Spec, ImplementsGrants, Grants!Spec

-----------------------------------------------------------------------------
\* What the grants promise of every step

\* Access that appears, goes or changes is given by an invitation that is accepted in
\* that step: in its organization, to its person, in its role.
AccessByAcceptance ==
    [][\A o \in Orgs, p \in People :
            GrantAccess(members)'[o][p] # GrantAccess(members)[o][p] =>
                \E i \in Invitations :
                    /\ GrantOutcome[i] = "open" /\ GrantOutcome'[i] = "accepted"
                    /\ GrantOffer[i].org = o /\ GrantOffer[i].email = p
                    /\ GrantAccess(members)'[o][p] = GrantOffer[i].role]_vars

\* What was accepted or revoked stays so, and what it offered stays what it was.
OutcomesFinal ==
    [][\A i \in Invitations : GrantOutcome[i] \in {"accepted", "revoked"} =>
            GrantOutcome'[i] = GrantOutcome[i] /\ GrantOffer'[i] = GrantOffer[i]]_vars

LEMMA GrantDomains ==
    /\ DOMAIN GrantOffer = Invitations /\ DOMAIN GrantOutcome = Invitations
    /\ DOMAIN GrantAccess(members) = Orgs
    /\ \A o \in Orgs : DOMAIN GrantAccess(members)[o] = People
  BY DEF GrantOffer, GrantOutcome, GrantAccess

\* No request, however it overlaps with others, waits or crashes, changes anybody's access
\* but the acceptance that consumes an open invitation.
THEOREM AccessOnlyByAcceptance == Spec => AccessByAcceptance
<1>. DEFINE Given(o, p) ==
              \E i \in Invitations :
                  /\ GrantOutcome[i] = "open" /\ GrantOutcome'[i] = "accepted"
                  /\ GrantOffer[i].org = o /\ GrantOffer[i].email = p
                  /\ GrantAccess(members)'[o][p] = GrantOffer[i].role
<1>1. ASSUME [Grants!Next]_(Grants!grantVars), NEW o \in Orgs, NEW p \in People,
             GrantAccess(members)'[o][p] # GrantAccess(members)[o][p]
      PROVE  Given(o, p)
  <2>1. PICK i \in Invitations : Grants!Accept(i)
    BY <1>1 DEF Grants!Next, Grants!Invite, Grants!Revoke, Grants!grantVars
  <2>2. /\ GrantOutcome[i] = "open"
        /\ GrantOutcome' = [GrantOutcome EXCEPT ![i] = "accepted"]
        /\ GrantAccess(members)' =
              [GrantAccess(members) EXCEPT ![GrantOffer[i].org][GrantOffer[i].email] =
                    GrantOffer[i].role]
    BY <2>1 DEF Grants!Accept
  <2>3. GrantOutcome'[i] = "accepted"
    BY <2>2, GrantDomains
  <2>4. GrantOffer[i].org = o /\ GrantOffer[i].email = p
    BY <1>1, <2>2, GrantDomains
  <2>5. GrantAccess(members)'[o][p] = GrantOffer[i].role
    BY <2>2, <2>4, GrantDomains
  <2>. QED
    BY <2>2, <2>3, <2>4, <2>5
<1>2. IInv /\ [Next]_vars =>
        [\A o \in Orgs, p \in People :
            GrantAccess(members)'[o][p] # GrantAccess(members)[o][p] => Given(o, p)]_vars
  BY <1>1, GrantsNext
<1>. QED
  BY <1>2, Inductive, PTL DEF Spec, AccessByAcceptance

\* An outcome is final: no late request, retry or crash reopens an invitation.
THEOREM OutcomesAreFinal == Spec => OutcomesFinal
<1>1. ASSUME [Grants!Next]_(Grants!grantVars), NEW i \in Invitations,
             GrantOutcome[i] \in {"accepted", "revoked"}
      PROVE  GrantOutcome'[i] = GrantOutcome[i] /\ GrantOffer'[i] = GrantOffer[i]
  <2>1. CASE UNCHANGED Grants!grantVars
    BY <2>1 DEF Grants!grantVars
  <2>2. ASSUME NEW j \in Invitations, NEW o, Grants!Invite(j, o)
        PROVE  GrantOutcome'[i] = GrantOutcome[i] /\ GrantOffer'[i] = GrantOffer[i]
    <3>1. i # j
      BY <1>1, <2>2 DEF Grants!Invite
    <3>. QED
      BY <2>2, <3>1, GrantDomains DEF Grants!Invite
  <2>3. ASSUME NEW j \in Invitations, Grants!Accept(j) \/ Grants!Revoke(j)
        PROVE  GrantOutcome'[i] = GrantOutcome[i] /\ GrantOffer'[i] = GrantOffer[i]
    <3>1. i # j
      BY <1>1, <2>3 DEF Grants!Accept, Grants!Revoke
    <3>. QED
      BY <2>3, <3>1, GrantDomains DEF Grants!Accept, Grants!Revoke
  <2>. QED
    BY <1>1, <2>1, <2>2, <2>3 DEF Grants!Next
<1>2. IInv /\ [Next]_vars =>
        [\A i \in Invitations : GrantOutcome[i] \in {"accepted", "revoked"} =>
            GrantOutcome'[i] = GrantOutcome[i] /\ GrantOffer'[i] = GrantOffer[i]]_vars
  BY <1>1, GrantsNext
<1>. QED
  BY <1>2, Inductive, PTL DEF Spec, OutcomesFinal

-----------------------------------------------------------------------------
\* Locks and index keys

\* A row is locked only by a request that is past its update of that row: no lock
\* outlives its transaction.
HeldInv ==
    /\ \A i \in Invitations, a \in Acceptances : rowLock[i] = a =>
            acceptance[a].pc = "consumed" /\ acceptance[a].invitation = i
    /\ \A i \in Invitations, v \in Revocations : rowLock[i] = v =>
            revocation[v].pc = "answered" /\ revocation[v].invitation = i

\* organization_invitations_pending_email_unique, which open transactions obey too.
KeyInv ==
    \A i, j \in Invitations :
        /\ invitation[i].status \in {"answered", "pending"}
        /\ invitation[j].status \in {"answered", "pending"}
        /\ SameKey(i, j)
        => i = j

LInv == IInv /\ HeldInv /\ KeyInv

LEMMA HeldByAcceptance ==
    ASSUME LInv, NEW a \in Acceptances, NEW x,
           acceptance' = [acceptance EXCEPT ![a] = x], revocation' = revocation,
           \A i \in Invitations : rowLock'[i] = a => x.pc = "consumed" /\ x.invitation = i,
           \A i \in Invitations, t \in (Acceptances \cup Revocations) \ {a} :
              rowLock'[i] = t => rowLock[i] = t
    PROVE  HeldInv'
<1>1. /\ acceptance'[a] = x
      /\ \A b \in Acceptances \ {a} : acceptance'[b] = acceptance[b]
  BY DEF LInv, IInv, TypeOK
<1>2. a \notin Revocations
  BY RequestsDisjoint
<1>3. ASSUME NEW i \in Invitations, NEW b \in Acceptances, rowLock'[i] = b
      PROVE  acceptance'[b].pc = "consumed" /\ acceptance'[b].invitation = i
  BY <1>1, <1>3 DEF LInv, HeldInv
<1>4. ASSUME NEW i \in Invitations, NEW v \in Revocations, rowLock'[i] = v
      PROVE  revocation'[v].pc = "answered" /\ revocation'[v].invitation = i
  BY <1>2, <1>4 DEF LInv, HeldInv
<1>. QED
  BY <1>3, <1>4 DEF HeldInv

LEMMA HeldByRevocation ==
    ASSUME LInv, NEW v \in Revocations, NEW x,
           revocation' = [revocation EXCEPT ![v] = x], acceptance' = acceptance,
           \A i \in Invitations : rowLock'[i] = v => x.pc = "answered" /\ x.invitation = i,
           \A i \in Invitations, t \in (Acceptances \cup Revocations) \ {v} :
              rowLock'[i] = t => rowLock[i] = t
    PROVE  HeldInv'
<1>1. /\ revocation'[v] = x
      /\ \A w \in Revocations \ {v} : revocation'[w] = revocation[w]
  BY DEF LInv, IInv, TypeOK
<1>2. v \notin Acceptances
  BY RequestsDisjoint
<1>3. ASSUME NEW i \in Invitations, NEW w \in Revocations, rowLock'[i] = w
      PROVE  revocation'[w].pc = "answered" /\ revocation'[w].invitation = i
  BY <1>1, <1>3 DEF LInv, HeldInv
<1>4. ASSUME NEW i \in Invitations, NEW a \in Acceptances, rowLock'[i] = a
      PROVE  acceptance'[a].pc = "consumed" /\ acceptance'[a].invitation = i
  BY <1>2, <1>4 DEF LInv, HeldInv
<1>. QED
  BY <1>3, <1>4 DEF HeldInv

\* A transaction that ends leaves no lock of its own and takes none.
LEMMA UnlockedHolds ==
    ASSUME IInv, NEW t \in Acceptances \cup Revocations
    PROVE  /\ \A i \in Invitations : Unlocked(t)[i] # t
           /\ \A i \in Invitations, s \in (Acceptances \cup Revocations) \ {t} :
                 Unlocked(t)[i] = s => rowLock[i] = s
  BY NoneAbsent DEF Unlocked

LEMMA AcceptanceHeld ==
    ASSUME LInv, NEW a \in Acceptances,
           (\E i \in Invitations : Present(a, i)) \/ Accept(a) \/ CrashAcceptance(a)
    PROVE  HeldInv'
<1>1. IInv /\ HeldInv
  BY DEF LInv
<1>2. ASSUME NEW i \in Invitations, Present(a, i)
      PROVE  HeldInv'
  <2>. DEFINE x == [pc |-> "begun", invitation |-> i, fresh |-> ~lapsed[i], user |-> None]
  <2>1. acceptance' = [acceptance EXCEPT ![a] = x] /\ UNCHANGED <<rowLock, revocation>>
    BY <1>2 DEF Present
  <2>2. \A j \in Invitations : rowLock[j] # a
    BY <1>1, <1>2 DEF Present, HeldInv
  <2>. HIDE DEF x
  <2>. QED
    BY <2>1, <2>2, HeldByAcceptance
<1>3. CASE Consume(a)
  <2>. DEFINE i == acceptance[a].invitation
              x == [acceptance[a] EXCEPT !.pc = "consumed"]
  <2>1. /\ acceptance' = [acceptance EXCEPT ![a] = x]
        /\ rowLock' = [rowLock EXCEPT ![i] = a]
        /\ revocation' = revocation /\ acceptance[a].pc = "begun"
    BY <1>3 DEF Consume
  <2>2. x.pc = "consumed" /\ x.invitation = i
    BY <1>1 DEF IInv, TypeOK, Acceptance
  <2>. HIDE DEF x
  <2>3. \A j \in Invitations : rowLock[j] # a
    BY <1>1, <2>1 DEF HeldInv
  <2>4. \A j \in Invitations : rowLock'[j] = IF j = i THEN a ELSE rowLock[j]
    BY <1>1, <2>1 DEF IInv, TypeOK
  <2>5. \A j \in Invitations : rowLock'[j] = a => x.pc = "consumed" /\ x.invitation = j
    BY <2>2, <2>3, <2>4
  <2>6. \A j \in Invitations, t \in (Acceptances \cup Revocations) \ {a} :
            rowLock'[j] = t => rowLock[j] = t
    BY <2>4
  <2>7. acceptance' = [acceptance EXCEPT ![a] = x] /\ revocation' = revocation
    BY <2>1
  <2>. HIDE DEF i
  <2>. QED
    BY <2>5, <2>6, <2>7, HeldByAcceptance
<1>4. CASE RefuseAcceptance(a)
  <2>. DEFINE x == [acceptance[a] EXCEPT !.pc = "ended"]
  <2>1. /\ acceptance' = [acceptance EXCEPT ![a] = x] /\ UNCHANGED <<rowLock, revocation>>
        /\ acceptance[a].pc = "begun"
    BY <1>4 DEF RefuseAcceptance
  <2>2. \A j \in Invitations : rowLock[j] # a
    BY <1>1, <2>1 DEF HeldInv
  <2>. HIDE DEF x
  <2>. QED
    BY <2>1, <2>2, HeldByAcceptance
<1>5. CASE CommitAcceptance(a) \/ CrashAcceptance(a)
  <2>1. PICK x : acceptance' = [acceptance EXCEPT ![a] = x]
    BY <1>5 DEF CommitAcceptance, CrashAcceptance
  <2>2. rowLock' = Unlocked(a) /\ revocation' = revocation
    BY <1>5 DEF CommitAcceptance, CrashAcceptance
  <2>3. \A j \in Invitations : rowLock'[j] # a
    BY <1>1, <2>2, UnlockedHolds
  <2>4. \A j \in Invitations, t \in (Acceptances \cup Revocations) \ {a} :
            rowLock'[j] = t => rowLock[j] = t
    BY <1>1, <2>2, UnlockedHolds
  <2>. QED
    BY <2>1, <2>2, <2>3, <2>4, HeldByAcceptance
<1>6. CASE ResolveUser(a)
  <2>. DEFINE p == invitation[acceptance[a].invitation].email
              x == [acceptance[a] EXCEPT !.user = p]
  <2>1. /\ acceptance' = [acceptance EXCEPT ![a] = x] /\ UNCHANGED <<rowLock, revocation>>
        /\ acceptance[a].pc = "consumed"
    BY <1>6 DEF ResolveUser
  <2>2. x.pc = "consumed" /\ x.invitation = acceptance[a].invitation
    BY <1>1, <2>1 DEF IInv, TypeOK, Acceptance
  <2>3. \A i \in Invitations : rowLock'[i] = a => x.pc = "consumed" /\ x.invitation = i
    BY <1>1, <2>1, <2>2 DEF HeldInv
  <2>. HIDE DEF x
  <2>. QED
    BY <2>1, <2>3, HeldByAcceptance
<1>. QED
  BY <1>2, <1>3, <1>4, <1>5, <1>6 DEF Accept

LEMMA RevocationHeld ==
    ASSUME LInv, NEW v \in Revocations,
           \/ \E w \in People, o \in Orgs, i \in Invitations : BeginRevocation(v, w, o, i)
           \/ Withdraw(v) \/ CrashRevocation(v)
    PROVE  HeldInv'
<1>1. IInv /\ HeldInv
  BY DEF LInv
<1>2. ASSUME NEW w \in People, NEW o \in Orgs, NEW i \in Invitations,
             BeginRevocation(v, w, o, i)
      PROVE  HeldInv'
  <2>. DEFINE x == [pc |-> "begun", invitation |-> i]
  <2>1. revocation' = [revocation EXCEPT ![v] = x] /\ UNCHANGED <<rowLock, acceptance>>
    BY <1>2 DEF BeginRevocation
  <2>2. \A j \in Invitations : rowLock[j] # v
    BY <1>1, <1>2 DEF BeginRevocation, HeldInv
  <2>. HIDE DEF x
  <2>. QED
    BY <2>1, <2>2, HeldByRevocation
<1>3. CASE Revoke(v)
  <2>. DEFINE i == revocation[v].invitation
              x == [revocation[v] EXCEPT !.pc = "answered"]
  <2>1. /\ revocation' = [revocation EXCEPT ![v] = x]
        /\ rowLock' = [rowLock EXCEPT ![i] = v]
        /\ acceptance' = acceptance /\ revocation[v].pc = "begun"
    BY <1>3 DEF Revoke
  <2>2. x.pc = "answered" /\ x.invitation = i
    BY <1>1 DEF IInv, TypeOK, Revocation
  <2>. HIDE DEF x
  <2>3. \A j \in Invitations : rowLock[j] # v
    BY <1>1, <2>1 DEF HeldInv
  <2>4. \A j \in Invitations : rowLock'[j] = IF j = i THEN v ELSE rowLock[j]
    BY <1>1, <2>1 DEF IInv, TypeOK
  <2>5. \A j \in Invitations : rowLock'[j] = v => x.pc = "answered" /\ x.invitation = j
    BY <2>2, <2>3, <2>4
  <2>6. \A j \in Invitations, t \in (Acceptances \cup Revocations) \ {v} :
            rowLock'[j] = t => rowLock[j] = t
    BY <2>4
  <2>7. revocation' = [revocation EXCEPT ![v] = x] /\ acceptance' = acceptance
    BY <2>1
  <2>. HIDE DEF i
  <2>. QED
    BY <2>5, <2>6, <2>7, HeldByRevocation
<1>4. CASE RefuseRevocation(v)
  <2>. DEFINE x == [revocation[v] EXCEPT !.pc = "ended"]
  <2>1. /\ revocation' = [revocation EXCEPT ![v] = x] /\ UNCHANGED <<rowLock, acceptance>>
        /\ revocation[v].pc = "begun"
    BY <1>4 DEF RefuseRevocation
  <2>2. \A j \in Invitations : rowLock[j] # v
    BY <1>1, <2>1 DEF HeldInv
  <2>. HIDE DEF x
  <2>. QED
    BY <2>1, <2>2, HeldByRevocation
<1>5. CASE CommitRevocation(v) \/ CrashRevocation(v)
  <2>1. PICK x : revocation' = [revocation EXCEPT ![v] = x]
    BY <1>5 DEF CommitRevocation, CrashRevocation
  <2>2. rowLock' = Unlocked(v) /\ acceptance' = acceptance
    BY <1>5 DEF CommitRevocation, CrashRevocation
  <2>3. \A j \in Invitations : rowLock'[j] # v
    BY <1>1, <2>2, UnlockedHolds
  <2>4. \A j \in Invitations, t \in (Acceptances \cup Revocations) \ {v} :
            rowLock'[j] = t => rowLock[j] = t
    BY <1>1, <2>2, UnlockedHolds
  <2>. QED
    BY <2>1, <2>2, <2>3, <2>4, HeldByRevocation
<1>. QED
  BY <1>2, <1>3, <1>4, <1>5 DEF Withdraw

\* A step by which no row enters the index.
LEMMA KeyFrame ==
    ASSUME KeyInv,
           \A j \in Invitations : invitation'[j].status \in {"answered", "pending"} =>
              /\ invitation[j].status \in {"answered", "pending"}
              /\ invitation'[j].org = invitation[j].org
              /\ invitation'[j].email = invitation[j].email
    PROVE  KeyInv'
  BY DEF KeyInv, SameKey

LEMMA CreationKeys ==
    ASSUME LInv, NEW i \in Invitations,
           \/ \E w, p \in People, o \in Orgs, r \in Roles : CheckInvitee(i, w, o, p, r)
           \/ Create(i) \/ CrashCreation(i)
    PROVE  KeyInv'
<1>1. invitation \in [Invitations -> Invitation] /\ KeyInv
  BY DEF LInv, IInv, TypeOK
<1>2. ASSUME NEW w \in People, NEW p \in People, NEW o \in Orgs, NEW r \in Roles,
             CheckInvitee(i, w, o, p, r)
      PROVE  KeyInv'
  <2>. DEFINE x == [status |-> "checked", org |-> o, email |-> p, role |-> r]
  <2>1. invitation' = [invitation EXCEPT ![i] = x] /\ x.status = "checked"
    BY <1>2 DEF CheckInvitee
  <2>. HIDE DEF x
  <2>2. \A j \in Invitations : invitation'[j] = IF j = i THEN x ELSE invitation[j]
    BY <1>1, <2>1
  <2>. QED
    BY <1>1, <2>1, <2>2, KeyFrame
<1>3. ASSUME NEW s, invitation' = [invitation EXCEPT ![i].status = s]
      PROVE  /\ \A j \in Invitations \ {i} : invitation'[j] = invitation[j]
             /\ invitation'[i].status = s
             /\ invitation'[i].org = invitation[i].org
             /\ invitation'[i].email = invitation[i].email
  BY <1>1, <1>3 DEF Invitation
<1>4. CASE InsertInvitation(i)
  <2>1. invitation' = [invitation EXCEPT ![i].status = "answered"]
    BY <1>4 DEF InsertInvitation
  <2>2. \A j \in Invitations \ {i} : invitation'[j] = invitation[j]
    BY <1>3, <2>1
  <2>3. /\ invitation'[i].org = invitation[i].org
        /\ invitation'[i].email = invitation[i].email
    BY <1>3, <2>1
  <2>4. \A j \in Invitations : SameKey(i, j) =>
            invitation[j].status \notin {"answered", "pending"}
    BY <1>4 DEF InsertInvitation
  <2>. QED
    BY <1>1, <2>2, <2>3, <2>4 DEF KeyInv, SameKey
<1>5. CASE DuplicateInvitation(i) \/ CrashCreation(i)
  <2>1. invitation' = [invitation EXCEPT ![i].status = "lost"]
    BY <1>5 DEF DuplicateInvitation, CrashCreation
  <2>. QED
    BY <1>1, <1>3, <2>1, KeyFrame
<1>6. CASE CommitInvitation(i)
  <2>1. invitation' = [invitation EXCEPT ![i].status = "pending"]
        /\ invitation[i].status = "answered"
    BY <1>6 DEF CommitInvitation
  <2>. QED
    BY <1>1, <1>3, <2>1, KeyFrame
<1>. QED
  BY <1>2, <1>4, <1>5, <1>6 DEF Create

LEMMA LockInit == Init => LInv
<1>. SUFFICES ASSUME Init PROVE HeldInv /\ KeyInv
  BY InitInv DEF LInv
<1>1. \A i \in Invitations : rowLock[i] = None /\ invitation[i].status = "absent"
  BY DEF Init, NoInvitation
<1>. QED
  BY <1>1, NoneAbsent DEF HeldInv, KeyInv

LEMMA LockNext == LInv /\ [Next]_vars => LInv'
<1>. SUFFICES ASSUME LInv, [Next]_vars PROVE HeldInv' /\ KeyInv'
  BY NextInv DEF LInv
<1>. USE DEF LInv
<1>1. CASE UNCHANGED <<invitation, rowLock, acceptance, revocation>>
  BY <1>1 DEF HeldInv, KeyInv, SameKey
<1>2. ASSUME NEW i \in Invitations,
             \/ \E w, p \in People, o \in Orgs, r \in Roles : CheckInvitee(i, w, o, p, r)
             \/ Create(i) \/ CrashCreation(i)
      PROVE  HeldInv' /\ KeyInv'
  <2>1. UNCHANGED <<rowLock, acceptance, revocation>>
    BY <1>2 DEF CheckInvitee, Create, InsertInvitation, DuplicateInvitation,
                CommitInvitation, CrashCreation
  <2>2. HeldInv'
    BY <2>1 DEF HeldInv
  <2>3. KeyInv'
    BY <1>2, CreationKeys
  <2>. QED
    BY <2>2, <2>3
<1>3. ASSUME NEW a \in Acceptances,
             (\E i \in Invitations : Present(a, i)) \/ Accept(a) \/ CrashAcceptance(a)
      PROVE  HeldInv' /\ KeyInv'
  <2>1. HeldInv'
    BY <1>3, AcceptanceHeld
  <2>2. CASE CommitAcceptance(a)
    <3>1. PICK i \in Invitations :
              /\ invitation'[i].status = "accepted"
              /\ \A j \in Invitations \ {i} : invitation'[j] = invitation[j]
      BY <2>2, CommitAcceptanceFacts
    <3>. QED
      BY <2>1, <3>1, KeyFrame
  <2>3. CASE UNCHANGED invitation
    BY <2>1, <2>3 DEF KeyInv, SameKey
  <2>. QED
    BY <1>3, <2>2, <2>3
       DEF Present, Accept, Consume, RefuseAcceptance, ResolveUser, CrashAcceptance
<1>4. ASSUME NEW v \in Revocations,
             \/ \E w \in People, o \in Orgs, i \in Invitations : BeginRevocation(v, w, o, i)
             \/ Withdraw(v) \/ CrashRevocation(v)
      PROVE  HeldInv' /\ KeyInv'
  <2>1. HeldInv'
    BY <1>4, RevocationHeld
  <2>2. CASE CommitRevocation(v)
    <3>1. PICK i \in Invitations :
              /\ invitation'[i].status = "revoked"
              /\ \A j \in Invitations \ {i} : invitation'[j] = invitation[j]
      BY <2>2, CommitRevocationFacts
    <3>. QED
      BY <2>1, <3>1, KeyFrame
  <2>3. CASE UNCHANGED invitation
    BY <2>1, <2>3 DEF KeyInv, SameKey
  <2>. QED
    BY <1>4, <2>2, <2>3 DEF BeginRevocation, Withdraw, Revoke, RefuseRevocation, CrashRevocation
<1>5. ASSUME NEW i \in Invitations, Expire(i)
      PROVE  UNCHANGED <<invitation, rowLock, acceptance, revocation>>
  BY <1>5 DEF Expire
<1>6. CASE UNCHANGED vars
  BY <1>1, <1>6 DEF vars
<1>. QED
  BY <1>1, <1>2, <1>3, <1>4, <1>5, <1>6 DEF Next

\* One person has one open invitation of a tenant, whatever creations overlap or crash.
THEOREM OnePendingAlways == Spec => []KeyInv
<1>1. LInv => KeyInv
  BY DEF LInv
<1>. QED
  BY <1>1, LockInit, LockNext, PTL DEF Spec

-----------------------------------------------------------------------------
\* Waiting

Actors == ({"creation"} \X Invitations) \cup ({"acceptance"} \X Acceptances)
                                       \cup ({"revocation"} \X Revocations)

Holds(y, i) == y[1] \in {"acceptance", "revocation"} /\ rowLock[i] = y[2]

\* An insert waits for an open insert of its key and for whoever changes the pending row
\* of its key.
CreationWaits(i, y) ==
    /\ invitation[i].status = "checked"
    /\ \E j \in Invitations :
          /\ SameKey(i, j)
          /\ \/ invitation[j].status = "answered" /\ y = <<"creation", j>>
             \/ invitation[j].status = "pending" /\ Holds(y, j)

\* An acceptance waits for the invitation's row, and, holding it, for the acceptance of
\* the same person that holds the app_users row.
AcceptanceWaits(a, y) ==
    \/ /\ acceptance[a].pc = "begun" /\ acceptance[a].fresh
       /\ Holds(y, acceptance[a].invitation)
    \/ /\ acceptance[a].pc = "consumed" /\ acceptance[a].user = None
       /\ y[1] = "acceptance"
       /\ y[2] \in UserHolders(invitation[acceptance[a].invitation].email)

WaitsFor(x, y) ==
    \/ x[1] = "creation" /\ CreationWaits(x[2], y)
    \/ x[1] = "acceptance" /\ AcceptanceWaits(x[2], y)
    \/ /\ x[1] = "revocation" /\ revocation[x[2]].pc = "begun"
       /\ Holds(y, revocation[x[2]].invitation)

\* Nobody waits for somebody who waits for somebody who waits.
NoWaitChain ==
    \A w, x, y, z \in Actors : ~(WaitsFor(w, x) /\ WaitsFor(x, y) /\ WaitsFor(y, z))

\* Whoever is waited for is past its own wait for a row or key of the invitations.
LEMMA WaitedFor ==
    ASSUME LInv, NEW x \in Actors, NEW y \in Actors, WaitsFor(x, y)
    PROVE  \/ y[1] = "creation" /\ invitation[y[2]].status = "answered"
           \/ /\ y[1] = "acceptance" /\ y[2] \in Acceptances
              /\ acceptance[y[2]].pc = "consumed"
           \/ y[1] = "revocation" /\ revocation[y[2]].pc = "answered"
<1>1. ASSUME NEW i \in Invitations, Holds(y, i)
      PROVE  \/ /\ y[1] = "acceptance" /\ y[2] \in Acceptances
                /\ acceptance[y[2]].pc = "consumed"
             \/ y[1] = "revocation" /\ revocation[y[2]].pc = "answered"
  BY <1>1 DEF Holds, Actors, LInv, HeldInv
<1>2. CASE x[1] = "creation"
  BY <1>1, <1>2 DEF WaitsFor, CreationWaits
<1>3. CASE x[1] = "acceptance"
  <2>1. x[2] \in Acceptances
    BY <1>3 DEF Actors
  <2>2. acceptance[x[2]].pc = "begun" => acceptance[x[2]].invitation \in Invitations
    BY <2>1 DEF LInv, IInv, FieldInv
  <2>. QED
    BY <1>1, <1>3, <2>2 DEF WaitsFor, AcceptanceWaits, UserHolders
<1>4. CASE x[1] = "revocation"
  <2>1. x[2] \in Revocations
    BY <1>4 DEF Actors
  <2>2. revocation[x[2]].pc = "begun" => revocation[x[2]].invitation \in Invitations
    BY <2>1 DEF LInv, IInv, FieldInv
  <2>. QED
    BY <1>1, <1>4, <2>2 DEF WaitsFor
<1>. QED
  BY <1>2, <1>3, <1>4 DEF Actors

\* Who is waited for and waits is an acceptance that holds its invitation, and the one it
\* waits for has its user.
LEMMA WaitsForUser ==
    ASSUME LInv, NEW x \in Actors, NEW y \in Actors, NEW z \in Actors,
           WaitsFor(x, y), WaitsFor(y, z)
    PROVE  /\ y[1] = "acceptance" /\ acceptance[y[2]].user = None
           /\ z[1] = "acceptance" /\ acceptance[z[2]].user # None
<1>1. /\ y[1] = "acceptance" /\ y[2] \in Acceptances
      /\ acceptance[y[2]].pc = "consumed"
  BY WaitedFor DEF WaitsFor, CreationWaits
<1>. DEFINE p == invitation[acceptance[y[2]].invitation].email
<1>2. /\ acceptance[y[2]].user = None
      /\ z[1] = "acceptance" /\ z[2] \in UserHolders(p)
  BY <1>1 DEF WaitsFor, AcceptanceWaits
<1>3. p \in People
  BY <1>1 DEF LInv, IInv, FieldInv, LockInv, InUse
<1>. QED
  BY <1>1, <1>2, <1>3, NoneAbsent DEF UserHolders

\* An acceptance waits for the app_users row of its person while creations, acceptances
\* and revocations wait for its invitation, in any tenant: these waits never close a
\* cycle, since the holder of that row takes no further lock.
THEOREM NoDeadlock == Spec => []NoWaitChain
<1>1. LInv => NoWaitChain
  <2>. SUFFICES ASSUME LInv, NEW w \in Actors, NEW x \in Actors, NEW y \in Actors,
                       NEW z \in Actors, WaitsFor(w, x), WaitsFor(x, y), WaitsFor(y, z)
                PROVE  FALSE
    BY DEF NoWaitChain
  <2>1. acceptance[y[2]].user # None
    BY WaitsForUser
  <2>2. acceptance[y[2]].user = None
    BY WaitsForUser
  <2>. QED
    BY <2>1, <2>2
<1>. QED
  BY <1>1, LockInit, LockNext, PTL DEF Spec
=============================================================================
