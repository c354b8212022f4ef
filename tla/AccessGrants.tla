----------------------------- MODULE AccessGrants -----------------------------
(***************************************************************************)
(* What client invitations promise, without tokens, locks and requests: an *)
(* invitation offers one role in one organization to one person; it is     *)
(* accepted or revoked at most once; and a person's access changes only in *)
(* the step that accepts an invitation, to the role and in the             *)
(* organization it offered.                                                *)
(***************************************************************************)
CONSTANTS
    Orgs,           \* tenants
    People,         \* natural persons, by normalized email address
    Invitations,    \* invitations an administrator may send
    Profiles,       \* roles an invitation may offer
    Initial,        \* the access there may be before any invitation
    None            \* no offer, no access

VARIABLES
    offer,      \* what each invitation offers
    outcome,    \* whether it is open, accepted or revoked
    access      \* the active role of each person in each organization

grantVars == <<offer, outcome, access>>

Offer == [org : Orgs, email : People, role : Profiles]

Init ==
    /\ offer = [i \in Invitations |-> None]
    /\ outcome = [i \in Invitations |-> "none"]
    /\ access \in Initial

Invite(i, o) ==
    /\ outcome[i] = "none"
    /\ offer' = [offer EXCEPT ![i] = o]
    /\ outcome' = [outcome EXCEPT ![i] = "open"]
    /\ UNCHANGED access

Accept(i) ==
    /\ outcome[i] = "open"
    /\ outcome' = [outcome EXCEPT ![i] = "accepted"]
    /\ access' = [access EXCEPT ![offer[i].org][offer[i].email] = offer[i].role]
    /\ UNCHANGED offer

Revoke(i) ==
    /\ outcome[i] = "open"
    /\ outcome' = [outcome EXCEPT ![i] = "revoked"]
    /\ UNCHANGED <<offer, access>>

Next ==
    \E i \in Invitations :
        \/ \E o \in Offer : Invite(i, o)
        \/ Accept(i)
        \/ Revoke(i)

Spec == Init /\ [][Next]_grantVars
=============================================================================
