----------------------------- MODULE HostRegistry -----------------------------
(***************************************************************************)
(* What custom domains promise, without requests, row locks, lookups and   *)
(* caches.  A hostname is claimed once; it is verified only for the tenant *)
(* that controls its zone; a claim that was given up is never taken up     *)
(* again; and a page is shown only from a published tenant's active claim. *)
(***************************************************************************)
CONSTANTS
    Tenants,    \* organizations
    Hostnames,  \* custom hostnames
    Owner,      \* the tenant that controls the zone of each hostname
    None        \* no tenant

VARIABLES
    claim,      \* per hostname, who claimed it and how far the claim got
    published,  \* tenants with a published profile
    showing     \* per hostname, the tenants whose pages may still be seen

registryVars == <<claim, published, showing>>

Init ==
    /\ claim = [h \in Hostnames |-> [status |-> "absent", tenant |-> None]]
    /\ published = {}
    /\ showing = [h \in Hostnames |-> {}]

\* The claim of h goes on from one of the statuses in "from".
Move(h, from, to) ==
    /\ claim[h].status \in from
    /\ claim' = [claim EXCEPT ![h].status = to]
    /\ UNCHANGED <<published, showing>>

Claim(h, t) ==
    /\ claim[h].status = "absent"
    /\ claim' = [claim EXCEPT ![h] = [status |-> "pending", tenant |-> t]]
    /\ UNCHANGED <<published, showing>>

Verify(h) == claim[h].tenant = Owner[h] /\ Move(h, {"pending"}, "verified")

Activate(h) == Move(h, {"verified"}, "active")

GiveUp(h) == Move(h, {"pending", "verified", "active"}, "disabled")

Publish(t) ==
    /\ published' \in {published \cup {t}, published \ {t}}
    /\ UNCHANGED <<claim, showing>>

\* A page is read.
Show(h) ==
    /\ claim[h].status = "active"
    /\ claim[h].tenant \in published
    /\ showing' = [showing EXCEPT ![h] = @ \cup {claim[h].tenant}]
    /\ UNCHANGED <<claim, published>>

\* The last copy of a tenant's page is gone.
Fade(h, t) ==
    /\ showing' = [showing EXCEPT ![h] = @ \ {t}]
    /\ UNCHANGED <<claim, published>>

Next ==
    \/ \E h \in Hostnames :
          \/ \E t \in Tenants : Claim(h, t) \/ Fade(h, t)
          \/ Verify(h) \/ Activate(h) \/ GiveUp(h) \/ Show(h)
    \/ \E t \in Tenants : Publish(t)

Spec == Init /\ [][Next]_registryVars
=============================================================================
