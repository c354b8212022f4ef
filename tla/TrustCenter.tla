------------------------------ MODULE TrustCenter ------------------------------
(***************************************************************************)
(* Custom domains of the public trust centers: trust_centers.py's          *)
(* create_, verify_, activate_ and disable_trust_domain,                   *)
(* update_trust_center and get_public_trust_center, the functions of       *)
(* migration 0013 and the tables trust_center_domains and                  *)
(* trust_center_profiles.                                                  *)
(*                                                                         *)
(* The handlers of a tenant run in tenant_session, which answers before it *)
(* commits; a public page is read in one statement of a transaction of its *)
(* own and may be cached by whoever receives it.                           *)
(***************************************************************************)
EXTENDS Naturals, FiniteSets

CONSTANTS
    Tenants,    \* organizations
    Hostnames,  \* normalized custom hostnames
    Owner,      \* the tenant that controls the DNS zone of each hostname
    Wants,      \* the hostnames each tenant may try to register
    Limit,      \* enabled domains a tenant may have
    Requests,   \* requests of tenant administrators
    None        \* no tenant, host or kind

ASSUME ZonesOwned == Owner \in [Hostnames -> Tenants]
ASSUME WantsHostnames == Wants \in [Tenants -> SUBSET Hostnames]
ASSUME LimitPositive == Limit \in Nat \ {0}
ASSUME NobodyIsATenant == None \notin Tenants

VARIABLES
    domain,     \* committed rows of trust_center_domains
    published,  \* the tenants whose committed profile is published
    request,    \* requests of tenant administrators
    answer,     \* per hostname, the page of a tenant on its way to a cache
    page        \* per hostname, the page of a tenant in a cache

\* Kept for LimitUnlessOverlapping only.
VARIABLE
    counted     \* per hostname, the enabled domains its registration counted

vars == <<domain, published, request, answer, page, counted>>

-----------------------------------------------------------------------------
Domain == [status : {"absent", "pending", "verified", "active", "disabled"},
           tenant : Tenants \cup {None}]

\* "begun": the domains are counted, or the statement has found the row and may
\* wait for it; "looking": the row is locked during the DNS lookup; "answered":
\* the row is written, not committed; "ended": crashed.
Request == [pc : {"idle", "begun", "looking", "answered", "ended"},
            kind : {"register", "verify", "activate", "disable", None},
            tenant : Tenants \cup {None}, host : Hostnames \cup {None},
            counted : SUBSET Hostnames]

TypeOK ==
    /\ domain \in [Hostnames -> Domain]
    /\ published \subseteq Tenants
    /\ request \in [Requests -> Request]
    /\ answer \in [Hostnames -> Tenants \cup {None}]
    /\ page \in [Hostnames -> Tenants \cup {None}]
    /\ counted \in [Hostnames -> SUBSET Hostnames]

Idle == [pc |-> "idle", kind |-> None, tenant |-> None, host |-> None, counted |-> {}]

Init ==
    /\ domain = [h \in Hostnames |-> [status |-> "absent", tenant |-> None]]
    /\ published = {}
    /\ request = [q \in Requests |-> Idle]
    /\ answer = [h \in Hostnames |-> None]
    /\ page = [h \in Hostnames |-> None]
    /\ counted = [h \in Hostnames |-> {}]

-----------------------------------------------------------------------------
\* The committed rows of t whose status is not disabled.
Enabled(t) == {h \in Hostnames : /\ domain[h].tenant = t
                                 /\ domain[h].status \notin {"absent", "disabled"}}

\* An open transaction has inserted the row of h or holds its lock.
Busy(h) == \E q \in Requests : /\ request[q].host = h
                               /\ request[q].pc \in {"looking", "answered"}

\* The statuses in which the statement of a request finds its row.
Found(kind) == CASE kind = "verify" -> {"pending", "verified"}
                 [] kind = "activate" -> {"verified"}
                 [] kind = "disable" -> {"pending", "verified", "active"}

\* A bug: the operation is stored for the status it leads to.
ResultByName(kind) == IF kind = "register" THEN "pending" ELSE kind

\* What the transaction of a request makes of the status.
Result(kind) == CASE kind = "register" -> "pending"
                  [] kind = "verify" -> "verified"
                  [] kind = "activate" -> "active"
                  [] kind = "disable" -> "disabled"

Answered(q) == request' = [request EXCEPT ![q].pc = "answered"]

\* An error response, or a completed transaction: the record is free again.
Done(q) == request' = [request EXCEPT ![q] = Idle]

Visits == <<answer, page>>
Rows == <<domain, published, counted>>

\* A bug: one more domain than the limit is let through.
CountPast(q, t, h) ==
    /\ request[q].pc = "idle"
    /\ h \in Wants[t]
    /\ Cardinality(Enabled(t)) <= Limit
    /\ request' = [request EXCEPT ![q] =
            [pc |-> "begun", kind |-> "register", tenant |-> t, host |-> h,
             counted |-> Enabled(t)]]
    /\ UNCHANGED <<Rows, Visits>>

\* create_trust_domain counts the enabled domains of its tenant.
Count(q, t, h) ==
    /\ request[q].pc = "idle"
    /\ h \in Wants[t]
    /\ Cardinality(Enabled(t)) < Limit
    /\ request' = [request EXCEPT ![q] =
            [pc |-> "begun", kind |-> "register", tenant |-> t, host |-> h,
             counted |-> Enabled(t)]]
    /\ UNCHANGED <<Rows, Visits>>

\* A bug: the hostname is unique among enabled domains only.
InsertOverDisabled(q) ==
    /\ request[q].pc = "begun"
    /\ request[q].kind = "register"
    /\ ~Busy(request[q].host)
    /\ domain[request[q].host].status \in {"absent", "disabled"}
    /\ Answered(q)
    /\ UNCHANGED <<Rows, Visits>>

\* The insert passes trust_center_domains_hostname_unique, for which it waits
\* until no open transaction has inserted the hostname.
Insert(q) ==
    /\ request[q].pc = "begun"
    /\ request[q].kind = "register"
    /\ ~Busy(request[q].host)
    /\ domain[request[q].host].status = "absent"
    /\ Answered(q)
    /\ UNCHANGED <<Rows, Visits>>

\* UniqueViolation: 409.  The row of a disabled domain keeps its hostname.
Duplicate(q) ==
    /\ request[q].pc = "begun"
    /\ request[q].kind = "register"
    /\ domain[request[q].host].status # "absent"
    /\ Done(q)
    /\ UNCHANGED <<Rows, Visits>>

-----------------------------------------------------------------------------
\* verify_, activate_ and disable_trust_domain: row-level security shows a tenant
\* its own rows, and the statement finds the committed row in a status it wants.
Begin(q, kind, h) ==
    /\ request[q].pc = "idle"
    /\ domain[h].status \in Found(kind)
    /\ request' = [request EXCEPT ![q] =
            [pc |-> "begun", kind |-> kind, tenant |-> domain[h].tenant, host |-> h,
             counted |-> {}]]
    /\ UNCHANGED <<Rows, Visits>>

\* A bug: the status found before the wait for the row is not looked at again.
LockUnchecked(q, kind) ==
    /\ request[q].pc = "begun"
    /\ request[q].kind = kind
    /\ ~Busy(request[q].host)
    /\ UNCHANGED <<Rows, Visits>>

\* The statement gets the row lock and evaluates its condition on the row that
\* the other transaction left.
Lock(q, kind) ==
    /\ request[q].pc = "begun"
    /\ request[q].kind = kind
    /\ ~Busy(request[q].host)
    /\ domain[request[q].host].status \in Found(kind)
    /\ UNCHANGED <<Rows, Visits>>

\* "select ... for update" of a verification or an activation.
LockForLookup(q) ==
    /\ \E kind \in {"verify", "activate"} : Lock(q, kind)
    /\ request' = [request EXCEPT ![q].pc = "looking"]

\* The conditional update of disable_trust_domain.
Disable(q) == Lock(q, "disable") /\ Answered(q)

\* 404 or 409: the row changed while the statement waited for it.
RefuseChange(q) ==
    /\ request[q].pc = "begun"
    /\ request[q].kind # "register"
    /\ ~Busy(request[q].host)
    /\ domain[request[q].host].status \notin Found(request[q].kind)
    /\ Done(q)
    /\ UNCHANGED <<Rows, Visits>>

\* A bug: any TXT record of the zone is taken for the challenge.
AnyRecord(q) == TRUE

\* The challenge of a row is known to its tenant alone, and a record of the zone
\* is written by its owner alone; a CNAME proves nothing by itself.
MayMatch(q) ==
    request[q].kind = "verify" => request[q].tenant = Owner[request[q].host]

\* The lookup finds the expected record, and the row is written.
RecordMatches(q) ==
    /\ request[q].pc = "looking"
    /\ MayMatch(q)
    /\ Answered(q)
    /\ UNCHANGED <<Rows, Visits>>

\* A bug: a lookup that does not find the record is repeated, with no lifetime.
LookupRepeated(q) ==
    /\ request[q].pc = "looking"
    /\ UNCHANGED vars

\* 422: a missing or different record, or a DNS error.
LookupFails(q) ==
    /\ request[q].pc = "looking"
    /\ Done(q)
    /\ UNCHANGED <<Rows, Visits>>

Commit(q) ==
    LET h == request[q].host
    IN  /\ request[q].pc = "answered"
        /\ domain' = [domain EXCEPT ![h] = [status |-> Result(request[q].kind),
                                            tenant |-> request[q].tenant]]
        /\ counted' = IF request[q].kind = "register"
                      THEN [counted EXCEPT ![h] = request[q].counted] ELSE counted
        /\ Done(q)
        /\ UNCHANGED <<published, Visits>>

\* The API process or its connection dies: nothing is written.
Crash(q) ==
    /\ request[q].pc \in {"begun", "looking", "answered"}
    /\ request' = [request EXCEPT ![q] = [Idle EXCEPT !.pc = "ended"]]
    /\ UNCHANGED <<Rows, Visits>>

\* update_trust_center commits the profile of t as published or as a draft.
SaveProfile(t) ==
    /\ published' \in {published \cup {t}, published \ {t}}
    /\ UNCHANGED <<domain, request, counted, Visits>>

-----------------------------------------------------------------------------
\* public_trust_center: the tenant whose page h shows.
Routed(h) == IF domain[h].status = "active" /\ domain[h].tenant \in published
             THEN domain[h].tenant ELSE None

\* trust_domain_tls_authorized: the tenants for which the edge is told that it may
\* obtain a certificate for h.
Authorized(h) == {t \in published : domain[h] = [status |-> "active", tenant |-> t]}

\* get_public_trust_center has read a page for h; 404 is not cached.
Visit(h) ==
    /\ answer[h] = None
    /\ Routed(h) # None
    /\ answer' = [answer EXCEPT ![h] = Routed(h)]
    /\ UNCHANGED <<Rows, request, page>>

\* The answer reaches a cache, which may keep it for max-age=300.
Cache(h) ==
    /\ answer[h] # None
    /\ page' = [page EXCEPT ![h] = answer[h]]
    /\ answer' = [answer EXCEPT ![h] = None]
    /\ UNCHANGED <<Rows, request>>

\* The age of the cached page is over.
ExpirePage(h) ==
    /\ page[h] # None
    /\ page' = [page EXCEPT ![h] = None]
    /\ UNCHANGED <<Rows, request, answer>>

-----------------------------------------------------------------------------
GetRow(q) == LockForLookup(q) \/ Disable(q) \/ RefuseChange(q)

Serve(q) == \/ Insert(q) \/ Duplicate(q) \/ GetRow(q)
            \/ RecordMatches(q) \/ LookupFails(q) \/ Commit(q)

Next ==
    \/ \E q \in Requests :
          \/ \E t \in Tenants, h \in Hostnames : Count(q, t, h)
          \/ \E kind \in {"verify", "activate", "disable"}, h \in Hostnames :
                Begin(q, kind, h)
          \/ Serve(q) \/ Crash(q)
    \/ \E t \in Tenants : SaveProfile(t)
    \/ \E h \in Hostnames : Visit(h) \/ Cache(h) \/ ExpirePage(h)

Spec == Init /\ [][Next]_vars

\* Handlers, lookups (lifetime=5) and the database end; PostgreSQL queues those
\* who wait for a row, so that repeated lookups do not overtake one of them for
\* ever; answers arrive, and the age of a cached page ends.
Fairness ==
    /\ \A q \in Requests : WF_vars(Serve(q)) /\ SF_vars(GetRow(q))
    /\ \A h \in Hostnames : WF_vars(Cache(h)) /\ WF_vars(ExpirePage(h))

FairSpec == Spec /\ Fairness

-----------------------------------------------------------------------------
\* Properties

\* "The platform verifies the unique TXT value before it checks the direct CNAME.
\* Only ... an active, verified hostname can resolve publicly"
\* (docs/trust-centers.md): whoever registers a hostname first, and whatever runs
\* together, no hostname shows, or is certified for, another tenant than the one
\* that controls its zone.
OwnerRouted ==
    \A h \in Hostnames :
        {answer[h], page[h]} \cup Authorized(h) \subseteq {Owner[h], None}

\* "Limits each tenant to five enabled domains" (docs/trust-centers.md): a tenant
\* has more only by registrations that ran together, neither of which counted the
\* other.
LimitUnlessOverlapping ==
    \A t \in Tenants :
        Cardinality(Enabled(t)) > Limit =>
            \E h, k \in Enabled(t) : h # k /\ h \notin counted[k] /\ k \notin counted[h]

\* The registry of hostnames that the rows, and the pages on their way, stand for.
Showing == [h \in Hostnames |-> {answer[h], page[h]} \ {None}]

Registry == INSTANCE HostRegistry WITH claim <- domain, showing <- Showing

\* "The record is retained ... to reduce accidental hostname reassignment"
\* (docs/trust-centers.md): whatever requests wait, look up and crash together, a
\* claimed hostname never passes to another tenant, only its owner verifies it, and
\* what was disabled is not taken up again, nor shown anew.
ImplementsRegistry == Registry!Spec

\* "Disabling a domain immediately removes it from trust-page routing and certificate
\* authorization" (docs/trust-centers.md:20).  "Immediately" is more than the code gives,
\* since pages may be under way or in a cache for five minutes: once a domain is
\* disabled they disappear for good, and no verification or activation that was waiting
\* for the row or for DNS brings it back.
HostGoesDark ==
    \A h \in Hostnames :
        domain[h].status = "disabled" ~> [](Authorized(h) = {} /\ page[h] = None)

\* Every request ends, although it may wait for a row that is held during a lookup.
RequestsEnd ==
    \A q \in Requests : request[q].pc = "begun" ~> request[q].pc \in {"idle", "ended"}
=============================================================================
