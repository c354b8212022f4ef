# Watchtower GRC: specifications and proofs

TLA+ models of Watchtower's API and database protocols, TLC configurations that
check them on small instances, and TLAPS proofs of their safety for instances of
every size. Paths below are relative to the repository; `api/` stands for
`apps/api/watchtower_api/` and `0007` for the migration with that number in
`db/migrations/versions/`.

## The system

Watchtower is a FastAPI service over PostgreSQL, with artifacts in an S3 or
Azure bucket, a React client and a small Go agent. Every request of a tenant
member runs in `tenant_session` (`api/database.py`): one pooled connection, one
READ COMMITTED transaction, the row-level-security settings, one look at the
caller's membership. Endpoints for callers outside the tenant (accept an
invitation, sign a policy, enroll an agent, post an observation, show a public trust
page) open a transaction of their own instead.

Four facts about this frame shape every module:

1. **Answer before commit.** The service uses FastAPI 0.141.1 without
   `scope="function"`, so the exit code of `tenant_session`, its commit, runs
   after the response is sent. Such handlers have an `answered` state between
   their last statement and their commit, in which a crash rolls everything
   back. The endpoints that open a transaction of their own commit first.
2. **Reads without locks.** READ COMMITTED statements see what was committed when
   they started. Only statements that say `for update`, and updates, lock rows;
   an update or a `for update` that waited sees the new version of *its* row,
   and keeps what its joins found before.
3. **Unique indexes wait.** An insert waits for an open transaction that has
   inserted a row with its key, or is changing one.
4. **Crashes roll back, providers do not.** A process or connection that dies
   undoes its transaction and frees its locks; objects, URLs and responses stay.

| Component | State | Operations | What makes it hard | What makes it correct |
|---|---|---|---|---|
| Direct evidence uploads (`api/main.py`, `api/object_storage.py`, 0003, 0004) | upload sessions, evidence and lifecycle rows, objects, retention policy | create, PUT by the client, complete, set policy | client writes during completion, provider calls under a row lock, crashes, duplicates | evidence holds the authorized bytes, once, protected as recorded |
| Evidence artifacts (`api/main.py`, 0004) | lifecycle rows, audit rows, URLs | scan result, legal hold, download | overlapping updates, status read before the grant | the ledger explains the row; only clean artifacts leave |
| Client access (`api/access.py`, 0007, 0008) | invitations, memberships | invite, accept, revoke | check-then-insert, token races, expiry | one outcome; access changes only by acceptance |
| Policy library (`api/policies.py`, 0009) | document, versions | create, revise, decide | concurrent revisions and approvals | no revision lost; a status is of the current version |
| Policy agreements (`api/agreements.py`, 0010, 0011) | requests, receipts, successor links | issue, renew, sign, revoke | unlocked read of the document, two rows per revocation | one receipt, one live successor, approved versions only |
| Tenant session (`api/database.py`) | pool, transaction settings | open, authorize, commit | late commit, pool limit | no request sees another tenant |
| Trust centers (`api/trust_centers.py`, 0013) | profile, domains, published metadata, cached pages | publish, register, verify, activate, disable, show, authorize TLS | count-then-insert, DNS lookup under the row lock, pages under way | only the owner of a zone is routed; a disabled hostname goes dark |
| Microsoft connections (`api/automation.py`, 0005) | connection rows | discover | calls to Microsoft under the row lock, rollback of the error status | health shown is that of the last discovery |
| Endpoint agents (`api/automation.py`, 0005, `agent/`) | tokens, agents, observations, credential files | enroll, check in, uninstall | lost answers, retries, torn files, token at its limit | a use is an agent; a saved credential is accepted; an observation is stored once |
| Responsibilities (`api/responsibilities.py`, 0012) | roles, holders, mappings | add, remove | inserts waiting for keys and for the document row | one accountable role, one primary holder |
| Assessments and reviews (`api/main.py`, 0002) | immutable rows | create, review | order of reviews | the latest review is the one shown |
| Preferences (`api/profile.py`, 0006) | one row per user | read, set | none | none worth a model |
| Web client (`apps/web/src`) | tenant shown, its data | switch tenant, load | answers out of order | data of the tenant shown |
| Configuration, framework packs, tools | none at run time | none | none | none worth a model |

Components share little: uploads create the lifecycle rows that artifacts update;
acceptances of invitations and signatures, holding the invitation or request, upsert the
`app_users` row of their email and hold it to their end; agreements, published metadata
and responsibility mappings name the document the library edits, and their inserts take
a key share of its row, which a revision excludes; all read memberships through
`tenant_session`, and append to `audit_events`.

## Modules

| Module | Models | State and its counterpart |
|---|---|---|
| `EvidenceLedger` | what uploads promise: an upload is opened for a body and becomes at most one record of that body | abstract |
| `EvidenceUpload` | `create_evidence_upload`, `complete_evidence_upload`, both adapters' `finalize_upload` and `set_retention`, `set_evidence_retention_policy` | `sessions`, `evidence`, `policy`: committed rows; `objects`: the bucket; `rowLock`: `for update of uploads`; `req`: the locals of a completion |
| `EvidenceUploadProofs` | theorems about `EvidenceUpload` | |
| `EvidenceCustody` | what custody of stored artifacts promises: a change and its ledger entry are one step, and only what was clean is handed out | abstract |
| `EvidenceArtifacts` | `record_evidence_scan_result`, `set_evidence_legal_hold`, `create_evidence_download` | `lifecycle`: rows; `trail`: recordings whose audit row has an id, in id order; `recording`, `download`: requests, and the URLs given out |
| `AccessGrants` | what invitations promise: access changes only in the step that accepts an open offer | abstract |
| `ClientAccess`, `MCClientAccess` | `_create_organization_invitation`, `revoke_…`, `accept_organization_invitation` and the functions of 0007 | `invitation`: rows and the requests that create them; `members`: memberships; `acceptance`, `revocation`: requests |
| `PolicyDocument` | what the library promises about one document | abstract |
| `PolicyLibrary` | `create_policy_document_version`, `set_policy_document_status` | `document`, `versions`: rows; `docLock`; `edit`: requests |
| `ReferenceRegister` | what references to a document promise: rows appear whole, beside none that excludes them, for roles there are, at an approved version, and only some kinds are removed | abstract |
| `PolicyReferences`, `MCPolicyReferences` | `create_trust_resource`, `delete_trust_resource`, creation of roles, holders and mappings, `delete_responsibility_assignment`, composed with `PolicyLibrary` | `rows`: committed rows; `request`: the requests that insert or delete them, with the index keys and key shares they hold |
| `AgreementLedger` | what requests to sign promise: issued whole, never changed, signed once or withdrawn, one standing renewal | abstract |
| `PolicyAgreements` | `create_…`, `renew_…`, `revoke_policy_agreement`, `acknowledge_policy_agreement` and the function of 0011 | `agreement`: rows with the clock folded into the status, and the requests that insert them; `receipts`; `signing`, `revocation` |
| `HostRegistry` | what custom domains promise: a hostname is claimed once, verified by its owner only, and dark once given up | abstract |
| `TrustCenter`, `MCTrustCenter` | `create_`, `verify_`, `activate_`, `disable_trust_domain`, `update_trust_center`, `get_public_trust_center` and the functions of 0013 | `domain`, `published`: rows; `request`: requests, with the row they hold; `answer`, `page`: pages sent and cached; `counted`: what a registration counted, kept for a property only |
| `AgentRegistry` | what enrollment and check-in promise: no more agents than uses, a credential on one device, an observation stored once and answered as stored | abstract |
| `EndpointAgents` | `exchange_agent_enrollment`, `agent_check_in`, the functions of 0005, `enroll`, `saveConfig`, `uninstall` and the check-in of the collector | `uses`, `agents`, `observations`: rows; `exchange`, `checkIn`: calls; `device`: collectors and their credential files |
| `MicrosoftConnection` | `discover_microsoft_scope` | `status`, `rowLock`; `discovery`: calls; `latest`: what the last one was answered |
| `…Proofs` | theorems about the module they are named after; `PolicyReferencesProofs` begins with those about `PolicyLibrary`, and `MicrosoftConnection` holds its own | |

`PolicyAgreements` is composed with `PolicyDocument`, not with `PolicyLibrary`:
the run `policy_library` and `LibraryImplementsDocument` show that the library
implements the document, so
agreements can be checked beside a document whose edits are single steps. (The
inserts of requests and receipts also take a key share of the document's row: they
wait for an open revision, and a revision for them, as `PolicyReferences` models it for
other rows. Here it is left out, since it only delays: a revision that waits for the
row holds nothing yet, and one that has it waits for nobody.)

A handler is one action per place where another process can act: a statement
that locks or may wait, a read whose result is used later, a call to the
provider, the response, the commit. Statements of one transaction whose effects
nobody can see before its commit are part of the commit action. Names follow the
code; `PROJECT.json` maps each definition to its lines. Definitions whose comment
starts with "A bug:" are not part of a model: each is the faulty form of the
definition below it that the property named in `PROJECT.json` must detect.

Abstractions used throughout: people, bodies, requests and policies are model
values; a secret is known to whoever holds it, so a token is the identity of its
row; time is an action that lets a row expire or come due; a request refused
before it changes anything (403, 404, 409, 422) is a request that does not
start, except where its refusal is what a property is about.

## Runs

| Run | Instance | Shows |
|---|---|---|
| `evidence_upload` | 1 session, 3 completions, 2 bodies, 2 policies, 3 users | all properties of the upload protocol, the ledger refinement and that completions end |
| `upload_repeat` | 2 completions | *violated*: `RepeatedCompletionAnswered` |
| `evidence_artifacts` | 1 stored artifact and 1 observation without, 3 recordings, 2 downloads | the ledger explains the row; the custody refinement: changes are audited in order and what is handed out was clean; no URL for long once the result is withdrawn |
| `artifact_audit` | 1 artifact | *violated*: `EveryGrantAudited` |
| `client_access` | 2 tenants, 2 invitations, 2 acceptances, 1 revocation, every initial membership of the guest | one outcome per invitation, the grants refinement; requests end, although acceptances hold an invitation while they wait for the row of the guest |
| `access_rewrite` | the same two invitations | *violated*: `ActiveAccessKept` |
| `policy_library` | 3 edits, 2 creations or removals of 5 rows (a publication, the accountability of two roles, a third role, its primary holder), 1 document | revisions kept and numbered, statuses belong to the current version, the document refinement; the register refinement: no row beside one that excludes it, roles and approved versions are there; everything ends |
| `policy_agreements` | 3 requests, 1 signing record used again and again, 1 revocation, 2 versions | one receipt, one live successor, approved versions only, from every interleaving of three requests |
| `agreements_end` | 2 requests to one recipient, for one version or two, 2 signings, 1 revocation | double presentation of a token, two signatures that wait for one `app_users` row; the ledger refinement; every call ends |
| `trust_center` | 2 tenants, 2 hostnames, limit 1, 2 requests used again and again | the owner of a zone is routed, the limit, the registry refinement, hostnames go dark, requests end |
| `endpoint_agents` | 2 devices, 3 exchanges of a token with 2 uses, 2 check-ins under one key | uses counted, credentials accepted, the registry refinement: observations stored once and answered as stored; calls end |
| `discovery_health` | 2 discoveries | *violated*: `FailureShown` |

### Why the bounds are enough

Rows of different sessions, artifacts, invitees or documents share no lock and
no key, so one of each, or two where the code compares them (tenants and invited
rows with one unique key), gives every interaction. Of the requests on one row at
most one is past its lock; three give one that finishes, one that waits behind it
and one that starts afterwards or after a crash. Three edits are an approval, a
revision and another approval around a publication, or two revisions with a decision
between them; two creations of any kinds meet every pair of index keys, and one may
be removed by the other. Three agreements are a signed one, its renewal, and a
competing renewal that is of the same version (index conflict) or of the next (link
conflict), before or after a revocation. Two requests to one person, of one version or
of two, and two signatures meet at every row and key calls can share, the signer's too. The limit of domains is one instead of
five, so that two registrations can pass it together and a third request, of a
record used again, finds it exceeded; two hostnames, of which another tenant wants
one, give a hostname registered by somebody who does not own it. Three exchanges are
one more than the token allows, and one device may retry what the other finds used
up. Bounds of the models themselves: `MaxVersion` and `MaxAgreements` in
`PolicyAgreements`, `MaxEdits` in `PolicyLibrary`, `MaxRequests` in
`PolicyReferences` (requests and edits begin in the order of their numbers, which
names them apart without symmetry) and `MaxUses`, which is the code's own column;
everywhere else the finite sets of requests bound the behaviours. Requests that are
refused may be repeated without bound in `EvidenceArtifacts` (downloads),
`PolicyAgreements` and `TrustCenter`, where completed ones may be repeated too; the
number of crashes is bounded by the number of requests, since each uses one up.

### Fairness

Liveness assumes weak fairness of the steps of a request that has started, and
nothing of clients, administrators, crashes or expiry (in `EvidenceArtifacts`
also that five minutes pass). The code justifies it: handlers have no loops, each
awaits calls that return or raise (`finalize_upload`, `set_retention` and the
database all do), and PostgreSQL wakes a waiter when the row or key it waits for
becomes free. Weak fairness of the lock step is enough where finitely many requests
contend. In `TrustCenter`, where requests begin again for ever, a waiter also needs
that PostgreSQL queues those who wait for a row: `SF` of `GetRow`, the one strong
fairness assumed. There an answer also arrives in its cache, and a cached page's
`max-age=300` ends. In `EndpointAgents` a collector goes on with the answer it has, or gives up after its 30 seconds; none is
obliged to call. `ReferencesEnd` is stated as `[]<>AtRest`: since every request and
edit is made once, the tenant comes to rest again whatever is under way.
`ClientAccess`, `PolicyAgreements` and `PolicyReferences` show with these that the waits
for row locks, index keys, key shares and people's rows make no cycle (`NoWaitChain`,
below, is the same for instances of every size). Deadlock checking is off where every
request may have been served.

### Where the code does not do what the repository says

* **Repeated completion** (`upload_repeat`). A completion that waited behind
  another one re-reads the session row, now completed, but keeps the null its left
  join found before; looking up evidence `null` it finds nothing and fails with an
  unhandled error (`api/main.py:673-701`). The test of the same flow calls it
  idempotent (`tests/test_evidence_upload_api.py:86`).
* **Download without audit row** (`artifact_audit`). The URL is sent before its
  audit row commits (`api/main.py:876-889`, `api/database.py:58-93`), against
  `docs/object-storage.md:7`.
* **Rewritten access** (`access_rewrite`). The member check and the insert of an
  invitation are two statements (`api/access.py:149-162`), and acceptance upserts
  the role (0007:147-153), against `tests/test_invitations.py:185`. What does hold
  is `StandingAccessNotInvited`: only access that an earlier invitation of the same
  person to the same tenant gave can be rewritten this way.
* **Health of a connection** (`discovery_health`). A failed discovery writes
  `status = 'error'` and then raises (`api/automation.py:219-224`); the exception rolls
  the transaction back, so the status never shows a failure, against
  `docs/integrations.md:122` and `:131` and the count of connections that "need
  attention" (`apps/web/src/App.tsx:406`).

In three places the code keeps less than a text says when requests overlap, and the
properties state what it does keep. "A public resource is pinned to the exact currently
approved policy version" (`docs/trust-centers.md:7`): a publication, like a request to
acknowledge, can be inserted for a version that was revised between the unlocked read
and the insert (`api/trust_centers.py:231`, `api/agreements.py:205-222`); the version was
approved at some time (`PublishedVersionApproved`, `PinnedVersionApproved`). "Limits each
tenant to five enabled domains" (`docs/trust-centers.md:18`): registrations that run
together can exceed the limit (`api/trust_centers.py:333`); a tenant that registers one
after the other never does (`LimitUnlessOverlapping`). "Disabling a domain immediately
removes it" (`docs/trust-centers.md:20`): pages under way or in a cache, for five minutes
at most, still show it; they disappear for good (`HostGoesDark`).

## Proofs

`EvidenceUploadProofs` proves, for any sets of uploads, completions, bodies, users
and policies, that `Spec` keeps the types, that evidence is verified, unique per
session and retained as recorded, that completions exclude each other
(`CompletionsExclude`), that the protocol implements `EvidenceLedger` (the initial
states map to initial states, and each step to `Open`, `Commit` or a stutter), and that
in no step does a committed row, or the object it names, change (`EvidenceStays`).

Assumptions, all checked by TLC too: staging and final keys are disjoint
(`KeysDisjoint`: the code gives them different prefixes and fresh UUIDs), the role
sets are nested as in `main.py:51-59`, the default policy is a policy, and `None` is
no other value.

None of these properties is inductive alone. `VerifiedEvidence` holds at a commit
only because the copy was verified at an earlier step, and stays true only because
nobody writes to a final key after its request has ended; `OneEvidencePerSession`
needs that a session found pending under the lock is still pending at the commit,
so that the holder of the row lock is alone. The inductive invariant `IInv` adds

* `ClaimInv`: exactly the sessions somebody holds a grant for have a claim;
* `LockInv`: the lock table and the requests past their select agree, in both
  directions;
* `WorkInv`: what each step of a completion has established: session open,
  inspected version matching, copy matching, retention applied;
* `StagingInv`: staged objects carry no retention;
* `RowInv`: an evidence row belongs to an ended request, names its own final key,
  and is the one its session names.

There is one lemma per action (`IInv` and the action give `IInv'`), with `RollbackInv` for
everything that ends a transaction without effect; `LedgerNext` does the same for the
refinement.

The other modules' safety is proved in the same way: `Inductive` says that `IInv`
holds in every reachable state, one lemma per action shows that it is kept, and each
theorem about a property follows from it. Where the table says "and", a second layer of
invariants is proved from the first (`[]IInv` and one more step lemma per action).

| Module of proofs | Invariants proved for every instance | What makes them inductive |
|---|---|---|
| `EvidenceArtifactsProofs` | `TypeOK`, `LedgerExplainsRow`, `DownloadNeedsCleanScan` | a recording past its update holds the row; so what is committed for the artifact of an answered recording is before it in the trail (`LastInv`), and the last committed one is the row's; a download that read a clean status, and a working URL, has a committed clean result (`ReadInv`) |
| `ClientAccessProofs` | `TypeOK`, `OneOutcome`, `StandingAccessNotInvited`, and `NoWaitChain`, `HeldInv` (a locked row is locked by a request past its update), `KeyInv` (one pending invitation per person and tenant) | a request past its update holds the row, which is still pending (`LockInv`); a request that took effect is the only one and the row says so (`AcceptedInv`, `RevokedInv`), from which the counts of `OneOutcome` follow; an acceptance past the upsert has the user its invitation names (`UserInv`) |
| `PolicyReferencesProofs` | of the library: `EveryRevisionKept`, `StatusIsOfCurrentVersion`; beside its references: `ReferencesTypeOK`, `OneOfEach`, `PublishedVersionApproved`, and `RowsNameRoles`, `NoWaitChain` | the number a lock holder goes by is what the current version gives it (`NumberInv`); index keys are held by committed and by open rows alike (`KeyInv`), a version read as approved stays one that was (`VersionInv`); a role that was read stays, since no removal names one (`RoleInv`, `RemovalInv`) |
| `PolicyAgreementsProofs` | `TypeOK`, `OneReceipt`, `OneSuccessor`, `PinnedVersionApproved`, `NoWaitChain`, and `OnePendingPerKey` | the lock table says exactly what issuing, signing and revoking calls hold, in both directions (`IssueLocks`, `SigningLocks`, `RevocationLocks`); a call that holds a request holds an open one; a renewal about to commit finds its predecessor unlinked (`LinkInv`), and what is renewed is due and stays so (`FieldInv`); a key is in one row, committed or not, and a renewal is for the recipient of its source (`KeyInv`, `RenewInv`) |
| `TrustCenterProofs` | `TypeOK`, `OwnerRouted`, `LimitUnlessOverlapping` | a held row is as its statement found it (`LockInv`); verified rows and pages read are of the owner (`OwnerInv`); the limit is strengthened to all subsets of a tenant's enabled domains (`OverlapInv`), since a disabled domain may have been the one that did not count the others |
| `EndpointAgentsProofs` | `TypeOK`, `UsesAreAgents`, `SavedCredentialAccepted`, `ObservedOnce`, and `HolderInv` (a credential is on one device at most) | the token row has one holder, who found a use left (`TokenInv`); agents are the committed exchanges, and collectors save only those (`AgentInv`); a key inserted by an open transaction is there once (`KeyInv`) |
| `MicrosoftConnection` | `TypeOK` | an answered discovery has written `healthy` |

`CompletionsExclude`, `DownloadNeedsCleanScan`, `OneOfEach`, `OnePendingPerKey`,
`ObservedOnce`, `RowsNameRoles` and the three `NoWaitChain` are stated beside their
theorems and are not checked again by a run.

### Refinements

Every abstract specification is implemented by its module for every instance. The
initial states map to initial states, and each proof goes action by action: the one
where the effect of a handler becomes visible maps to a step of the abstract
specification, every other one to a stutter.

| Abstract | The steps that count | What the invariant is needed for |
|---|---|---|
| `EvidenceLedger` | `CreateUpload`; the commit of a completion that was verified | the copy that was verified is the one the row names |
| `AccessGrants` | the commits of invitations, acceptances and revocations | the invitation is still the pending one the token named, with what it offered |
| `PolicyDocument` | the commit of an edit | the number chosen under the lock is the next one; what was approved stays approved |
| `ReferenceRegister` | the commits of creations, removals and edits | no committed or open row has one of the keys; the role read without a lock is there; the version read without a lock was approved; what is removed is of a kind that may be |
| `AgreementLedger` | the commits of requests, renewals, signatures and revocations; an approval of the document | nothing is pending under the key; who renews was asked and signed, and no other renewal stands; the token's request is still open |
| `HostRegistry` | the commits of domain requests; a profile saved; a page read, and its last copy gone | the row is still as the statement that locked it found it; a page shows what it read |
| `AgentRegistry` | the commits of exchanges and check-ins; a credential saved or removed by its collector | a use is left; the credential answered is on no other device; an answer names what is stored |
| `EvidenceCustody` | the commits of recordings; a download's check, its answer or end, and the expiry of its URL | the entry comes after every committed one of the artifact, and says what the row becomes |

Two of them are composed: `PolicyReferences` implements `PolicyLibrary`
(`ReferencesImplementLibrary`: each of its steps is one of the library or leaves it
alone), hence also `PolicyDocument`.

### What a step may never do

Action properties, proved from the invariants, mostly by way of the refinement (if
every abstract step has the property, so has every step of the code):

* `EvidenceStays`: committed evidence and its object never change, although clients may
  overwrite the staging key for ever and calls to the provider fail half-way.
* `LedgerAppendOnly`: a lifecycle row changes only together with an audit entry that is
  later than all earlier ones of the artifact, although ids are drawn before the commit
  and may be rolled back.
* `AccessByAcceptance`, `OutcomesFinal`: nobody's access changes but by an open
  invitation accepted in that step; an accepted or revoked invitation stays so.
* `RecordsStay` (of agreements): requests, receipts and withdrawals are never changed;
  (of agents): nor are agents, observations and what was acknowledged.
* `RowsStay`: what a publication or mapping pins stays as it was inserted; only a
  removal takes the row out, and roles and their holders never go.
* `StaysWithdrawn`, `StaysDark`: the safety halves of `WithdrawnForGood` and
  `HostGoesDark`. Once an artifact is not clean and nothing of it is under way or
  working, that stays so until a new clean result commits; once a hostname is disabled
  and shows nothing, it never shows anything again. That such a state is reached is
  liveness and stays with TLC.

### Waiting

`NoWaitChain`, of invitations, agreements and references, bounds how long a chain of
waits can be, so waits make no cycle. `WaitsFor` is defined for row locks, unique keys,
rows being deleted, key shares, the document row and the `app_users` row.

* Invitations: of three requests in a chain the last one waits for nobody. An acceptance
  that holds its invitation waits for the `app_users` row of its person, which another
  acceptance, in any tenant, has upserted (`ResolveUser`, 0007:137-145); that one takes
  no further lock. Creations, revocations and other acceptances wait behind it.
* Agreements: the same bound. A renewal that inserted its row waits for its predecessor,
  and a call that signs waits, holding its request, for the `app_users` row of its signer
  (`ResolveSigner`, 0011:127-135); the two never follow each other, because a predecessor
  was signed already.
* References: of four. An accountable mapping enters two unique indexes, one after the
  other (`EnterIndexes`, `EnterAccountable`), and then waits for a revision of the
  document; keys are taken in that order, and who has the document's row waits for nobody.

Each is about the requests of its own module. An acceptance and a signature of one
person, or signatures of requests for several documents, share the `app_users` row too:
whoever holds it waits at most for a revision, when it inserts the receipt, and a
revision that others wait for waits for nobody, so these waits only delay as well.

Their assumptions, named in the modules and evaluated by TLC in the runs: role sets are
nested, `None` (and `Torn`) are no other value, requests and calls are told apart
(`HoldersDisjoint`), bounds are positive, `"draft"` is a status a document may have
(`DraftKnown`), each hostname has one owner of its zone (`ZonesOwned`), and rows that
may be created are of the tables there are (`ItemsKnown`). None bounds an instance.

Only model-checked: all liveness (`CompletionsEnd`, `RecordingsEnd`, `RequestsEnd`,
`ReferencesEnd`, `CallsEnd`, `WithdrawnForGood`, `HostGoesDark`), which is out of the
prover's reach, as is `ENABLED` (so that `WaitsFor` describes every wait is by
definition, not by proof), and the four violations. Every safety property of a passing
run, and every refinement, is a theorem.

## Plan

Done, in this order: `EvidenceUpload` with its ledger and proofs; `EvidenceArtifacts`;
`ClientAccess` with `AccessGrants`; `PolicyLibrary` with `PolicyDocument`;
`PolicyAgreements`; `TrustCenter`; `EndpointAgents`; `PolicyReferences`, which composes
the responsibility matrix and published metadata with the library;
`MicrosoftConnection`; the proofs of their invariants; then the abstract
specifications of the other components (`HostRegistry`, `AgreementLedger`,
`AgentRegistry`, `EvidenceCustody`, `ReferenceRegister`) with the proofs that they are
implemented, the action properties and the absence of circular waits.

Next, in the proofs: that the routes a request takes through `TrustCenter` and
`EndpointAgents` wait in no chain either; the retention policy's part of
`EvidenceUpload` as an action property; fewer steps in the longest proofs
(`PolicyAgreementsProofs`, `EvidenceUploadProofs`), by lemmas about records that change
in one field.

What could follow in the models: `PolicyAgreements` composed with `PolicyReferences`
instead of the abstract document, with the key shares its inserts take; invitations and
agreements of one person, who share an `app_users` row, in one module; the audit ledger as a component of its own,
with the order of its ids across components.

## Not modelled

* **The pool and the settings of a reused connection** (`api/database.py`). They are
  `psycopg_pool`'s (`api/database.py:11`) and PostgreSQL's: `set_config(…, true)` ends with the transaction, so the
  code keeps no state there. Its transaction boundary, membership look-up and late
  commit are in every module.
* **Assessments, direct evidence records and reviews** (`api/main.py`, 0002). Single
  inserts of rows that never change; listings order them, and no request decides on what
  another one wrote.
* **Preferences** (`api/profile.py`). One upsert of one row that nothing else reads.
* **The web client** (`apps/web/src`). Its loads have no order among themselves, and no
  text of the repository says what it shows meanwhile.
* **Configuration, framework packs, tools, rendering of texts.** No state at run time.
* **Reads** that nothing is decided on: dashboards, listings, the responsibility matrix,
  inspection of a request to sign, the agent's local status page.

Hazards no property covers are listed in `PROJECT.json` with the reason. Two are facts
about the interface rather than the code: a decision names no version, so an approver
may approve a revision they have not read (`api/policies.py:432`), and a delayed scan
result overwrites a later one because results carry no order (`api/main.py:915`).
