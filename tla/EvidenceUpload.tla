--------------------------- MODULE EvidenceUpload ---------------------------
(***************************************************************************)
(* Direct evidence uploads: main.py's create_evidence_upload and           *)
(* complete_evidence_upload, the object-store adapters they call and the   *)
(* tables evidence_upload_sessions, evidence_observations and              *)
(* evidence_artifact_lifecycle they write.                                 *)
(*                                                                         *)
(* A completion is one HTTP request and one READ COMMITTED transaction.    *)
(* It is split where another request, the client or the object store can   *)
(* act: the row lock taken by "for update of uploads", each call to the    *)
(* provider, the response, and the commit.  FastAPI (0.141.1) runs the     *)
(* exit code of a dependency with yield, here the commit of                *)
(* tenant_session, after the response has been sent.  A row written by an  *)
(* open transaction is invisible to the others, so the inserts of a        *)
(* completion take effect at its Commit.                                   *)
(*                                                                         *)
(* A completion request names its own final object key and its own         *)
(* evidence row: both are fresh for every call.                            *)
(***************************************************************************)
EXTENDS FiniteSets

CONSTANTS
    Uploads,        \* upload sessions, each with its staging key
    Requests,       \* completion requests, each with its final key
    Bodies,         \* artifact bytes a client may send, with their size,
                    \* media type and metadata
    Users,          \* members of the tenant
    Submitters,     \* members whose role is in EVIDENCE_SUBMITTERS
    Admins,         \* members whose role is customer_admin or msp_admin
    Policies,       \* tenant retention policies: a lock mode with its days
    Unlocked,       \* the default policy: object_lock_mode "none"
    None            \* absent row, object, holder or field

ASSUME KeysDisjoint == Uploads \cap Requests = {}
ASSUME RolesNested == Admins \subseteq Submitters /\ Submitters \subseteq Users
ASSUME DefaultPolicy == Unlocked \in Policies

VARIABLES
    sessions,   \* rows of evidence_upload_sessions
    expired,    \* whether expires_at of a session has passed
    evidence,   \* rows of evidence_observations with their lifecycle row
    objects,    \* objects in the bucket, staging and final keys
    policy,     \* committed row of evidence_retention_policies
    rowLock,    \* the request holding FOR UPDATE on a session row
    req         \* completion requests: control state and locals

vars == <<sessions, expired, evidence, objects, policy, rowLock, req>>

-----------------------------------------------------------------------------
\* Types

\* "answered": the client has its grant, the insert is not committed yet;
\* "lost": the transaction ended without committing.
SessionStatus == {"absent", "answered", "lost", "pending", "completed"}

Session == [status : SessionStatus, creator : Users \cup {None},
            claim : Bodies \cup {None}, completed : Requests \cup {None}]

\* lock: the retention the provider enforces on the object.
Object == [body : Bodies, lock : Policies]

\* key is artifact_object_key, a final key and never a staging key.
Evidence == [upload : Uploads, key : Requests, claim : Bodies,
             policy : Policies, submittedBy : Users]

Holding == {"locked", "finalizing", "verified", "preserved", "retained",
            "answered"}
Steps == {"idle", "blocked", "done"} \cup Holding

\* created: 201 with new evidence; existing: 201 with the evidence of an
\* earlier completion; refused: 4xx, 502 or 503; failed: an unhandled 500.
Answers == {"none", "created", "existing", "refused", "failed"}

Request == [pc : Steps, upload : Uploads \cup {None},
            caller : Users \cup {None}, joined : BOOLEAN,
            policy : Policies, seen : Object \cup {None}, answer : Answers]

ASSUME NoneIsFresh ==
    /\ None \notin Uploads \cup Requests \cup Bodies \cup Users
    /\ None \notin Object \cup Evidence

NoSession == [status |-> "absent", creator |-> None, claim |-> None,
              completed |-> None]

IdleRequest == [pc |-> "idle", upload |-> None, caller |-> None,
                joined |-> FALSE, policy |-> Unlocked, seen |-> None,
                answer |-> "none"]

TypeOK ==
    /\ sessions \in [Uploads -> Session]
    /\ expired \in [Uploads -> BOOLEAN]
    /\ evidence \in [Requests -> Evidence \cup {None}]
    /\ objects \in [Uploads \cup Requests -> Object \cup {None}]
    /\ policy \in Policies
    /\ rowLock \in [Uploads -> Requests \cup {None}]
    /\ req \in [Requests -> Request]

Init ==
    /\ sessions = [u \in Uploads |-> NoSession]
    /\ expired = [u \in Uploads |-> FALSE]
    /\ evidence = [r \in Requests |-> None]
    /\ objects = [k \in Uploads \cup Requests |-> None]
    /\ policy = Unlocked
    /\ rowLock = [u \in Uploads |-> None]
    /\ req = [r \in Requests |-> IdleRequest]

-----------------------------------------------------------------------------
\* The session row

Visible(u) == sessions[u].status \in {"pending", "completed"}

\* create_evidence_upload answers with a signed PUT for the staging key
\* before its insert commits.
CreateUpload(u, w, b) ==
    /\ sessions[u].status = "absent"
    /\ w \in Submitters
    /\ sessions' = [sessions EXCEPT ![u] = [status |-> "answered",
                        creator |-> w, claim |-> b, completed |-> None]]
    /\ UNCHANGED <<expired, evidence, objects, policy, rowLock, req>>

\* The transaction of create_evidence_upload ends.
CommitUpload(u) ==
    /\ sessions[u].status = "answered"
    /\ \E status \in {"pending", "lost"} :
            sessions' = [sessions EXCEPT ![u].status = status]
    /\ UNCHANGED <<expired, evidence, objects, policy, rowLock, req>>

\* The authorization of a session lapses.
Expire(u) ==
    /\ sessions[u].status # "absent"
    /\ ~expired[u]
    /\ expired' = [expired EXCEPT ![u] = TRUE]
    /\ UNCHANGED <<sessions, evidence, objects, policy, rowLock, req>>

\* A client uses its signed PUT, any number of times and with any bytes.  The
\* provider checks the signature when the transfer starts, so bytes may still
\* land after the authorization has lapsed.
PutStaged(u) ==
    /\ sessions[u].status # "absent"
    /\ \E b \in Bodies :
            objects' = [objects EXCEPT ![u] = [body |-> b, lock |-> Unlocked]]
    /\ UNCHANGED <<sessions, expired, evidence, policy, rowLock, req>>

\* set_evidence_retention_policy: one upsert, seen by completions that read
\* the policy after it commits.
SetRetentionPolicy(w, p) ==
    /\ w \in Admins
    /\ policy' = p
    /\ UNCHANGED <<sessions, expired, evidence, objects, rowLock, req>>

-----------------------------------------------------------------------------
\* complete_evidence_upload

Ended(u, answer) ==
    [IdleRequest EXCEPT !.pc = "done", !.upload = u, !.answer = answer]

\* A bug: the connection goes back to the pool with its transaction open.
EndKeepingLock(r, answer) ==
    /\ req' = [req EXCEPT ![r] = Ended(req[r].upload, answer)]
    /\ UNCHANGED rowLock

\* The transaction of r ends, by commit or rollback, and its row lock with it.
End(r, answer) ==
    /\ req' = [req EXCEPT ![r] = Ended(req[r].upload, answer)]
    /\ rowLock' = [u \in Uploads |-> IF rowLock[u] = r THEN None ELSE rowLock[u]]

\* 403 and 404: the caller cannot submit, or no committed session is found.
SelectRefused(r, u, w) ==
    /\ req[r].pc = "idle"
    /\ w \notin Submitters \/ ~Visible(u)
    /\ req' = [req EXCEPT ![r] = Ended(u, "refused")]
    /\ UNCHANGED <<sessions, expired, evidence, objects, policy, rowLock>>

\* A bug: the row is selected without "for update".
SelectWithoutLock(r, u, w) ==
    /\ req[r].pc = "idle"
    /\ w \in Submitters
    /\ Visible(u)
    /\ req' = [req EXCEPT ![r] = [IdleRequest EXCEPT !.pc = "locked",
                    !.upload = u, !.caller = w,
                    !.joined = (sessions[u].status = "completed")]]
    /\ UNCHANGED <<sessions, expired, evidence, objects, policy, rowLock>>

\* The select locks the session row, or waits for the request that holds it.
\* joined: the statement's snapshot finds the evidence of a completed session
\* in its left join.  Waiting does not refresh it: PostgreSQL re-reads only
\* the locked row and keeps the other rows the snapshot found.
SelectUpload(r, u, w) ==
    /\ req[r].pc = "idle"
    /\ w \in Submitters
    /\ Visible(u)
    /\ req' = [req EXCEPT ![r] = [IdleRequest EXCEPT
                    !.pc = IF rowLock[u] = None THEN "locked" ELSE "blocked",
                    !.upload = u, !.caller = w,
                    !.joined = (sessions[u].status = "completed")]]
    /\ rowLock' = IF rowLock[u] = None THEN [rowLock EXCEPT ![u] = r]
                                       ELSE rowLock
    /\ UNCHANGED <<sessions, expired, evidence, objects, policy>>

\* The holder's transaction has ended; the waiting select returns its row.
AcquireRow(r) ==
    /\ req[r].pc = "blocked"
    /\ rowLock[req[r].upload] = None
    /\ rowLock' = [rowLock EXCEPT ![req[r].upload] = r]
    /\ req' = [req EXCEPT ![r].pc = "locked"]
    /\ UNCHANGED <<sessions, expired, evidence, objects, policy>>

MayComplete(r) ==
    \/ req[r].caller = sessions[req[r].upload].creator
    \/ req[r].caller \in Admins

\* 403 for another member's upload; 503 when the deployment has switched its
\* storage provider since the session was created; 410 after expires_at.
Refuse(r) ==
    /\ req[r].pc = "locked"
    /\ \/ ~MayComplete(r)
       \/ sessions[req[r].upload].status = "pending"
    /\ End(r, "refused")
    /\ UNCHANGED <<sessions, expired, evidence, objects, policy>>

\* The session is completed already: the handler reads the evidence the left
\* join named.  Without one that read returns no row and the handler fails.
ReturnExisting(r) ==
    /\ req[r].pc = "locked"
    /\ MayComplete(r)
    /\ sessions[req[r].upload].status = "completed"
    /\ IF req[r].joined
          THEN /\ req' = [req EXCEPT ![r].pc = "answered",
                        ![r].answer = "existing"]
               /\ UNCHANGED rowLock
          ELSE End(r, "failed")
    /\ UNCHANGED <<sessions, expired, evidence, objects, policy>>

\* The session is open: the tenant's retention policy is read, without a lock.
Admit(r) ==
    /\ req[r].pc = "locked"
    /\ MayComplete(r)
    /\ sessions[req[r].upload].status = "pending"
    /\ ~expired[req[r].upload]
    /\ req' = [req EXCEPT ![r] = [IdleRequest EXCEPT !.pc = "finalizing",
                    !.upload = req[r].upload, !.policy = policy]]
    /\ UNCHANGED <<sessions, expired, evidence, objects, policy, rowLock>>

\* What the session requires of an object: the hash of the bytes read, their
\* size, the media type and the metadata are those it authorized.
Matches(object, u) ==
    /\ object # None
    /\ object.body = sessions[u].claim

\* A bug: metadata the client supplied is taken for the hash of the bytes.
InspectMetadata(r) ==
    /\ req[r].pc = "finalizing"
    /\ objects[req[r].upload] # None
    /\ req' = [req EXCEPT ![r].pc = "verified",
                          ![r].seen = objects[req[r].upload]]
    /\ UNCHANGED <<sessions, expired, evidence, objects, policy, rowLock>>

\* HEAD and GET of the staged object, the GET conditioned on the entity tag of
\* the HEAD, so both see one version; seen is that version.
Inspect(r) ==
    /\ req[r].pc = "finalizing"
    /\ Matches(objects[req[r].upload], req[r].upload)
    /\ req' = [req EXCEPT ![r].pc = "verified",
                          ![r].seen = objects[req[r].upload]]
    /\ UNCHANGED <<sessions, expired, evidence, objects, policy, rowLock>>

\* The provider's copy of the staged object to the final key of r.
CopyOf(r) == [objects EXCEPT ![r] = objects[req[r].upload]]

\* A bug: the copy is not conditioned on the inspected entity tag.
PreserveUnconditionally(r) ==
    /\ req[r].pc = "verified"
    /\ objects' = CopyOf(r)
    /\ req' = [req EXCEPT ![r].pc = "preserved", ![r].seen = None]
    /\ UNCHANGED <<sessions, expired, evidence, policy, rowLock>>

\* The copy is conditioned on the entity tag that was inspected.
Preserve(r) ==
    /\ req[r].pc = "verified"
    /\ objects[req[r].upload] = req[r].seen
    /\ objects' = CopyOf(r)
    /\ req' = [req EXCEPT ![r].pc = "preserved", ![r].seen = None]
    /\ UNCHANGED <<sessions, expired, evidence, policy, rowLock>>

\* The provider's retention on the final object of r.
RetentionOn(r) == [objects EXCEPT ![r].lock = req[r].policy]

\* A bug: retention is put on the staged object.
RetainStaged(r) ==
    /\ req[r].pc = "preserved"
    /\ objects' = [objects EXCEPT ![req[r].upload].lock = req[r].policy]
    /\ req' = [req EXCEPT ![r].pc = "retained"]
    /\ UNCHANGED <<sessions, expired, evidence, policy, rowLock>>

\* set_retention, called only when the policy read at admission locks objects.
SetRetention(r) ==
    /\ req[r].pc = "preserved"
    /\ objects' = IF req[r].policy = Unlocked THEN objects ELSE RetentionOn(r)
    /\ req' = [req EXCEPT ![r].pc = "retained"]
    /\ UNCHANGED <<sessions, expired, evidence, policy, rowLock>>

\* What the provider may have done to the bucket in a call that did not return:
\* nothing, or all of it.
InFlight(r) ==
    \/ objects' = objects
    \/ /\ req[r].pc = "verified"
       /\ objects[req[r].upload] = req[r].seen
       /\ objects' = CopyOf(r)
    \/ /\ req[r].pc = "preserved"
       /\ req[r].policy # Unlocked
       /\ objects' = RetentionOn(r)

\* 409 or 502: the staged object is missing, does not match or changed since
\* it was inspected, or the provider failed.  The transaction rolls back; a
\* copy already made stays behind under its final key.
FinalizeFails(r) ==
    /\ req[r].pc \in {"finalizing", "verified", "preserved"}
    /\ InFlight(r)
    /\ End(r, "refused")
    /\ UNCHANGED <<sessions, expired, evidence, policy>>

\* The inserts and the session update run, and the client gets its 201.  The
\* trigger on evidence_upload_sessions lets only a pending row be completed.
Answer(r) ==
    /\ req[r].pc = "retained"
    /\ sessions[req[r].upload].status = "pending"
    /\ req' = [req EXCEPT ![r].pc = "answered", ![r].answer = "created"]
    /\ UNCHANGED <<sessions, expired, evidence, objects, policy, rowLock>>

\* A bug: the evidence row names the key the client can write to.
EvidenceAtStagingKey(r) ==
    [upload |-> req[r].upload, key |-> req[r].upload,
     claim |-> sessions[req[r].upload].claim, policy |-> req[r].policy,
     submittedBy |-> sessions[req[r].upload].creator]

\* The rows inserted by r: the observation and its lifecycle row.
EvidenceOf(r) ==
    [upload |-> req[r].upload, key |-> r,
     claim |-> sessions[req[r].upload].claim, policy |-> req[r].policy,
     submittedBy |-> sessions[req[r].upload].creator]

\* The transaction commits after the response.
Commit(r) ==
    /\ req[r].pc = "answered"
    /\ IF req[r].answer = "created"
          THEN /\ evidence' = [evidence EXCEPT ![r] = EvidenceOf(r)]
               /\ sessions' = [sessions EXCEPT ![req[r].upload].status = "completed",
                                              ![req[r].upload].completed = r]
          ELSE UNCHANGED <<evidence, sessions>>
    /\ End(r, req[r].answer)
    /\ UNCHANGED <<expired, objects, policy>>

\* The API process or its database connection dies: the server rolls back.
Crash(r) ==
    /\ req[r].pc \in Holding \cup {"blocked"}
    /\ InFlight(r)
    /\ End(r, req[r].answer)
    /\ UNCHANGED <<sessions, expired, evidence, policy>>

-----------------------------------------------------------------------------
\* A request that has started runs to its end: Serve is what the API, the
\* database and the provider do for it.
Serve(r) ==
    \/ AcquireRow(r) \/ Refuse(r) \/ ReturnExisting(r) \/ Admit(r)
    \/ Inspect(r) \/ Preserve(r) \/ SetRetention(r) \/ FinalizeFails(r)
    \/ Answer(r) \/ Commit(r)

Start(r) == \E u \in Uploads, w \in Users :
                SelectRefused(r, u, w) \/ SelectUpload(r, u, w)

Next ==
    \/ \E u \in Uploads :
          \/ \E w \in Users, b \in Bodies : CreateUpload(u, w, b)
          \/ CommitUpload(u)
          \/ Expire(u)
          \/ PutStaged(u)
    \/ \E w \in Users, p \in Policies : SetRetentionPolicy(w, p)
    \/ \E r \in Requests : Start(r) \/ Serve(r) \/ Crash(r)

Spec == Init /\ [][Next]_vars

\* Every handler step is eventually taken: a call to the database or to the
\* provider returns or raises, and a waiter gets a row lock that stays free.
Fairness == \A r \in Requests : WF_vars(Serve(r))

FairSpec == Spec /\ Fairness

-----------------------------------------------------------------------------
\* Properties

\* "Evidence is committed only after that process succeeds": the object named
\* by every evidence row holds the bytes the session authorized, whatever the
\* client sent to the staging key before, during or after the completion.
VerifiedEvidence ==
    \A r \in Requests : evidence[r] # None =>
        Matches(objects[evidence[r].key], evidence[r].upload)

\* "One immutable observation": concurrent, repeated and interrupted
\* completions leave at most one evidence row for a session, and a session is
\* completed exactly when it names that row.
OneEvidencePerSession ==
    /\ \A r, s \in Requests :
          evidence[r] # None /\ evidence[s] # None /\ r # s =>
              evidence[r].upload # evidence[s].upload
    /\ \A u \in Uploads :
          IF sessions[u].status = "completed"
          THEN /\ sessions[u].completed \in Requests
               /\ evidence[sessions[u].completed] # None
               /\ evidence[sessions[u].completed].upload = u
          ELSE \A r \in Requests : evidence[r] # None => evidence[r].upload # u

\* The retention a lifecycle row records is the one the provider enforces on
\* the object, although the tenant's policy may change and set_retention may
\* fail while the completion runs.
RetentionEnforced ==
    \A r \in Requests : evidence[r] # None =>
        objects[evidence[r].key].lock = evidence[r].policy

\* "Completed idempotently" (tests/test_evidence_upload_api.py): a completion of
\* a session that another request completed is answered with its evidence,
\* never with an unhandled error.
RepeatedCompletionAnswered == \A r \in Requests : req[r].answer # "failed"

\* A completion that was started ends and gives its row lock back, whatever
\* the other completions of the session do.
CompletionsEnd == \A r \in Requests : req[r].pc # "idle" ~> req[r].pc = "done"

\* The abstract ledger: an upload is recorded when its session is completed,
\* as the bytes and the lock of the object its evidence row names.
LedgerClaim == [u \in Uploads |-> sessions[u].claim]
LedgerRecord ==
    [u \in Uploads |->
        IF sessions[u].status = "completed"
        THEN LET object == objects[evidence[sessions[u].completed].key]
             IN  [body |-> object.body, policy |-> object.lock]
        ELSE None]

Ledger == INSTANCE EvidenceLedger WITH claim <- LedgerClaim,
                                       ledger <- LedgerRecord

\* The protocol implements the ledger: a record appears once, with the claimed
\* bytes, and no later step of a client, a completion or the provider changes
\* what the record's object holds or how it is locked.
ImplementsLedger == Ledger!Spec

-----------------------------------------------------------------------------
\* The inductive invariant

Active(r) == req[r].pc \in Holding \cup {"blocked"}

\* The copy of r is made and its transaction may still commit.
Preserved(r) ==
    \/ req[r].pc \in {"preserved", "retained"}
    \/ req[r].pc = "answered" /\ req[r].answer = "created"

\* Exactly the sessions that a client holds a grant for are authorized for some
\* body.
ClaimInv ==
    \A u \in Uploads :
        IF sessions[u].status = "absent"
        THEN sessions[u].claim = None
        ELSE sessions[u].claim \in Bodies /\ sessions[u].creator \in Users

\* Requests that hold a row lock are those the lock table names.
LockInv ==
    /\ \A r \in Requests : Active(r) =>
          req[r].upload \in Uploads /\ Visible(req[r].upload)
    /\ \A r \in Requests : req[r].pc \in Holding => rowLock[req[r].upload] = r
    /\ \A u \in Uploads : rowLock[u] # None =>
          req[rowLock[u]].pc \in Holding /\ req[rowLock[u]].upload = u

\* What a completion has established at each of its steps: the session is
\* still open, the inspected version and the copy match it, the copy carries
\* the retention.
WorkInv ==
    \A r \in Requests :
        /\ req[r].pc \in {"finalizing", "verified"} \/ Preserved(r) =>
              sessions[req[r].upload].status = "pending"
        /\ req[r].pc = "verified" =>
              Matches(req[r].seen, req[r].upload) /\ req[r].seen.lock = Unlocked
        /\ Preserved(r) => Matches(objects[r], req[r].upload)
        /\ Preserved(r) =>
              objects[r].lock = IF req[r].pc = "preserved" THEN Unlocked
                                                           ELSE req[r].policy

StagingInv == \A u \in Uploads : objects[u] # None => objects[u].lock = Unlocked

\* An evidence row is that of a request which has ended, and of the session
\* that names it.
RowInv ==
    /\ \A r \in Requests : evidence[r] # None =>
          /\ req[r].pc = "done"
          /\ evidence[r].key = r
          /\ Matches(objects[r], evidence[r].upload)
          /\ objects[r].lock = evidence[r].policy
          /\ sessions[evidence[r].upload].status = "completed"
          /\ sessions[evidence[r].upload].completed = r
    /\ \A u \in Uploads : sessions[u].status = "completed" =>
          /\ sessions[u].completed \in Requests
          /\ evidence[sessions[u].completed] # None
          /\ evidence[sessions[u].completed].upload = u

IInv == TypeOK /\ ClaimInv /\ LockInv /\ WorkInv /\ StagingInv /\ RowInv
=============================================================================
