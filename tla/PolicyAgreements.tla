--------------------------- MODULE PolicyAgreements ---------------------------
(***************************************************************************)
(* Requests to acknowledge one policy document: agreements.py's            *)
(* create_policy_agreement, renew_policy_agreement,                        *)
(* revoke_policy_agreement and acknowledge_policy_agreement, the function  *)
(* of migration 0011 and the tables policy_agreement_requests and          *)
(* policy_acknowledgements.                                                *)
(*                                                                         *)
(* The document beside them is PolicyDocument, which PolicyLibrary         *)
(* implements.  Issuing and revoking run in tenant_session, which answers  *)
(* before it commits; an acknowledgement opens its own transaction and     *)
(* commits before it answers.                                              *)
(***************************************************************************)
EXTENDS Naturals, FiniteSets

CONSTANTS
    MaxAgreements,  \* bound on the requests that are issued or tried
    Recipients,     \* people asked to sign, by normalized email address
    Signings,       \* acknowledgement calls
    Revocations,    \* revocation calls
    Users,          \* members of the tenant
    Admins,         \* members whose role is in AGREEMENT_ADMINS
    Decisions,      \* statuses of the document
    MaxVersion,     \* bound on the versions of the document
    None            \* absent row, holder or field

\* Requests, each with its token, taken in the order of their numbers.  A call
\* that is refused leaves its number, or its record, to the next call; one that
\* crashes does not, so that there is a bound on the crashes.
Agreements == 1 .. MaxAgreements

ASSUME AdminsKnown == Admins \subseteq Users
ASSUME BoundsArePositive == MaxAgreements \in Nat \ {0} /\ MaxVersion \in Nat \ {0}
ASSUME DraftKnown == "draft" \in Decisions
ASSUME HoldersDisjoint ==
    /\ Agreements \cap (Signings \cup Revocations) = {}
    /\ Signings \cap Revocations = {}
    /\ None \notin Agreements \cup Signings \cup Revocations \cup Recipients

VARIABLES
    document,       \* committed row of policy_documents
    approved,       \* versions that were approved at some time
    agreement,      \* rows of policy_agreement_requests
    receipts,       \* committed rows of policy_acknowledgements
    rowLock,        \* holder of the row of a committed request
    signing,        \* acknowledgement calls
    revocation      \* revocation calls

docVars == <<document, approved>>
vars == <<document, approved, agreement, receipts, rowLock, signing, revocation>>

Document == INSTANCE PolicyDocument

-----------------------------------------------------------------------------
\* "read": an approved version was read; "inserted": the row of a renewal is
\* inserted; "answered": the token is sent, nothing is committed; "lost": rolled
\* back by a crash.
InProgress == {"read", "inserted", "answered"}

\* The column status with the clock: "pending" rows turn "expired" as expires_at
\* passes, "acknowledged" ones "due" as the prompt window opens.
Open == {"pending", "expired"}
Signed == {"acknowledged", "due"}
Issued == Open \cup Signed \cup {"revoked"}

\* source: the request this one renews.  successor: superseded_by_request_id.
Agreement == [status : {"absent", "lost"} \cup InProgress \cup Issued, recipient : Recipients \cup {None},
              version : 0 .. MaxVersion, recurring : BOOLEAN,
              source : Agreements \cup {None}, successor : Agreements \cup {None}]

NoAgreement == [status |-> "absent", recipient |-> None, version |-> 0,
                recurring |-> FALSE, source |-> None, successor |-> None]

\* fresh: the request had not expired at the transaction's now().
\* signer: signer_id, None before the upsert of app_users.
Signing == [pc : {"idle", "begun", "consumed", "ended"},
            agreement : Agreements \cup {None}, fresh : BOOLEAN,
            signer : Recipients \cup {None}]

\* "taken": the request is updated, its predecessor is not; "answered": 204 sent.
Revocation == [pc : {"idle", "begun", "taken", "answered", "revoked", "ended"},
               agreement : Agreements \cup {None}]

Receipt == [agreement : Agreements, version : 1 .. MaxVersion,
            signer : Recipients]

TypeOK ==
    /\ document \in [current : 1 .. MaxVersion, status : Decisions]
    /\ approved \subseteq 1 .. MaxVersion
    /\ agreement \in [Agreements -> Agreement]
    /\ receipts \subseteq Receipt
    /\ rowLock \in [Agreements -> Agreements \cup Signings \cup Revocations \cup {None}]
    /\ signing \in [Signings -> Signing]
    /\ revocation \in [Revocations -> Revocation]

IdleSigning == [pc |-> "idle", agreement |-> None, fresh |-> FALSE, signer |-> None]
IdleRevocation == [pc |-> "idle", agreement |-> None]

Init ==
    /\ Document!Init
    /\ agreement = [g \in Agreements |-> NoAgreement]
    /\ receipts = {}
    /\ rowLock = [g \in Agreements |-> None]
    /\ signing = [s \in Signings |-> IdleSigning]
    /\ revocation = [v \in Revocations |-> IdleRevocation]

\* The document is revised and decided upon beside the agreements.
EditDocument ==
    /\ \/ document.current < MaxVersion /\ Document!Revise
       \/ \E decision \in Decisions : Document!Decide(decision)
    /\ UNCHANGED <<agreement, receipts, rowLock, signing, revocation>>

-----------------------------------------------------------------------------
\* A bug: a dead connection's row lock outlives it.
StillLocked(t) == rowLock

\* Row locks after the transaction of t has ended.
Unlocked(t) == [g \in Agreements |-> IF rowLock[g] = t THEN None ELSE rowLock[g]]

\* policy_agreement_requests_pending_recipient_unique
SameKey(g, h) == /\ agreement[g].version = agreement[h].version
                 /\ agreement[g].recipient = agreement[h].recipient

Unissued(g) ==
    /\ agreement[g].status = "absent"
    /\ \A h \in 1 .. g - 1 : agreement[h].status # "absent"

\* The call is refused, with 409, before anybody has seen a token.
Refused(g) == [agreement EXCEPT ![g] = NoAgreement]

Issuing == <<docVars, receipts, signing, revocation>>

\* create_policy_agreement reads the document with its current version, without
\* a lock, and goes on only when it is approved.
ReadApproved(g, w, p, recurring) ==
    /\ Unissued(g)
    /\ w \in Admins
    /\ document.status = "approved"
    /\ agreement' = [agreement EXCEPT ![g] = [NoAgreement EXCEPT
            !.status = "read", !.recipient = p, !.version = document.current,
            !.recurring = recurring]]
    /\ UNCHANGED <<Issuing, rowLock>>

\* renew_policy_agreement reads the signed recurring request h, whose
\* prompt window is open and which has no successor, with the document.
ReadForRenewal(g, w, h) ==
    /\ Unissued(g)
    /\ w \in Admins
    /\ agreement[h].status = "due"
    /\ agreement[h].successor = None
    /\ document.status = "approved"
    /\ agreement' = [agreement EXCEPT ![g] = [NoAgreement EXCEPT
            !.status = "read", !.recipient = agreement[h].recipient,
            !.version = document.current, !.recurring = TRUE, !.source = h]]
    /\ UNCHANGED <<Issuing, rowLock>>

\* A bug: a status the schema does not know.
AfterInsertSent(g) == IF agreement[g].source = None THEN "sent" ELSE "inserted"

AfterInsert(g) == IF agreement[g].source = None THEN "answered" ELSE "inserted"

\* A bug: the insert pins whatever version is current by now.
InsertCurrent(g) ==
    /\ agreement[g].status = "read"
    /\ \A h \in Agreements \ {g} :
            agreement[h].version = document.current
            /\ agreement[h].recipient = agreement[g].recipient
            => agreement[h].status \notin {"inserted", "answered"} \cup Open
    /\ agreement' = [agreement EXCEPT ![g].status = AfterInsert(g),
                                      ![g].version = document.current]
    /\ UNCHANGED <<Issuing, rowLock>>

\* The insert passes the unique index.  It waits for an open transaction that
\* inserted, or is changing, a pending row of its key.
Insert(g) ==
    /\ agreement[g].status = "read"
    /\ \A h \in Agreements \ {g} : SameKey(g, h) =>
            agreement[h].status \notin {"inserted", "answered"} \cup Open
    /\ agreement' = [agreement EXCEPT ![g].status = AfterInsert(g)]
    /\ UNCHANGED <<Issuing, rowLock>>

\* UniqueViolation: 409.  The row of an expired request is pending too.
Duplicate(g) ==
    /\ agreement[g].status = "read"
    /\ \E h \in Agreements : /\ SameKey(g, h)
                             /\ agreement[h].status \in Open
                             /\ rowLock[h] = None
    /\ agreement' = Refused(g)
    /\ UNCHANGED <<Issuing, rowLock>>

\* A bug: the link is set whether or not there is one already.
SupersedeAgain(g) ==
    /\ agreement[g].status = "inserted"
    /\ rowLock[agreement[g].source] = None
    /\ rowLock' = [rowLock EXCEPT ![agreement[g].source] = g]
    /\ agreement' = [agreement EXCEPT ![g].status = "answered"]
    /\ UNCHANGED Issuing

\* The predecessor is updated where superseded_by_request_id is null.
Supersede(g) ==
    /\ agreement[g].status = "inserted"
    /\ rowLock[agreement[g].source] = None
    /\ agreement[agreement[g].source].successor = None
    /\ rowLock' = [rowLock EXCEPT ![agreement[g].source] = g]
    /\ agreement' = [agreement EXCEPT ![g].status = "answered"]
    /\ UNCHANGED Issuing

\* 409: the update finds a predecessor that was renewed meanwhile.
RenewedAlready(g) ==
    /\ agreement[g].status = "inserted"
    /\ rowLock[agreement[g].source] = None
    /\ agreement[agreement[g].source].successor # None
    /\ agreement' = Refused(g)
    /\ UNCHANGED <<Issuing, rowLock>>

\* The request, its link and its audit row become visible.
CommitIssue(g) ==
    /\ agreement[g].status = "answered"
    /\ agreement' = [h \in Agreements |->
            IF h = g THEN [agreement[g] EXCEPT !.status = "pending"]
            ELSE IF h = agreement[g].source THEN [agreement[h] EXCEPT !.successor = g]
            ELSE agreement[h]]
    /\ rowLock' = Unlocked(g)
    /\ UNCHANGED Issuing

\* The issuing process or its connection dies.
CrashIssue(g) ==
    /\ agreement[g].status \in {"read", "inserted", "answered"}
    /\ agreement' = [agreement EXCEPT ![g] = [NoAgreement EXCEPT !.status = "lost"]]
    /\ rowLock' = Unlocked(g)
    /\ UNCHANGED Issuing

Expire(g) ==
    /\ agreement[g].status = "pending"
    /\ agreement' = [agreement EXCEPT ![g].status = "expired"]
    /\ UNCHANGED <<Issuing, rowLock>>

\* prompt_before_days before next_review_at.
ComeDue(g) ==
    /\ agreement[g].status = "acknowledged"
    /\ agreement[g].recurring
    /\ agreement' = [agreement EXCEPT ![g].status = "due"]
    /\ UNCHANGED <<Issuing, rowLock>>

-----------------------------------------------------------------------------
\* Acknowledgement by a holder of the token

Present(s, g) ==
    /\ signing[s].pc = "idle"
    /\ agreement[g].status \in Issued \cup {"answered"}
    /\ signing' = [signing EXCEPT ![s] = [IdleSigning EXCEPT
            !.pc = "begun", !.agreement = g, !.fresh = agreement[g].status # "expired"]]
    /\ UNCHANGED <<docVars, agreement, receipts, rowLock, revocation>>

\* A bug: the status found before the wait for the row is not looked at again.
ConsumeUnchecked(s) ==
    LET g == signing[s].agreement
    IN  /\ signing[s].pc = "begun"
        /\ signing[s].fresh
        /\ rowLock[g] = None
        /\ agreement[g].status \in Issued
        /\ rowLock' = [rowLock EXCEPT ![g] = s]
        /\ signing' = [signing EXCEPT ![s].pc = "consumed"]
        /\ UNCHANGED <<docVars, agreement, receipts, revocation>>

\* The conditional update locks the row; one that waited evaluates its condition
\* on the row the other transaction left.
Consume(s) ==
    LET g == signing[s].agreement
    IN  /\ signing[s].pc = "begun"
        /\ signing[s].fresh
        /\ rowLock[g] = None
        /\ agreement[g].status \in Open
        /\ rowLock' = [rowLock EXCEPT ![g] = s]
        /\ signing' = [signing EXCEPT ![s].pc = "consumed"]
        /\ UNCHANGED <<docVars, agreement, receipts, revocation>>

\* 401: the update finds no row that is committed, pending and unexpired.
RefuseSigning(s) ==
    LET g == signing[s].agreement
    IN  /\ signing[s].pc = "begun"
        /\ \/ ~signing[s].fresh
           \/ rowLock[g] = None /\ agreement[g].status \notin Open
        /\ signing' = [signing EXCEPT ![s] = IdleSigning]
        /\ UNCHANGED <<docVars, agreement, receipts, rowLock, revocation>>

\* The calls whose open transaction has upserted the person's app_users row.
SignerHolders(p) == {t \in Signings : signing[t].pc = "consumed" /\ signing[t].signer = p}

\* The upsert of app_users: it waits for an open transaction that has inserted or
\* updated the row of the same email, while it holds the request.
ResolveSigner(s) ==
    LET p == agreement[signing[s].agreement].recipient
    IN  /\ signing[s].pc = "consumed"
        /\ signing[s].signer = None
        /\ SignerHolders(p) = {}
        /\ signing' = [signing EXCEPT ![s].signer = p]
        /\ UNCHANGED <<docVars, agreement, receipts, rowLock, revocation>>

\* A bug: the receipt names the version that is current when it is signed.
ReceiptForCurrent(s) ==
    LET g == signing[s].agreement
    IN  [agreement |-> g, version |-> document.current,
         signer |-> agreement[g].recipient]

\* The receipt repeats the version, and the hash, of the request.
ReceiptOf(s) ==
    LET g == signing[s].agreement
    IN  [agreement |-> g, version |-> agreement[g].version,
         signer |-> agreement[g].recipient]

\* The receipt and the audit row are written for the signer found, and all of it
\* commits with the consumed request.  policy_acknowledgements allows one receipt for a
\* request.
CommitSigning(s) ==
    /\ signing[s].pc = "consumed"
    /\ signing[s].signer # None
    /\ \A x \in receipts : x.agreement # signing[s].agreement
    /\ agreement' = [agreement EXCEPT ![signing[s].agreement].status = "acknowledged"]
    /\ receipts' = receipts \cup {ReceiptOf(s)}
    /\ rowLock' = Unlocked(s)
    /\ signing' = [signing EXCEPT ![s] = IdleSigning]
    /\ UNCHANGED <<docVars, revocation>>

CrashSigning(s) ==
    /\ signing[s].pc \in {"begun", "consumed"}
    /\ rowLock' = Unlocked(s)
    /\ signing' = [signing EXCEPT ![s] = [IdleSigning EXCEPT !.pc = "ended"]]
    /\ UNCHANGED <<docVars, agreement, receipts, revocation>>

-----------------------------------------------------------------------------
\* Revocation by an administrator

BeginRevocation(v, w, g) ==
    /\ revocation[v].pc = "idle"
    /\ w \in Admins
    /\ agreement[g].status \in Issued \cup {"answered"}
    /\ revocation' = [revocation EXCEPT ![v] = [pc |-> "begun", agreement |-> g]]
    /\ UNCHANGED <<docVars, agreement, receipts, rowLock, signing>>

\* The conditional update locks a pending row, expired or not.
Revoke(v) ==
    LET g == revocation[v].agreement
    IN  /\ revocation[v].pc = "begun"
        /\ rowLock[g] = None
        /\ agreement[g].status \in Open
        /\ rowLock' = [rowLock EXCEPT ![g] = v]
        /\ revocation' = [revocation EXCEPT ![v].pc = "taken"]
        /\ UNCHANGED <<docVars, agreement, receipts, signing>>

\* 404: the update finds no pending row.
RefuseRevocation(v) ==
    LET g == revocation[v].agreement
    IN  /\ revocation[v].pc = "begun"
        /\ rowLock[g] = None
        /\ agreement[g].status \notin Open
        /\ revocation' = [revocation EXCEPT ![v] = IdleRevocation]
        /\ UNCHANGED <<docVars, agreement, receipts, rowLock, signing>>

\* The requests that name g as their successor.
Predecessors(g) == {h \in Agreements : agreement[h].successor = g}

\* The second update locks the predecessor of the revoked request, if it has one;
\* 204 is sent.
ClearPredecessor(v) ==
    LET P == Predecessors(revocation[v].agreement)
    IN  /\ revocation[v].pc = "taken"
        /\ \A h \in P : rowLock[h] = None
        /\ rowLock' = [h \in Agreements |-> IF h \in P THEN v ELSE rowLock[h]]
        /\ revocation' = [revocation EXCEPT ![v].pc = "answered"]
        /\ UNCHANGED <<docVars, agreement, receipts, signing>>

CommitRevocation(v) ==
    LET g == revocation[v].agreement
    IN  /\ revocation[v].pc = "answered"
        /\ agreement' = [h \in Agreements |->
                IF h = g THEN [agreement[h] EXCEPT !.status = "revoked"]
                ELSE IF h \in Predecessors(g)
                     THEN [agreement[h] EXCEPT !.successor = None]
                ELSE agreement[h]]
        /\ rowLock' = Unlocked(v)
        /\ revocation' = [revocation EXCEPT ![v].pc = "revoked"]
        /\ UNCHANGED <<docVars, receipts, signing>>

CrashRevocation(v) ==
    /\ revocation[v].pc \in {"begun", "taken", "answered"}
    /\ rowLock' = Unlocked(v)
    /\ revocation' = [revocation EXCEPT ![v] = [IdleRevocation EXCEPT !.pc = "ended"]]
    /\ UNCHANGED <<docVars, agreement, receipts, signing>>

-----------------------------------------------------------------------------
Issue(g) == \/ Insert(g) \/ Duplicate(g) \/ Supersede(g) \/ RenewedAlready(g)
            \/ CommitIssue(g)

Sign(s) == Consume(s) \/ RefuseSigning(s) \/ ResolveSigner(s) \/ CommitSigning(s)

Withdraw(v) == \/ Revoke(v) \/ RefuseRevocation(v) \/ ClearPredecessor(v)
               \/ CommitRevocation(v)

Next ==
    \/ EditDocument
    \/ \E g \in Agreements :
          \/ \E w \in Users, p \in Recipients, recurring \in BOOLEAN :
                ReadApproved(g, w, p, recurring)
          \/ \E w \in Users, h \in Agreements : ReadForRenewal(g, w, h)
          \/ Issue(g) \/ CrashIssue(g) \/ Expire(g) \/ ComeDue(g)
    \/ \E s \in Signings :
          \/ \E g \in Agreements : Present(s, g)
          \/ Sign(s) \/ CrashSigning(s)
    \/ \E v \in Revocations :
          \/ \E w \in Users, g \in Agreements : BeginRevocation(v, w, g)
          \/ Withdraw(v) \/ CrashRevocation(v)

Spec == Init /\ [][Next]_vars

\* Handlers and the database make progress; a waiter gets a row lock, or an index
\* key, that stays free.
Fairness ==
    /\ \A g \in Agreements : WF_vars(Issue(g))
    /\ \A s \in Signings : WF_vars(Sign(s))
    /\ \A v \in Revocations : WF_vars(Withdraw(v))

FairSpec == Spec /\ Fairness

-----------------------------------------------------------------------------
\* Properties

\* "Atomically consumes the pending request when the recipient signs"
\* (docs/policy-acknowledgements.md): however many calls present or revoke one
\* request, together or one after the other, it ends signed, with one receipt for
\* the version and the recipient it was issued for, or revoked, with none.
OneReceipt ==
    \A g \in Agreements :
        /\ {x \in receipts : x.agreement = g} =
               IF agreement[g].status \in Signed
               THEN {[agreement |-> g, version |-> agreement[g].version,
                      signer |-> agreement[g].recipient]}
               ELSE {}
        /\ agreement[g].status = "revoked" <=>
               \E v \in Revocations : revocation[v] = [pc |-> "revoked", agreement |-> g]

\* "Exactly one successor link" (docs/policy-acknowledgements.md): renewals that
\* run together, crash, or are revoked leave at most one request that renews h
\* and is not revoked, and h names it; when there is none, h can be renewed again.
OneSuccessor ==
    \A h \in Agreements :
        {g \in Agreements : /\ agreement[g].source = h
                            /\ agreement[g].status \in Open \cup Signed}
        = {agreement[h].successor} \ {None}

\* A request that was issued, or renewed, pins a version that was approved,
\* although the document is read without a lock and revised beside it.
PinnedVersionApproved ==
    \A g \in Agreements :
        agreement[g].status \in Issued => agreement[g].version \in approved

\* The ledger that the committed rows stand for.
Terms(g) == [agreement |-> g, recipient |-> agreement[g].recipient,
             version |-> agreement[g].version, renews |-> agreement[g].source]

Asked == {Terms(g) : g \in {h \in Agreements : agreement[h].status \in Issued}}
Withdrawn == {g \in Agreements : agreement[g].status = "revoked"}

Ledger == INSTANCE AgreementLedger WITH
    Versions <- 1 .. MaxVersion, issued <- Asked, withdrawn <- Withdrawn

\* "Prevents a second pending request for the same recipient and version", "never
\* changes an existing request or receipt" (docs/policy-acknowledgements.md): however
\* calls overlap, wait for each other and crash, each step issues, signs or withdraws
\* one request as a whole, or does nothing that anybody else can see.
ImplementsLedger == Ledger!Spec

\* Every call ends although they wait for each other's rows and index keys, and a call
\* that others wait for waits itself for the app_users row of its signer.
RequestsEnd ==
    /\ \A g \in Agreements :
            agreement[g].status \in InProgress ~> agreement[g].status \notin InProgress
    /\ \A s \in Signings : signing[s].pc = "begun" ~> signing[s].pc \in {"idle", "ended"}
    /\ \A v \in Revocations :
            revocation[v].pc = "begun" ~> revocation[v].pc \in {"idle", "revoked", "ended"}
=============================================================================
