--------------------------- MODULE EvidenceArtifacts ---------------------------
(***************************************************************************)
(* The life of committed evidence artifacts: main.py's                     *)
(* record_evidence_scan_result, set_evidence_legal_hold and                *)
(* create_evidence_download, the rows of evidence_artifact_lifecycle they  *)
(* update and read, and the audit_events they append.                      *)
(*                                                                         *)
(* A recording updates the one lifecycle row of an artifact, and so holds  *)
(* its row lock to the end of its transaction; a download reads that row   *)
(* without a lock.  Both answer the client before they commit: FastAPI     *)
(* (0.141.1) runs the exit code of tenant_session after the response.      *)
(***************************************************************************)
EXTENDS Naturals, Sequences

CONSTANTS
    Observations,   \* evidence observations
    Stored,         \* observations whose artifact has a lifecycle row
    Recordings,     \* scan-result and legal-hold requests
    Downloads,      \* download requests in progress or with a usable URL
    Users,          \* members of the tenant
    Admins,         \* members whose role is in EVIDENCE_LIFECYCLE_ADMINS
    Readers,        \* members whose role is in EVIDENCE_ARTIFACT_READERS
    None            \* absent row, artifact or change

ASSUME StoredObserved == Stored \subseteq Observations
ASSUME NoneRecords == None \notin Recordings
ASSUME RolesKnown == Admins \subseteq Users /\ Readers \subseteq Users

VARIABLES
    lifecycle,      \* committed rows of evidence_artifact_lifecycle
    rowLock,        \* the recording whose open transaction updated the row
    trail,          \* recordings whose audit row has an id, in the order of the ids
    recording,      \* scan-result and legal-hold requests
    download        \* download requests and the URLs they handed out

vars == <<lifecycle, rowLock, trail, recording, download>>

-----------------------------------------------------------------------------
ScanResults == {"clean", "quarantined", "error"}

Lifecycle == [scan : ScanResults \cup {"pending"}, hold : BOOLEAN]

\* What a recording sets: the scan status, or the legal hold with its reason.
Changes == [field : {"scan"}, value : ScanResults]
           \cup [field : {"hold"}, value : BOOLEAN]

\* "waiting": for the row lock; "updated": the update ran, the audit row is not
\* inserted; "answered": 200 sent, not committed; "recorded": committed;
\* "ended": refused, or rolled back by a crash.
Recording == [pc : {"idle", "waiting", "updated", "answered", "recorded", "ended"},
              artifact : Observations \cup {None}, change : Changes \cup {None}]

\* "read": a clean status was read; "answered": the URL is sent, its audit row
\* not committed; "ended": the transaction is over.  live: the URL still works.
\* audited: the audit row of the authorization is committed.
Download == [pc : {"idle", "read", "answered", "ended"},
             artifact : Stored \cup {None}, live : BOOLEAN, audited : BOOLEAN]

\* A bug: the row starts in a status that the schema does not know.
UnscannedLifecycle == [scan |-> "unscanned", hold |-> FALSE]

\* The lifecycle row that complete_evidence_upload inserts.
NewLifecycle == [scan |-> "pending", hold |-> FALSE]

IdleRecording == [pc |-> "idle", artifact |-> None, change |-> None]
IdleDownload == [pc |-> "idle", artifact |-> None, live |-> FALSE,
                 audited |-> FALSE]

TypeOK ==
    /\ lifecycle \in [Stored -> Lifecycle]
    /\ rowLock \in [Stored -> Recordings \cup {None}]
    /\ trail \in Seq(Recordings)
    /\ recording \in [Recordings -> Recording]
    /\ download \in [Downloads -> Download]

Init ==
    /\ lifecycle = [e \in Stored |-> NewLifecycle]
    /\ rowLock = [e \in Stored |-> None]
    /\ trail = << >>
    /\ recording = [c \in Recordings |-> IdleRecording]
    /\ download = [d \in Downloads |-> IdleDownload]

-----------------------------------------------------------------------------
\* Scan results and legal holds

\* 403 for other roles; 409 for an observation without a stored artifact, whose
\* update finds no row.
RefuseRecording(c, w, e) ==
    /\ recording[c].pc = "idle"
    /\ w \notin Admins \/ e \notin Stored
    /\ recording' = [recording EXCEPT ![c].pc = "ended"]
    /\ UNCHANGED <<lifecycle, rowLock, trail, download>>

\* The handler's update statement is sent.
BeginRecording(c, w, e, change) ==
    /\ recording[c].pc = "idle"
    /\ w \in Admins
    /\ e \in Stored
    /\ recording' = [recording EXCEPT ![c] =
                        [pc |-> "waiting", artifact |-> e, change |-> change]]
    /\ UNCHANGED <<lifecycle, rowLock, trail, download>>

\* A bug: the change is worked out on a row that was read without its lock.
UpdateUnlocked(c) ==
    /\ recording[c].pc = "waiting"
    /\ recording' = [recording EXCEPT ![c].pc = "updated"]
    /\ UNCHANGED <<lifecycle, rowLock, trail, download>>

\* The update gets the row lock and writes the change; any status may follow any
\* other.
Update(c) ==
    /\ recording[c].pc = "waiting"
    /\ rowLock[recording[c].artifact] = None
    /\ rowLock' = [rowLock EXCEPT ![recording[c].artifact] = c]
    /\ recording' = [recording EXCEPT ![c].pc = "updated"]
    /\ UNCHANGED <<lifecycle, trail, download>>

\* The audit row gets the next id, and the client its answer.
AuditRecording(c) ==
    /\ recording[c].pc = "updated"
    /\ trail' = Append(trail, c)
    /\ recording' = [recording EXCEPT ![c].pc = "answered"]
    /\ UNCHANGED <<lifecycle, rowLock, download>>

\* A bug: the connection goes back to the pool with its transaction open.
StillHeld(c) == rowLock

\* Row locks after the transaction of c has ended.
Released(c) == [e \in Stored |-> IF rowLock[e] = c THEN None ELSE rowLock[e]]

\* The row and the audit row become visible together.
CommitRecording(c) ==
    /\ recording[c].pc = "answered"
    /\ LET change == recording[c].change
       IN  lifecycle' = [lifecycle EXCEPT ![recording[c].artifact] =
                IF change.field = "scan" THEN [@ EXCEPT !.scan = change.value]
                                         ELSE [@ EXCEPT !.hold = change.value]]
    /\ rowLock' = Released(c)
    /\ recording' = [recording EXCEPT ![c].pc = "recorded"]
    /\ UNCHANGED <<trail, download>>

\* The API process or the connection dies: the row, its lock and the audit row
\* are rolled back; the id stays used.
CrashRecording(c) ==
    /\ recording[c].pc \in {"waiting", "updated", "answered"}
    /\ rowLock' = Released(c)
    /\ recording' = [recording EXCEPT ![c] = [IdleRecording EXCEPT !.pc = "ended"]]
    /\ UNCHANGED <<lifecycle, trail, download>>

-----------------------------------------------------------------------------
\* Downloads.  A request that is refused (403, 404, 423, 502, 503) changes
\* nothing and leaves its record free for the next request.

\* A bug: the scan status is not looked at.
ReadAnyStatus(d, w, e) ==
    /\ download[d] = IdleDownload
    /\ w \in Readers
    /\ download' = [download EXCEPT ![d].pc = "read", ![d].artifact = e]
    /\ UNCHANGED <<lifecycle, rowLock, trail, recording>>

\* A bug: only a quarantined artifact is kept back.
ReadUnlessQuarantined(d, w, e) ==
    /\ download[d] = IdleDownload
    /\ w \in Readers
    /\ lifecycle[e].scan # "quarantined"
    /\ download' = [download EXCEPT ![d].pc = "read", ![d].artifact = e]
    /\ UNCHANGED <<lifecycle, rowLock, trail, recording>>

\* The committed scan status is read, without a lock.
ReadStatus(d, w, e) ==
    /\ download[d] = IdleDownload
    /\ w \in Readers
    /\ lifecycle[e].scan = "clean"
    /\ download' = [download EXCEPT ![d].pc = "read", ![d].artifact = e]
    /\ UNCHANGED <<lifecycle, rowLock, trail, recording>>

\* The provider signs a URL for five minutes, the audit row is inserted, and the
\* client gets the URL.  Nothing is read again.
Grant(d) ==
    /\ download[d].pc = "read"
    /\ download' = [download EXCEPT ![d].pc = "answered", ![d].live = TRUE]
    /\ UNCHANGED <<lifecycle, rowLock, trail, recording>>

\* The provider could not sign, or the process died before it answered.
GrantFails(d) ==
    /\ download[d].pc = "read"
    /\ download' = [download EXCEPT ![d] = IdleDownload]
    /\ UNCHANGED <<lifecycle, rowLock, trail, recording>>

CommitDownload(d) ==
    /\ download[d].pc = "answered"
    /\ download' = [download EXCEPT ![d].pc = "ended", ![d].audited = TRUE]
    /\ UNCHANGED <<lifecycle, rowLock, trail, recording>>

\* The process dies after the answer: the audit row is rolled back, the URL is not.
CrashDownload(d) ==
    /\ download[d].pc = "answered"
    /\ download' = [download EXCEPT ![d].pc = "ended"]
    /\ UNCHANGED <<lifecycle, rowLock, trail, recording>>

\* Five minutes have passed.  Once its transaction is over as well, the record
\* is free for the next request.
ExpireGrant(d) ==
    /\ download[d].live
    /\ download' = [download EXCEPT ![d] =
                        IF @.pc = "ended" THEN IdleDownload
                                          ELSE [@ EXCEPT !.live = FALSE]]
    /\ UNCHANGED <<lifecycle, rowLock, trail, recording>>

\* The transaction of an expired authorization is over.
Forget(d) ==
    /\ download[d].pc = "ended"
    /\ ~download[d].live
    /\ download' = [download EXCEPT ![d] = IdleDownload]
    /\ UNCHANGED <<lifecycle, rowLock, trail, recording>>

-----------------------------------------------------------------------------
Record(c) == Update(c) \/ AuditRecording(c) \/ CommitRecording(c)

Finish(d) == Grant(d) \/ GrantFails(d) \/ CommitDownload(d) \/ Forget(d)

Next ==
    \/ \E c \in Recordings :
          \/ \E w \in Users, e \in Observations :
                \/ RefuseRecording(c, w, e)
                \/ \E change \in Changes : BeginRecording(c, w, e, change)
          \/ Record(c)
          \/ CrashRecording(c)
    \/ \E d \in Downloads :
          \/ \E w \in Users, e \in Stored : ReadStatus(d, w, e)
          \/ Finish(d)
          \/ CrashDownload(d)
          \/ ExpireGrant(d)

Spec == Init /\ [][Next]_vars

\* Handlers and the database make progress, and time passes for every URL.
Fairness ==
    /\ \A c \in Recordings : WF_vars(Record(c))
    /\ \A d \in Downloads : WF_vars(Finish(d)) /\ WF_vars(ExpireGrant(d))

FairSpec == Spec /\ Fairness

-----------------------------------------------------------------------------
\* Properties

\* The places in the trail of the committed recordings of field f of e.
RecordedAt(e, f) ==
    {i \in DOMAIN trail : /\ recording[trail[i]].pc = "recorded"
                          /\ recording[trail[i]].artifact = e
                          /\ recording[trail[i]].change.field = f}

\* v is what the trail says of field f: its last recording, or else initial.
TrailSays(e, f, v, initial) ==
    LET S == RecordedAt(e, f)
    IN  IF S = {} THEN v = initial
        ELSE \E i \in S : /\ v = recording[trail[i]].change.value
                          /\ \A j \in S : j <= i

\* "retaining every transition in the audit ledger": read in the order of its
\* ids, the committed ledger ends in the committed row, although recordings of
\* one artifact run together, wait for each other and crash.
LedgerExplainsRow ==
    \A e \in Stored :
        /\ TrailSays(e, "scan", lifecycle[e].scan, NewLifecycle.scan)
        /\ TrailSays(e, "hold", lifecycle[e].hold, NewLifecycle.hold)

\* The custody that the committed rows, the audit rows and the downloads stand for.
Entries ==
    {[id |-> i, artifact |-> recording[trail[i]].artifact, change |-> recording[trail[i]].change]
        : i \in {j \in DOMAIN trail : recording[trail[j]].pc = "recorded"}}

Permits == [d \in Downloads |-> IF download[d].pc = "read" THEN {download[d].artifact} ELSE {}]
Urls == [d \in Downloads |-> IF download[d].live THEN {download[d].artifact} ELSE {}]

Custody == INSTANCE EvidenceCustody WITH ledger <- Entries, permit <- Permits, url <- Urls

\* "Every scan transition, legal-hold change ... is written to the append-only tenant
\* audit ledger", and no "download URL until ... a clean result" (docs/object-storage.md):
\* recordings that overlap, wait, crash and answer early are changes with their audit
\* rows, one after the other, and what is handed out was clean, by a committed result,
\* when the download was authorized.
ImplementsCustody == Custody!Spec

\* "Quarantined and failed artifacts remain unavailable"
\* (docs/object-storage.md): once an artifact is no longer clean and stays so,
\* the URLs already handed out lapse and no new one works, however many
\* downloads are asked for.
WithdrawnForGood ==
    \A e \in Stored :
        <>[](lifecycle[e].scan # "clean") =>
            <>[](\A d \in Downloads : download[d].artifact = e => ~download[d].live)

\* A recording that was started is committed or ends, whatever the others of the
\* artifact do.
RecordingsEnd ==
    \A c \in Recordings :
        recording[c].pc # "idle" ~> recording[c].pc \in {"recorded", "ended"}

\* "Every ... download authorization is written to the append-only tenant audit
\* ledger" (docs/object-storage.md): when the transaction is over, a URL that
\* works has its audit row.
EveryGrantAudited ==
    \A d \in Downloads :
        download[d].live /\ download[d].pc = "ended" => download[d].audited
=============================================================================
