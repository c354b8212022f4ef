------------------------------ MODULE PolicyLibrary ------------------------------
(***************************************************************************)
(* One policy document: policies.py's create_policy_document_version and   *)
(* set_policy_document_status, and the tables policy_documents and         *)
(* policy_document_versions.  Documents share no row, so one is enough.    *)
(*                                                                         *)
(* A revision locks the document row with "for update" before it reads the *)
(* current version; a decision locks it with its update.  Both hold the    *)
(* lock to the end of a transaction that answers before it commits.        *)
(***************************************************************************)
EXTENDS Naturals

CONSTANTS
    MaxEdits,   \* bound on the revision and decision requests
    Users,      \* members of the tenant
    Editors,    \* members whose role is in POLICY_EDITORS
    Approvers,  \* members whose role is in POLICY_APPROVERS
    None        \* nobody holds the row

\* Requests, taken in the order of their numbers.
Edits == 1 .. MaxEdits

ASSUME EditsBounded == MaxEdits \in Nat
ASSUME RolesKnown == Editors \subseteq Users /\ Approvers \subseteq Users
ASSUME NobodyEdits == None \notin Edits

VARIABLES
    document,   \* committed row of policy_documents
    versions,   \* committed rows of policy_document_versions
    docLock,    \* the edit whose open transaction has locked the document row
    edit        \* revision and decision requests

libraryVars == <<document, versions, docLock, edit>>

-----------------------------------------------------------------------------
Decisions == {"draft", "approved", "retired"}

Kinds == {"revise"} \cup Decisions

\* "waiting": for the row; "locked": the row is read, the writes and the answer may be
\* done, nothing is committed.  number: the version this edit creates or decides on.
Edit == [pc : {"idle", "waiting", "locked", "committed", "ended"},
         kind : Kinds, number : Nat]

Version == [number : Nat, by : Edits \cup {None}]

TypeOK ==
    /\ document \in [current : Nat \ {0}, status : Decisions]
    /\ versions \subseteq Version
    /\ docLock \in Edits \cup {None}
    /\ edit \in [Edits -> Edit]

IdleEdit == [pc |-> "idle", kind |-> "draft", number |-> 0]

\* create_policy_document committed a draft and its first version.
Init ==
    /\ document = [current |-> 1, status |-> "draft"]
    /\ versions = {[number |-> 1, by |-> None]}
    /\ docLock = None
    /\ edit = [c \in Edits |-> IdleEdit]

-----------------------------------------------------------------------------
MayEdit(w, kind) == IF kind = "revise" THEN w \in Editors ELSE w \in Approvers

\* The select for update of a revision, or the update of a decision, is sent.
\* Any decision may follow any other; it names no version.
BeginEdit(c, w, kind) ==
    /\ edit[c].pc = "idle"
    /\ \A b \in 1 .. c - 1 : edit[b].pc # "idle"
    /\ MayEdit(w, kind)
    /\ edit' = [edit EXCEPT ![c] = [IdleEdit EXCEPT !.pc = "waiting", !.kind = kind]]
    /\ UNCHANGED <<document, versions, docLock>>

\* What an edit does to version n: a revision creates the next one, a decision is
\* made on the current one.
NumberFor(kind, n) == IF kind = "revise" THEN n + 1 ELSE n

\* A bug: the current version is read without "for update".
ReadUnlocked(c) ==
    /\ edit[c].pc = "waiting"
    /\ edit' = [edit EXCEPT ![c].pc = "locked",
                            ![c].number = NumberFor(edit[c].kind, document.current)]
    /\ UNCHANGED <<document, versions, docLock>>

\* The statement gets the row lock and sees the committed row.
LockDocument(c) ==
    /\ edit[c].pc = "waiting"
    /\ docLock = None
    /\ docLock' = c
    /\ edit' = [edit EXCEPT ![c].pc = "locked",
                            ![c].number = NumberFor(edit[c].kind, document.current)]
    /\ UNCHANGED <<document, versions>>

\* A bug: a dead connection's row lock outlives it.
KeepLock(c) == docLock' = docLock

\* The row lock goes with the transaction of c.
Unlock(c) == docLock' = IF docLock = c THEN None ELSE docLock

\* A bug: the request's kind is stored as the status.
ReviseIntoKind(c) == [document EXCEPT !.current = edit[c].number,
                                      !.status = edit[c].kind]

\* A bug: a revision leaves the status alone.
ReviseKeepingStatus(c) == [document EXCEPT !.current = edit[c].number]

\* The row a revision commits: its version, and a draft again.
Revised(c) == [document EXCEPT !.current = edit[c].number, !.status = "draft"]

\* The new version, the document row and the audit row become visible.
CommitEdit(c) ==
    /\ edit[c].pc = "locked"
    /\ IF edit[c].kind = "revise"
          THEN /\ document' = Revised(c)
               /\ versions' = versions \cup {[number |-> edit[c].number, by |-> c]}
          ELSE /\ document' = [document EXCEPT !.status = edit[c].kind]
               /\ UNCHANGED versions
    /\ edit' = [edit EXCEPT ![c].pc = "committed"]
    /\ Unlock(c)

\* The API process or the connection dies: nothing is written.
CrashEdit(c) ==
    /\ edit[c].pc \in {"waiting", "locked"}
    /\ edit' = [edit EXCEPT ![c] = [IdleEdit EXCEPT !.pc = "ended"]]
    /\ Unlock(c)
    /\ UNCHANGED <<document, versions>>

-----------------------------------------------------------------------------
PerformEdit(c) == LockDocument(c) \/ CommitEdit(c)

Next ==
    \E c \in Edits :
        \/ \E w \in Users, kind \in Kinds : BeginEdit(c, w, kind)
        \/ PerformEdit(c)
        \/ CrashEdit(c)

Spec == Init /\ [][Next]_libraryVars

-----------------------------------------------------------------------------
\* Properties

\* "Append a revision without overwriting": every committed revision has a
\* version number of its own, and the numbers run from 1 to the current version
\* with no gap, although revisions run together and crash.
EveryRevisionKept ==
    /\ {x.number : x \in versions} = 1 .. document.current
    /\ \A x, y \in versions : x.number = y.number => x = y
    /\ \A c \in Edits : edit[c].pc = "committed" /\ edit[c].kind = "revise" =>
            [number |-> edit[c].number, by |-> c] \in versions

\* The committed decisions on version n.
DecidedOn(n, kind) ==
    {c \in Edits : /\ edit[c].pc = "committed"
                   /\ edit[c].kind = kind
                   /\ edit[c].number = n}

\* "Creating a revision ... returns an approved or retired document to draft"
\* (docs/policy-library.md): a document is approved, or retired, only by a
\* decision on its current version, whatever revision ran beside it.
StatusIsOfCurrentVersion ==
    document.status # "draft" => DecidedOn(document.current, document.status) # {}

Document == INSTANCE PolicyDocument WITH
                approved <- {n \in 1 .. document.current : DecidedOn(n, "approved") # {}}

\* The library implements the document: revisions and decisions that run together
\* take effect one after the other, each on the version before it.
ImplementsDocument == Document!Spec
=============================================================================
