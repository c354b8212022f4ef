---------------------------- MODULE PolicyReferences ----------------------------
(***************************************************************************)
(* What refers to a policy document while it is revised: the metadata that *)
(* trust_centers.py's create_trust_resource publishes for it, and the      *)
(* roles, role holders and role mappings of responsibilities.py, with the  *)
(* tables and unique indexes of migrations 0012 and 0013.                  *)
(*                                                                         *)
(* Every handler reads, then inserts or deletes one row, in tenant_session,*)
(* which answers before it commits.  An insert waits for an open           *)
(* transaction on its index key; the foreign key of a row that names the   *)
(* document takes a key share of the document row, which a revision's "for *)
(* update" excludes and a decision's update does not.                      *)
(***************************************************************************)
EXTENDS PolicyLibrary

CONSTANTS
    MaxRequests,    \* bound on the creations and removals
    Items,      \* rows that may be created
    Roles,      \* names of the roles there are
    Admins      \* members who manage responsibilities and the trust center

\* Creations and removals, taken in the order of their numbers.
Requests == 1 .. MaxRequests

Resource == [table |-> "resource"]

ASSUME ItemsKnown ==
    \A x \in Items :
        \/ x = Resource
        \/ x \in [table : {"role"}, role : STRING \ Roles]
        \/ x \in [table : {"holder"}, role : STRING, current : BOOLEAN]
        \/ x \in [table : {"mapping"}, role : STRING, target : {"document", "control"},
                  raci : {"responsible", "accountable", "consulted", "informed"}]
ASSUME AdminsKnown == Admins \subseteq Users
ASSUME RequestsBounded == MaxRequests \in Nat
ASSUME NotRequested == None \notin Requests /\ None \notin Items /\ None # Resource

VARIABLES
    rows,       \* requests whose inserted row is committed and not deleted
    request     \* requests

vars == <<libraryVars, rows, request>>

-----------------------------------------------------------------------------
\* "read": what the row refers to was found; "named": a row to delete; "entered": the
\* row of an accountable role is in the first of its two unique indexes; "keyed": the
\* row has its index keys; "answered": it is inserted or deleted, not committed.
\* version: policy_document_version_id of a resource.  of: whose row is deleted.
Request == [pc : {"idle", "read", "named", "entered", "keyed", "answered", "committed",
                  "ended"},
            item : Items \cup {None}, version : Nat, of : Requests \cup {None}]

\* The library's TypeOK with that of the references.
ReferencesTypeOK ==
    /\ TypeOK
    /\ rows \subseteq Requests
    /\ request \in [Requests -> Request]
    /\ \A r \in rows : request[r].item # None

NoRequest == [pc |-> "idle", item |-> None, version |-> 0, of |-> None]

ReferencesInit ==
    /\ Init
    /\ rows = {}
    /\ request = [r \in Requests |-> NoRequest]

-----------------------------------------------------------------------------
OfDocument(x) == x.table = "resource" \/ (x.table = "mapping" /\ x.target = "document")

Accountable(x) == x.table = "mapping" /\ x.raci = "accountable"

\* The row-by-row meaning of the unique indexes: a name of a role, a current primary
\* holder of a role, a mapping, a resource of a document,
SameRow(x, y) == x = y /\ ~(x.table = "holder" /\ ~x.current)

\* and, in an index of its own, the accountable role of a target.
SameTarget(x, y) == Accountable(x) /\ Accountable(y) /\ x.target = y.target

Clash(x, y) == SameRow(x, y) \/ SameTarget(x, y)

RoleExists(role) ==
    role \in Roles \/ \E b \in rows : request[b].item = [table |-> "role", role |-> role]

\* The selects of a creation: an approved document for a resource, one that is not
\* retired for a mapping, and an active role; none of them locks a row.
Finds(x) ==
    /\ x = Resource => document.status = "approved"
    /\ OfDocument(x) => document.status # "retired"
    /\ x.table \in {"holder", "mapping"} => RoleExists(x.role)

\* Requests whose open transaction has inserted a row, and those whose row has all
\* its keys.
Open(b) == request[b].pc \in {"entered", "keyed", "answered"} /\ request[b].of = None
Keyed(b) == Open(b) /\ request[b].pc # "entered"

Unsent(r) ==
    /\ request[r].pc = "idle"
    /\ \A b \in 1 .. r - 1 : request[b].pc # "idle"

\* Requests whose open transaction has deleted the row of b.
Deleting(b) == {d \in Requests : request[d].of = b /\ request[d].pc = "answered"}

\* (404 or 422, for what is not found, changes nothing.)
Read(r, w, x) ==
    /\ Unsent(r)
    /\ w \in Admins
    /\ Finds(x)
    /\ request' = [request EXCEPT ![r] = [NoRequest EXCEPT
            !.pc = "read", !.item = x,
            !.version = IF x = Resource THEN document.current ELSE 0]]
    /\ UNCHANGED <<libraryVars, rows>>

\* The other rows, there or under way, of the row's first key, and of its second.
Clashing(r) == {b \in Requests \ {r} : /\ request[b].item # None
                                       /\ SameRow(request[b].item, request[r].item)}
Rivals(r) == {b \in Requests \ {r} : /\ request[b].item # None
                                     /\ SameTarget(request[b].item, request[r].item)}

AfterEntry(r) == IF Accountable(request[r].item) THEN "entered" ELSE "keyed"

\* A bug: only committed rows are looked at, with no unique index.
EnterUnindexed(r) ==
    /\ request[r].pc = "read"
    /\ Clashing(r) \cap rows = {}
    /\ request' = [request EXCEPT ![r].pc = AfterEntry(r)]
    /\ UNCHANGED <<libraryVars, rows>>

\* A bug: the insert pins whatever version is current by now.
EnterCurrent(r) ==
    /\ request[r].pc = "read"
    /\ \A b \in Clashing(r) : b \notin rows /\ ~Open(b)
    /\ request' = [request EXCEPT ![r].pc = AfterEntry(r),
                       ![r].version = IF @ = 0 THEN 0 ELSE document.current]
    /\ UNCHANGED <<libraryVars, rows>>

\* The inserted row enters the unique indexes in the order of their creation: that of
\* accountable roles is the last.
EnterIndexes(r) ==
    /\ request[r].pc = "read"
    /\ \A b \in Clashing(r) : b \notin rows /\ ~Open(b)
    /\ request' = [request EXCEPT ![r].pc = AfterEntry(r)]
    /\ UNCHANGED <<libraryVars, rows>>

EnterAccountable(r) ==
    /\ request[r].pc = "entered"
    /\ \A b \in Rivals(r) : b \notin rows /\ ~Keyed(b)
    /\ request' = [request EXCEPT ![r].pc = "keyed"]
    /\ UNCHANGED <<libraryVars, rows>>

\* UniqueViolation: 409.
Duplicate(r) ==
    /\ \/ request[r].pc = "read" /\ \E b \in Clashing(r) \cap rows : Deleting(b) = {}
       \/ request[r].pc = "entered" /\ \E b \in Rivals(r) \cap rows : Deleting(b) = {}
    /\ request' = [request EXCEPT ![r] = [NoRequest EXCEPT !.pc = "ended"]]
    /\ UNCHANGED <<libraryVars, rows>>

\* A revision has locked the document row.
Revising == docLock # None /\ edit[docLock].kind = "revise"

\* The foreign keys are checked, and the client has its answer.
AnswerCreation(r) ==
    /\ request[r].pc = "keyed"
    /\ OfDocument(request[r].item) => ~Revising
    /\ request' = [request EXCEPT ![r].pc = "answered"]
    /\ UNCHANGED <<libraryVars, rows>>

\* The row and its audit row become visible.
CommitCreation(r) ==
    /\ request[r].pc = "answered"
    /\ request[r].of = None
    /\ request' = [request EXCEPT ![r].pc = "committed"]
    /\ rows' = rows \cup {r}
    /\ UNCHANGED libraryVars

-----------------------------------------------------------------------------
\* delete_trust_resource, delete_responsibility_assignment: the client names a row
\* it was answered with.
BeginRemoval(r, w, b) ==
    /\ Unsent(r)
    /\ w \in Admins
    /\ request[b].pc \in {"answered", "committed"}
    /\ request[b].item # None
    /\ request[b].item.table \in {"resource", "mapping"}
    /\ request' = [request EXCEPT ![r] = [NoRequest EXCEPT !.pc = "named", !.of = b]]
    /\ UNCHANGED <<libraryVars, rows>>

\* The delete locks the committed row; 204 is sent.
Delete(r) ==
    /\ request[r].pc = "named"
    /\ request[r].of \in rows
    /\ Deleting(request[r].of) = {}
    /\ request' = [request EXCEPT ![r].pc = "answered"]
    /\ UNCHANGED <<libraryVars, rows>>

\* 404: there is no such row, not yet or no longer.
RefuseRemoval(r) ==
    /\ request[r].pc = "named"
    /\ request[r].of \notin rows
    /\ request' = [request EXCEPT ![r] = [NoRequest EXCEPT !.pc = "ended"]]
    /\ UNCHANGED <<libraryVars, rows>>

CommitRemoval(r) ==
    /\ request[r].pc = "answered"
    /\ request[r].of # None
    /\ rows' = rows \ {request[r].of}
    /\ request' = [request EXCEPT ![r] = [NoRequest EXCEPT !.pc = "ended"],
                                  ![request[r].of] = [NoRequest EXCEPT !.pc = "ended"]]
    /\ UNCHANGED libraryVars

\* The API process or its connection dies: nothing is written.
CrashRequest(r) ==
    /\ request[r].pc \in {"read", "named", "entered", "keyed", "answered"}
    /\ request' = [request EXCEPT ![r] = [NoRequest EXCEPT !.pc = "ended"]]
    /\ UNCHANGED <<libraryVars, rows>>

-----------------------------------------------------------------------------
Perform(r) ==
    \/ EnterIndexes(r) \/ EnterAccountable(r) \/ Duplicate(r)
    \/ AnswerCreation(r) \/ CommitCreation(r)
    \/ Delete(r) \/ RefuseRemoval(r) \/ CommitRemoval(r)

\* Holders of a key share of the document row.
Sharing == {r \in Requests : Open(r) /\ request[r].pc = "answered"
                                      /\ OfDocument(request[r].item)}

\* An edit beside the references: a revision's lock excludes key shares.
EditBeside(c) ==
    /\ PerformEdit(c)
    /\ edit[c].pc = "waiting" /\ edit[c].kind = "revise" => Sharing = {}
    /\ UNCHANGED <<rows, request>>

ReferencesNext ==
    \/ \E c \in Edits :
          \/ EditBeside(c)
          \/ /\ \/ \E w \in Users, kind \in Kinds : BeginEdit(c, w, kind)
                \/ CrashEdit(c)
             /\ UNCHANGED <<rows, request>>
    \/ \E r \in Requests :
          \/ \E w \in Users, x \in Items : Read(r, w, x)
          \/ \E w \in Users, b \in Requests : BeginRemoval(r, w, b)
          \/ Perform(r)
          \/ CrashRequest(r)

ReferencesSpec == ReferencesInit /\ [][ReferencesNext]_vars

\* Handlers and the database make progress; a waiter gets an index key, or a row,
\* that stays free.
ReferencesFairness ==
    /\ \A c \in Edits : WF_vars(EditBeside(c))
    /\ \A r \in Requests : WF_vars(Perform(r))

FairReferences == ReferencesSpec /\ ReferencesFairness

-----------------------------------------------------------------------------
\* Properties

\* The rows with what they pin, and the versions that were approved.
Register == {[row |-> r, item |-> request[r].item, version |-> request[r].version] : r \in rows}
ApprovedVersions == {n \in 1 .. document.current : DecidedOn(n, "approved") # {}}

References == INSTANCE ReferenceRegister WITH
    Rows <- Requests, register <- Register, approved <- ApprovedVersions,
    Exclusive <- {p \in Items \X Items : Clash(p[1], p[2])},
    Required <- [x \in Items |->
        IF x.table \in {"holder", "mapping"} /\ x.role \notin Roles
        THEN {[table |-> "role", role |-> x.role]} ELSE {}],
    Pinning <- {Resource},
    Removable <- {x \in Items : x.table \in {"resource", "mapping"}}

\* "At most one accountable role", "one current primary holder"
\* (docs/responsibility-matrix.md), "This policy is already published"
\* (trust_centers.py:270): however creations, removals and edits overlap, wait for each
\* other and crash, rows appear as a whole, beside none that excludes them, for roles
\* there are and at a version that was approved, and only a removal takes them out.
ImplementsRegister == References!Spec

\* "A public resource is pinned to the exact currently approved policy version.
\* Editing the underlying policy does not silently update the public resource"
\* (docs/trust-centers.md): what is shown was approved under the number shown,
\* whatever was revised since the version was read.
PublishedVersionApproved ==
    \A r \in Requests :
        request[r].pc \in {"answered", "committed"} /\ request[r].item = Resource =>
            DecidedOn(request[r].version, "approved") # {}

AtRest ==
    /\ \A r \in Requests : request[r].pc \in {"idle", "committed", "ended"}
    /\ \A c \in Edits : edit[c].pc \in {"idle", "committed", "ended"}

\* Every creation, removal and edit ends, although inserts wait for each other's
\* keys and for revisions, and revisions for them: each is made once, so the tenant
\* always comes to rest again.
ReferencesEnd == []<>AtRest
=============================================================================
