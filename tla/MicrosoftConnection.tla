------------------------- MODULE MicrosoftConnection -------------------------
(***************************************************************************)
(* Health of one Microsoft connection: automation.py's                     *)
(* discover_microsoft_scope and the table integration_connections.  A      *)
(* discovery holds the row across four calls to Microsoft, in a            *)
(* transaction of tenant_session, which commits after a normal return and  *)
(* rolls back when the handler raises.                                     *)
(***************************************************************************)
EXTENDS TLAPS

CONSTANTS
    Discoveries,    \* discovery calls
    Users,          \* members of the tenant
    Admins,         \* members whose role is in AUTOMATION_ADMINS
    None            \* no holder, no write

VARIABLES
    status,     \* committed status of the connection
    rowLock,    \* the discovery that holds the row
    latest,     \* what the discovery that answered last was answered
    discovery   \* discovery calls

vars == <<status, rowLock, latest, discovery>>

\* "asking": Microsoft is called; "answered", "raised": the handler has returned, or
\* raised.  wrote: the status its open transaction has written.
Discovery == [pc : {"idle", "waiting", "asking", "answered", "raised", "ended"},
              wrote : {None, "healthy", "error"}]

TypeOK ==
    /\ status \in {"configured", "healthy", "error"}
    /\ rowLock \in Discoveries \cup {None}
    /\ latest \in {None, "succeeded", "failed"}
    /\ discovery \in [Discoveries -> Discovery]
    /\ \A d \in Discoveries : discovery[d].pc = "answered" => discovery[d].wrote = "healthy"

\* create_microsoft_connection has committed the row.
Init ==
    /\ status = "configured"
    /\ rowLock = None
    /\ latest = None
    /\ discovery = [d \in Discoveries |-> [pc |-> "idle", wrote |-> None]]

Begin(d, w) ==
    /\ discovery[d].pc = "idle"
    /\ w \in Admins
    /\ discovery' = [discovery EXCEPT ![d].pc = "waiting"]
    /\ UNCHANGED <<status, rowLock, latest>>

\* "for update"; no handler revokes a connection.
LockConnection(d) ==
    /\ discovery[d].pc = "waiting"
    /\ rowLock = None
    /\ rowLock' = d
    /\ discovery' = [discovery EXCEPT ![d].pc = "asking"]
    /\ UNCHANGED <<status, latest>>

\* Token, organization, domains and policies were read: the health and the audit
\* row are written and the result is sent.
Succeed(d) ==
    /\ discovery[d].pc = "asking"
    /\ discovery' = [discovery EXCEPT ![d] = [pc |-> "answered", wrote |-> "healthy"]]
    /\ latest' = "succeeded"
    /\ UNCHANGED <<status, rowLock>>

\* A call failed, or the secret cannot be decrypted: the failure is written and 502
\* is raised.
Fail(d) ==
    /\ discovery[d].pc = "asking"
    /\ discovery' = [discovery EXCEPT ![d] = [pc |-> "raised", wrote |-> "error"]]
    /\ UNCHANGED <<status, rowLock, latest>>

Commit(d) ==
    /\ discovery[d].pc = "answered"
    /\ status' = discovery[d].wrote
    /\ rowLock' = None
    /\ discovery' = [discovery EXCEPT ![d] = [pc |-> "ended", wrote |-> None]]
    /\ UNCHANGED latest

\* The exception leaves connection.transaction(), and is answered afterwards.
RollBack(d) ==
    /\ discovery[d].pc = "raised"
    /\ latest' = "failed"
    /\ rowLock' = None
    /\ discovery' = [discovery EXCEPT ![d] = [pc |-> "ended", wrote |-> None]]
    /\ UNCHANGED status

\* The API process or its connection dies, or an error that is not caught is
\* answered with 500.
Crash(d) ==
    /\ discovery[d].pc \in {"waiting", "asking", "answered", "raised"}
    /\ rowLock' = IF rowLock = d THEN None ELSE rowLock
    /\ discovery' = [discovery EXCEPT ![d] = [pc |-> "ended", wrote |-> None]]
    /\ UNCHANGED <<status, latest>>

Next ==
    \E d \in Discoveries :
        \/ \E w \in Users : Begin(d, w)
        \/ LockConnection(d) \/ Succeed(d) \/ Fail(d)
        \/ Commit(d) \/ RollBack(d) \/ Crash(d)

Spec == Init /\ [][Next]_vars

\* The row, its lock and the discoveries keep their types.
THEOREM TypeCorrect == Spec => []TypeOK
<1>1. Init => TypeOK
  BY DEF Init, TypeOK, Discovery
<1>2. ASSUME TypeOK, NEW d \in Discoveries,
             \/ \E w \in Users : Begin(d, w)
             \/ LockConnection(d) \/ Succeed(d) \/ Fail(d)
             \/ Commit(d) \/ RollBack(d) \/ Crash(d)
      PROVE  TypeOK'
  <2>1. CASE \E w \in Users : Begin(d, w)
    BY <1>2, <2>1 DEF TypeOK, Discovery, Begin
  <2>2. CASE LockConnection(d)
    BY <1>2, <2>2 DEF TypeOK, Discovery, LockConnection
  <2>3. CASE Succeed(d)
    BY <1>2, <2>3 DEF TypeOK, Discovery, Succeed
  <2>4. CASE Fail(d)
    BY <1>2, <2>4 DEF TypeOK, Discovery, Fail
  <2>5. CASE Commit(d)
    BY <1>2, <2>5 DEF TypeOK, Discovery, Commit
  <2>6. CASE RollBack(d)
    BY <1>2, <2>6 DEF TypeOK, Discovery, RollBack
  <2>7. CASE Crash(d)
    BY <1>2, <2>7 DEF TypeOK, Discovery, Crash
  <2>. QED
    BY <1>2, <2>1, <2>2, <2>3, <2>4, <2>5, <2>6, <2>7
<1>3. TypeOK /\ UNCHANGED vars => TypeOK'
  BY DEF TypeOK, vars
<1>4. TypeOK /\ [Next]_vars => TypeOK'
  BY <1>2, <1>3 DEF Next
<1>. QED
  BY <1>1, <1>4, PTL DEF Spec

-----------------------------------------------------------------------------
\* Property

\* "Visible freshness and failure health" (docs/integrations.md:122), "connection
\* health and discovery runs are tenant-scoped and audited" (docs/integrations.md:131),
\* and the update that sets status = 'error' (automation.py:221): when the discovery
\* that was answered last has failed and no other is under way, the connection is
\* shown as one that needs attention.
FailureShown ==
    latest = "failed" /\ rowLock = None => status = "error"
=============================================================================
