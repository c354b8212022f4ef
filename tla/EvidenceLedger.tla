--------------------------- MODULE EvidenceLedger ---------------------------
(***************************************************************************)
(* What the direct-upload protocol promises, without its database rows,    *)
(* locks, object keys and failures.  An upload is opened for one claimed   *)
(* body; it becomes at most one evidence record; the record holds exactly  *)
(* the claimed bytes, protected as the retention policy it was recorded    *)
(* under asks; and neither the claim nor the record changes afterwards.    *)
(***************************************************************************)
CONSTANTS
    Uploads,    \* direct uploads a client may ask for
    Bodies,     \* distinguishable artifact contents
    Policies,   \* retention policies of the tenant
    None        \* no claim yet, no record yet

VARIABLES
    claim,      \* the body each upload was authorized for
    ledger      \* the evidence each upload became

ledgerVars == <<claim, ledger>>

Record == [body : Bodies, policy : Policies]

LedgerTypeOK ==
    /\ claim \in [Uploads -> Bodies \cup {None}]
    /\ ledger \in [Uploads -> Record \cup {None}]

Init ==
    /\ claim = [u \in Uploads |-> None]
    /\ ledger = [u \in Uploads |-> None]

\* An upload is authorized for one body.
Open(u, b) ==
    /\ claim[u] = None
    /\ claim' = [claim EXCEPT ![u] = b]
    /\ UNCHANGED ledger

\* The upload becomes evidence: the claimed body, under some policy.
Commit(u, p) ==
    /\ claim[u] # None
    /\ ledger[u] = None
    /\ ledger' = [ledger EXCEPT ![u] = [body |-> claim[u], policy |-> p]]
    /\ UNCHANGED claim

Next ==
    \E u \in Uploads :
        \/ \E b \in Bodies : Open(u, b)
        \/ \E p \in Policies : Commit(u, p)

Spec == Init /\ [][Next]_ledgerVars
=============================================================================
