---------------------------- MODULE AgreementLedger ----------------------------
(***************************************************************************)
(* What requests to acknowledge a document promise, without calls, row     *)
(* locks, index keys and crashes.  A request is issued whole, for one      *)
(* recipient and one version that was approved, and never changes; it is   *)
(* signed once, or withdrawn, and neither is ever undone; and of the       *)
(* renewals of a request at most one stands.                               *)
(***************************************************************************)
CONSTANTS
    Agreements,     \* names of requests
    Recipients,     \* people asked to sign
    Versions,       \* versions of the document
    None            \* no request

VARIABLES
    approved,       \* versions that were approved at some time
    issued,         \* requests
    receipts,       \* acknowledgements
    withdrawn       \* the names of requests that were withdrawn

ledgerVars == <<approved, issued, receipts, withdrawn>>

Request == [agreement : Agreements, recipient : Recipients, version : Versions,
            renews : Agreements \cup {None}]

Init == approved = {} /\ issued = {} /\ receipts = {} /\ withdrawn = {}

Signed(g) == \E r \in receipts : r.agreement = g

Pending(x) == x.agreement \notin withdrawn /\ ~Signed(x.agreement)

Approve(v) ==
    /\ approved' = approved \cup {v}
    /\ UNCHANGED <<issued, receipts, withdrawn>>

\* A renewal asks the one who signed, while no other renewal stands.
MayRenew(x) ==
    /\ \E y \in issued : /\ y.agreement = x.renews
                         /\ y.recipient = x.recipient
                         /\ Signed(y.agreement)
    /\ \A y \in issued : y.renews = x.renews => y.agreement \in withdrawn

Ask(x) ==
    /\ \A y \in issued : y.agreement # x.agreement
    /\ x.version \in approved
    /\ \A y \in issued : Pending(y) =>
            y.recipient # x.recipient \/ y.version # x.version
    /\ x.renews # None => MayRenew(x)
    /\ issued' = issued \cup {x}
    /\ UNCHANGED <<approved, receipts, withdrawn>>

Sign(x) ==
    /\ Pending(x)
    /\ receipts' = receipts \cup {[agreement |-> x.agreement, version |-> x.version,
                                   signer |-> x.recipient]}
    /\ UNCHANGED <<approved, issued, withdrawn>>

Withdraw(x) ==
    /\ Pending(x)
    /\ withdrawn' = withdrawn \cup {x.agreement}
    /\ UNCHANGED <<approved, issued, receipts>>

Next ==
    \/ \E v \in Versions : Approve(v)
    \/ \E x \in Request : Ask(x)
    \/ \E x \in issued : Sign(x) \/ Withdraw(x)

Spec == Init /\ [][Next]_ledgerVars
=============================================================================
