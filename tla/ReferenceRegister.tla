-------------------------- MODULE ReferenceRegister --------------------------
(***************************************************************************)
(* What the references to a policy document promise, without requests,     *)
(* index keys, locks and crashes: a row is entered as a whole, when no row *)
(* excludes it, the rows it requires are there and the version it pins has *)
(* been approved; and only rows of some kinds are ever taken out.          *)
(***************************************************************************)
EXTENDS Naturals

CONSTANTS
    Rows,       \* names of rows
    Items,      \* what may be entered
    Exclusive,  \* pairs of items of which one keeps the other out
    Required,   \* per item, the items that have to be there
    Pinning,    \* items that pin a version of the document
    Removable   \* items that may be taken out

VARIABLES
    approved,   \* versions that were approved at some time
    register    \* the rows there are

registerVars == <<approved, register>>

Reference == [row : Rows, item : Items, version : Nat]

Init == approved = {} /\ register = {}

Approve(n) ==
    /\ approved' = approved \cup {n}
    /\ UNCHANGED register

Enter(y) ==
    /\ \A z \in register : z.row # y.row /\ <<z.item, y.item>> \notin Exclusive
    /\ \A x \in Required[y.item] : \E z \in register : z.item = x
    /\ y.item \in Pinning => y.version \in approved
    /\ register' = register \cup {y}
    /\ UNCHANGED approved

Remove(y) ==
    /\ y.item \in Removable
    /\ register' = register \ {y}
    /\ UNCHANGED approved

Next ==
    \/ \E n \in approved' : Approve(n)
    \/ \E y \in register' : y \in Reference /\ Enter(y)
    \/ \E y \in register : Remove(y)

Spec == Init /\ [][Next]_registerVars
=============================================================================
