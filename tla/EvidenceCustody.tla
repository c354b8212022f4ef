--------------------------- MODULE EvidenceCustody ---------------------------
(***************************************************************************)
(* What scan results, legal holds and downloads of stored evidence         *)
(* promise, without transactions, row locks, answers and crashes.  A       *)
(* change and its entry in the ledger happen together, and the entries of  *)
(* an artifact are in the order of its changes; an artifact is handed out  *)
(* by a permission that was given while it was clean, and only once for    *)
(* each.                                                                   *)
(***************************************************************************)
EXTENDS Naturals

CONSTANTS
    Stored,         \* artifacts
    Downloads,      \* downloads
    Changes,        \* what may happen to an artifact
    NewLifecycle    \* what is recorded of a new artifact

VARIABLES
    lifecycle,      \* what is recorded of each artifact
    ledger,         \* entries, each with its number
    permit,         \* the artifact a download may still hand out, if any
    url             \* the artifact a download has handed out, if it still can be had

custodyVars == <<lifecycle, ledger, permit, url>>

Init ==
    /\ lifecycle = [e \in Stored |-> NewLifecycle]
    /\ ledger = {}
    /\ permit = [d \in Downloads |-> {}]
    /\ url = [d \in Downloads |-> {}]

Entry == [id : Nat, artifact : Stored, change : Changes]

\* The entry y has a number of its own, beyond those of the artifact's other entries.
Record(y) ==
    /\ \A z \in ledger : z.id # y.id /\ (z.artifact = y.artifact => z.id < y.id)
    /\ ledger' = ledger \cup {y}
    /\ lifecycle' = [lifecycle EXCEPT ![y.artifact] =
            IF y.change.field = "scan" THEN [@ EXCEPT !.scan = y.change.value]
                                       ELSE [@ EXCEPT !.hold = y.change.value]]
    /\ UNCHANGED <<permit, url>>

Permit(d, e) ==
    /\ lifecycle[e].scan = "clean"
    /\ permit[d] = {} /\ url[d] = {}
    /\ permit' = [permit EXCEPT ![d] = {e}]
    /\ UNCHANGED <<lifecycle, ledger, url>>

HandOut(d) ==
    /\ permit[d] # {}
    /\ permit' = [permit EXCEPT ![d] = {}]
    /\ url' = [url EXCEPT ![d] = permit[d]]
    /\ UNCHANGED <<lifecycle, ledger>>

GiveUp(d) ==
    /\ permit' = [permit EXCEPT ![d] = {}]
    /\ UNCHANGED <<lifecycle, ledger, url>>

Lapse(d) ==
    /\ url' = [url EXCEPT ![d] = {}]
    /\ UNCHANGED <<lifecycle, ledger, permit>>

Next ==
    \/ \E y \in ledger' : y \in Entry /\ Record(y)
    \/ \E d \in Downloads :
          \/ \E e \in Stored : Permit(d, e)
          \/ HandOut(d) \/ GiveUp(d) \/ Lapse(d)

Spec == Init /\ [][Next]_custodyVars
=============================================================================
