---------------------------- MODULE PolicyDocument ----------------------------
(***************************************************************************)
(* What the policy library promises about one document, without requests,  *)
(* locks and failures: it has a current version and a status; a revision   *)
(* starts the next version as a draft; a decision sets the status of the   *)
(* current version.                                                        *)
(***************************************************************************)
EXTENDS Naturals

CONSTANT Decisions      \* the statuses an approver may set

VARIABLES
    document,   \* the current version and its status
    approved    \* the versions that were approved at some time

documentVars == <<document, approved>>

Init ==
    /\ document = [current |-> 1, status |-> "draft"]
    /\ approved = {}

Revise ==
    /\ document' = [current |-> document.current + 1, status |-> "draft"]
    /\ UNCHANGED approved

Decide(decision) ==
    /\ document' = [document EXCEPT !.status = decision]
    /\ approved' = IF decision = "approved" THEN approved \cup {document.current}
                                            ELSE approved

Next == Revise \/ \E decision \in Decisions : Decide(decision)

Spec == Init /\ [][Next]_documentVars
=============================================================================
