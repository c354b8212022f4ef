---------------------------- MODULE MCTrustCenter ----------------------------
(***************************************************************************)
(* Two hostnames of one tenant, one of which another tenant wants too.     *)
(***************************************************************************)
EXTENDS TrustCenter

CONSTANTS owner, rival, h1, h2

MCOwner == [h \in Hostnames |-> owner]
MCWants == [t \in Tenants |-> IF t = owner THEN {h1, h2} ELSE {h1}]
=============================================================================
