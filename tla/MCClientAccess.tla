---------------------------- MODULE MCClientAccess ----------------------------
(***************************************************************************)
(* Two tenants with one administrator, and a guest who has no access to    *)
(* the first, a suspended or an active membership, and none in the other   *)
(* or an active one.                                                       *)
(***************************************************************************)
EXTENDS ClientAccess

CONSTANTS o1, o2, boss, guest

Member(role, active) == [role |-> role, active |-> active]

MCInitial ==
    {[o \in Orgs |-> [p \in People |->
        IF p = boss THEN Member("customer_admin", TRUE)
        ELSE IF o = o1 THEN first ELSE second]] :
        first \in {None, Member("reviewer", FALSE), Member("reviewer", TRUE)},
        second \in {None, Member("reviewer", TRUE)}}
=============================================================================
