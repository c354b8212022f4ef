-------------------------- MODULE MCPolicyReferences --------------------------
\* A publication of the document, the accountability for it of two roles, a third role,
\* to be created, and its primary holder.
EXTENDS PolicyReferences

AccountableRole(role) == [table |-> "mapping", role |-> role, target |-> "document",
                          raci |-> "accountable"]

MCItems == {Resource, [table |-> "role", role |-> "team"],
            AccountableRole("officer"), AccountableRole("lead"),
            [table |-> "holder", role |-> "team", current |-> TRUE]}
MCRoles == {"officer", "lead"}
=============================================================================
