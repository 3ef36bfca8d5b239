--------------------------- MODULE MCTenantContext ---------------------------
(* A task that nests three scopes of a tenant and the system, and one with a *)
(* scope of another tenant, over two connections.                            *)
EXTENDS TenantContext, TLC

CONSTANTS t1, t2, a, b

MCTasks == {t1, t2}
MCTenants == {a, b}
MCModesOf == t1 :> {a, System} @@ t2 :> {b, System}
MCScopes == t1 :> 3 @@ t2 :> 1
=============================================================================
