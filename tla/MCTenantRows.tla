---------------------------- MODULE MCTenantRows ----------------------------
(* Five sets of transactions on the rows of a tenant that share nothing: a   *)
(* behaviour is one of a single set.                                          *)
(*   workspaces  two users, each with a workspace, and an invitation of the   *)
(*               second user to the first workspace                           *)
(*   tenants     two commands that create the tenant and one that changes it, *)
(*               two of them through one handler, and a caller that saves     *)
(*               without a unit of work                                       *)
(*   website     three monitoring runs of a page                              *)
(*   advice      two monitoring runs, two diagnoses and a finding             *)
(*   credits     those of MCBilling                                           *)
EXTENDS Workspaces, AdminCommands, Recommendations, MCBilling

CONSTANTS u1, u2, s1, s2, i1, c1, c2, c3, h1, h2

MCUnitOf == (c1 :> h1) @@ (c2 :> h1) @@ (c3 :> h2)

MCInviteOf == (i1 :> [space |-> s1, user |-> u2, role |-> "viewer"])

MCCalls ==
  { [op |-> "invite", space |-> s1, arg |-> i1],
    [op |-> "remove", space |-> s1, arg |-> u2],
    [op |-> "update", space |-> s1, arg |-> [user |-> u2, role |-> "super_admin"]],
    [op |-> "switch", space |-> s1, arg |-> NoRole] }

VARIABLE actions   \* the set that is in use

rowsVars == <<actions, wsVars, adminVars, recommendationVars, billingVars>>

RowsInit ==
  /\ actions \in {"workspaces", "tenants", "website", "advice", "credits"}
  /\ WsInit /\ AdminInit /\ RecommendationsInit /\ BillingInit
  /\ actions # "tenants" => ~memory /\ version = 0

RowsNext ==
  \/ /\ actions = "workspaces" /\ WsNext
     /\ UNCHANGED <<actions, adminVars, recommendationVars, billingVars>>
  \/ /\ actions = "tenants" /\ AdminNext
     /\ UNCHANGED <<actions, wsVars, recommendationVars, billingVars>>
  \/ /\ actions = "website" /\ MonitoringNext
     /\ UNCHANGED <<actions, wsVars, adminVars, adviceVars, billingVars>>
  \/ /\ actions = "advice" /\ RecommendationsNext /\ captures' <= 2
     /\ UNCHANGED <<actions, wsVars, adminVars, billingVars>>
  \/ /\ actions = "credits" /\ BillingNext
     /\ UNCHANGED <<actions, wsVars, adminVars, recommendationVars>>

RowsSpec == RowsInit /\ [][RowsNext]_rowsVars
=============================================================================
