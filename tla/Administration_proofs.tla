------------------------ MODULE Administration_proofs -------------------------
(***************************************************************************)
(* Workspaces with any users, invitations and server actions, the units    *)
(* of work of any number of commands, clients and connections, and any     *)
(* number of monitoring runs and diagnoses: who is a member and with       *)
(* which role, which unit of work is returned and who ends the shared      *)
(* transaction, which alerts are open and what is advised on them.         *)
(***************************************************************************)
EXTENDS Workspaces, AdminCommands, Recommendations, FiniteSetTheorems, TLAPS

(* Workspaces.                                                              *)

Called(op, args) ==
  [step : {"member", "role", "act", "read"}, user : Users, was : Roles,
   op : {op}, space : Spaces, arg : args]

Calling ==
  Called("invite", Invites) \cup Called("remove", Users)
    \cup Called("update", [user : Users, role : Roles]) \cup Called("switch", {NoRole})

Replying == [step : {"reply"}, user : Users, space : Spaces, role : Roles]
Joining == [step : {"join"}, user : Users, arg : Invites]

WsTypeOK ==
  /\ founder \in [Spaces -> Users \cup {NoUser}]
  /\ member \in [Spaces -> [Users -> Roles \cup {NoRole}]]
  /\ invite \in [Invites -> {"none", "pending", "accepted"}]
  /\ cookie \in [Users -> [space : Spaces, role : Roles] \cup {NoCookie}]
  /\ req \in [Requests -> {Idle} \cup Calling \cup Replying \cup Joining]
  /\ uses \in [Invites -> Nat]
  /\ removals \in [Spaces -> [Users -> Nat]]
  /\ wasAdmin \in [Requests -> BOOLEAN]

\* What a request has become: it has gone on, ended, or is a new one.
LEMMA RequestFacts ==
  ASSUME WsTypeOK, NEW r \in Requests
  PROVE  /\ req[r].step \in {"member", "role", "act", "read"} => req[r] \in Calling
         /\ req[r].step = "reply" => req[r] \in Replying
         /\ req[r].step = "join" => req[r] \in Joining
         /\ req[r].step = "idle" => req[r] = Idle
<1>1. req[r] \in {Idle} \cup Calling \cup Replying \cup Joining
  BY DEF WsTypeOK
<1> QED
  BY <1>1 DEF Idle, Calling, Called, Replying, Joining

\* What the calls are about.
LEMMA CallFacts ==
  ASSUME NEW q \in Calling
  PROVE  /\ q.user \in Users /\ q.was \in Roles /\ q.space \in Spaces
         /\ q.op = "invite" => q.arg \in Invites
         /\ q.op = "remove" => q.arg \in Users
         /\ q.op = "update" => q.arg.user \in Users /\ q.arg.role \in Roles
         /\ \A to \in {"member", "role", "act", "read"} : [q EXCEPT !.step = to] \in Calling
         /\ q # Idle /\ "op" \in DOMAIN q
<1>1. CASE q \in Called("invite", Invites)
  BY <1>1 DEF Calling, Called, Idle
<1>2. CASE q \in Called("remove", Users)
  BY <1>2 DEF Calling, Called, Idle
<1>3. CASE q \in Called("update", [user : Users, role : Roles])
  BY <1>3 DEF Calling, Called, Idle
<1>4. CASE q \in Called("switch", {NoRole})
  BY <1>4 DEF Calling, Called, Idle
<1> QED
  BY <1>1, <1>2, <1>3, <1>4 DEF Calling

\* Every step keeps the types.
LEMMA WsTypeStep ==
  ASSUME WsTypeOK, [WsNext]_wsVars PROVE WsTypeOK'
<1> USE WorkspacesAssumption
<1> DEFINE Request == {Idle} \cup Calling \cup Replying \cup Joining
<1> DEFINE TablesOK ==
      /\ founder \in [Spaces -> Users \cup {NoUser}]
      /\ member \in [Spaces -> [Users -> Roles \cup {NoRole}]]
      /\ invite \in [Invites -> {"none", "pending", "accepted"}]
      /\ cookie \in [Users -> [space : Spaces, role : Roles] \cup {NoCookie}]
      /\ uses \in [Invites -> Nat]
      /\ removals \in [Spaces -> [Users -> Nat]]
<1> DEFINE RequestsOK == req \in [Requests -> Request]
<1>0. TablesOK /\ RequestsOK
  BY DEF WsTypeOK
<1>1. ASSUME NEW r \in Requests, NEW q \in Request, req' = [req EXCEPT ![r] = q]
      PROVE  RequestsOK'
  <2> HIDE DEF Request
  <2> QED
    BY <1>0, <1>1
<1>2. ASSUME NEW r \in Requests, Ends(r) PROVE RequestsOK'
  BY <1>1, <1>2 DEF Ends
<1>3. ASSUME NEW r \in Requests, NEW u \in Users, Register(r, u)
      PROVE  TablesOK' /\ RequestsOK'
  <2>1. PICK s \in Spaces :
          /\ Found(u, s)
          /\ req' = [req EXCEPT ![r] =
               [step |-> "reply", user |-> u, space |-> s, role |-> "workspace_admin"]]
    BY <1>3 DEF Register
  <2>2. RequestsOK'
    BY <1>1, <2>1 DEF Replying, Roles
  <2> QED
    BY <1>0, <1>3, <2>1, <2>2 DEF Register, Found, counts, Roles
<1>4. ASSUME NEW r \in Requests, NEW u \in Users, Login(r, u)
      PROVE  TablesOK' /\ RequestsOK'
  <2>1. PICK s \in Spaces :
          /\ IsMember(u, s)
          /\ req' = [req EXCEPT ![r] =
               [step |-> "reply", user |-> u, space |-> s, role |-> member[s][u]]]
    BY <1>4 DEF Login
  <2>2. [step |-> "reply", user |-> u, space |-> s, role |-> member[s][u]] \in Replying
    BY <1>0, <2>1 DEF IsMember, Replying
  <2>3. RequestsOK'
    BY <1>1, <2>1, <2>2
  <2> QED
    BY <1>0, <1>4, <2>3 DEF Login, tables, counts
<1>5. ASSUME NEW r \in Requests, NEW u \in Users, Begin(r, u)
      PROVE  TablesOK' /\ RequestsOK'
  <2>1. PICK c \in Calls :
          req' = [req EXCEPT ![r] =
            [step |-> "member", user |-> u, was |-> cookie[u].role,
             op |-> c.op, space |-> c.space, arg |-> c.arg]]
    BY <1>5 DEF Begin
  <2>2. cookie[u].role \in Roles
    BY <1>0, <1>5 DEF Begin
  <2>3. [step |-> "member", user |-> u, was |-> cookie[u].role,
         op |-> c.op, space |-> c.space, arg |-> c.arg] \in Calling
    <3>1. CASE c \in [op : {"invite"}, space : Spaces, arg : Invites]
      BY <2>2, <3>1 DEF Calling, Called
    <3>2. CASE c \in [op : {"remove"}, space : Spaces, arg : Users]
      BY <2>2, <3>2 DEF Calling, Called
    <3>3. CASE c \in [op : {"update"}, space : Spaces, arg : [user : Users, role : Roles]]
      BY <2>2, <3>3 DEF Calling, Called
    <3>4. CASE c \in [op : {"switch"}, space : Spaces, arg : {NoRole}]
      BY <2>2, <3>4 DEF Calling, Called
    <3> QED
      BY <3>1, <3>2, <3>3, <3>4
  <2>4. RequestsOK'
    BY <1>1, <2>1, <2>3
  <2> QED
    BY <1>0, <1>5, <2>4 DEF Begin, tables, counts
<1>6. ASSUME NEW r \in Requests, NEW u \in Users, NEW i \in Invites, AcceptRead(r, u, i)
      PROVE  TablesOK' /\ RequestsOK'
  <2>1. [step |-> "join", user |-> u, arg |-> i] \in Joining
    BY DEF Joining
  <2>2. RequestsOK'
    BY <1>1, <1>6, <2>1 DEF AcceptRead
  <2> QED
    BY <1>0, <1>6, <2>2 DEF AcceptRead, tables, counts
<1>7. ASSUME NEW r \in Requests, Reply(r) PROVE TablesOK' /\ RequestsOK'
  <2>1. req[r] \in Replying
    BY <1>7, RequestFacts DEF Reply
  <2>2. req[r].user \in Users /\ [space |-> req[r].space, role |-> req[r].role]
                                   \in [space : Spaces, role : Roles]
    BY <2>1 DEF Replying
  <2> QED
    BY <1>0, <1>2, <1>7, <2>2 DEF Reply, tables, counts
<1>8. ASSUME NEW r \in Requests, NEW to \in {"member", "role", "act", "read"},
             req[r] \in Calling, Goes(r, to)
      PROVE  RequestsOK'
  <2>1. [req[r] EXCEPT !.step = to] \in Calling
    BY <1>8, CallFacts
  <2>2. req' = [req EXCEPT ![r] = [req[r] EXCEPT !.step = to]]
    BY <1>8 DEF Goes
  <2> QED
    BY <1>1, <2>1, <2>2
<1>9. ASSUME NEW r \in Requests, CheckMembership(r) \/ CheckRole(r)
      PROVE  TablesOK' /\ RequestsOK'
  <2>1. req[r] \in Calling
    BY <1>9, RequestFacts DEF CheckMembership, CheckRole
  <2>2. Ends(r) \/ \E to \in {"member", "role", "act", "read"} : Goes(r, to)
    BY <1>9 DEF CheckMembership, CheckRole
  <2> QED
    BY <1>0, <1>2, <1>8, <1>9, <2>1, <2>2 DEF CheckMembership, CheckRole, tables, counts
<1>10. ASSUME NEW r \in Requests, SwitchRead(r) PROVE TablesOK' /\ RequestsOK'
  <2>1. req[r] \in Calling
    BY <1>10, RequestFacts DEF SwitchRead
  <2>2. req[r].user \in Users /\ req[r].space \in Spaces
    BY <2>1, CallFacts
  <2>3. CASE IsMember(req[r].user, req[r].space)
    <3>1. [step |-> "reply", user |-> req[r].user, space |-> req[r].space,
           role |-> member[req[r].space][req[r].user]] \in Replying
      BY <1>0, <2>2, <2>3 DEF IsMember, Replying
    <3> QED
      BY <1>0, <1>1, <1>10, <2>3, <3>1 DEF SwitchRead, tables, counts
  <2> QED
    BY <1>0, <1>2, <1>10, <2>3 DEF SwitchRead, tables, counts
<1>11. ASSUME NEW r \in Requests, InviteUser(r) PROVE TablesOK' /\ RequestsOK'
  <2>1. req[r].arg \in Invites
    BY <1>11, RequestFacts, CallFacts DEF InviteUser
  <2> QED
    BY <1>0, <1>2, <1>11, <2>1 DEF InviteUser, counts
<1>12. ASSUME NEW r \in Requests, RemoveMember(r) PROVE TablesOK' /\ RequestsOK'
  <2>1. req[r].space \in Spaces /\ req[r].arg \in Users
    BY <1>12, RequestFacts, CallFacts DEF RemoveMember
  <2> QED
    BY <1>0, <1>2, <1>12, <2>1 DEF RemoveMember
<1>13. ASSUME NEW r \in Requests, UpdateRole(r) PROVE TablesOK' /\ RequestsOK'
  <2>1. req[r].space \in Spaces /\ req[r].arg.user \in Users /\ req[r].arg.role \in Roles
    BY <1>13, RequestFacts, CallFacts DEF UpdateRole
  <2> QED
    BY <1>0, <1>2, <1>13, <2>1 DEF UpdateRole, counts
<1>14. ASSUME NEW r \in Requests, AcceptJoin(r) PROVE TablesOK' /\ RequestsOK'
  <2>1. req[r].arg \in Invites /\ req[r].user \in Users
    BY <1>14, RequestFacts DEF AcceptJoin, Joining
  <2>2. InviteOf[req[r].arg].space \in Spaces /\ InviteOf[req[r].arg].role \in Roles
    BY <2>1
  <2> QED
    BY <1>0, <1>2, <1>14, <2>1, <2>2 DEF AcceptJoin
<1>15. ASSUME NEW r \in Requests, ActionFails(r) PROVE TablesOK' /\ RequestsOK'
  BY <1>0, <1>2, <1>15 DEF ActionFails, tables, counts
<1>16. ASSUME NEW u \in Users, SessionEnds(u) PROVE TablesOK' /\ RequestsOK'
  BY <1>0, <1>16 DEF SessionEnds, tables, counts
<1>17. ASSUME NEW u \in Users, CreateWorkspace(u) PROVE TablesOK' /\ RequestsOK'
  BY <1>0, <1>17 DEF CreateWorkspace, Found, counts, Roles
<1>18. ASSUME NEW i \in Invites, Lapse(i) PROVE TablesOK' /\ RequestsOK'
  BY <1>0, <1>18 DEF Lapse, counts
<1>19. CASE UNCHANGED wsVars
  BY <1>0, <1>19 DEF wsVars, tables, counts, WsTypeOK
<1>20. ASSUME WsNext PROVE WsTypeOK'
  <2>1. TablesOK' /\ RequestsOK'
    <3> HIDE DEF TablesOK, RequestsOK
    <3> QED
      BY <1>3, <1>4, <1>5, <1>6, <1>7, <1>9, <1>10, <1>11, <1>12, <1>13, <1>14, <1>15,
         <1>16, <1>17, <1>18, <1>20, Zenon DEF WsNext, WsStep
  <2>2. wasAdmin' \in [Requests -> BOOLEAN]
    <3>1. wasAdmin \in [Requests -> BOOLEAN]
      BY DEF WsTypeOK
    <3> HIDE DEF TablesOK, RequestsOK
    <3>2. \A r \in Requests : AdminNow(r) \in BOOLEAN
      BY DEF AdminNow
    <3>3. wasAdmin' = [r \in Requests |-> AdminNow(r) \/ (wasAdmin[r] /\ req'[r] # Idle)]
      BY <1>20 DEF WsNext, Observe
    <3> QED
      BY <3>1, <3>2, <3>3, Zenon
  <2> QED
    BY <2>1, <2>2 DEF WsTypeOK
<1> QED
  BY <1>19, <1>20

-----------------------------------------------------------------------------

\* Who is about to join has been invited.
Invited ==
  \A r \in Requests : req[r].step = "join" => InviteOf[req[r].arg].user = req[r].user

\* An invitation that has made its member once more has been used by that one.
UsesAccounted ==
  \A i \in Invites :
    LET s == InviteOf[i].space u == InviteOf[i].user IN
    uses[i] <= removals[s][u] + (IF IsMember(u, s) THEN 1 ELSE 0)

\* The roles of members and of sessions on their way have been held.
RolesHeld ==
  /\ \A s \in Spaces, u \in Users : IsMember(u, s) => <<s, u, member[s][u]>> \in held
  /\ \A r \in Requests :
       req[r].step = "reply" => <<req[r].space, req[r].user, req[r].role>> \in held
  /\ SessionRoleWasHeld

\* An action that is about to take effect has passed its check.
ActsAsAdmin ==
  \A r \in Requests : req[r].step = "act" => wasAdmin[r] \/ req[r].was = "super_admin"

MembershipInv == Invited /\ MembersWereInvited /\ UsesAccounted

WsInv == WsTypeOK /\ MembershipInv /\ RolesHeld /\ ActsAsAdmin

\* The invariant holds initially.
LEMMA WsInitially == WsInit => WsInv
<1> SUFFICES ASSUME WsInit PROVE WsInv
  OBVIOUS
<1> USE WorkspacesAssumption DEF WsInit
<1>1. WsTypeOK
  BY DEF WsTypeOK
<1>2. MembershipInv
  BY DEF MembershipInv, Invited, MembersWereInvited, UsesAccounted, IsMember, Idle
<1>3. RolesHeld
  BY DEF RolesHeld, SessionRoleWasHeld, IsMember, Idle
<1>4. ActsAsAdmin
  BY DEF ActsAsAdmin, Idle
<1> QED
  BY <1>1, <1>2, <1>3, <1>4 DEF WsInv

\* What a step may do to the requests, and to members and invitations, as far as
\* memberships are concerned.
LEMMA MembershipStep ==
  ASSUME WsTypeOK, WsTypeOK', MembershipInv, WsStep
  PROVE  MembershipInv'
<1> USE WorkspacesAssumption
<1>0. /\ Invited /\ MembersWereInvited /\ UsesAccounted
      /\ founder \in [Spaces -> Users \cup {NoUser}]
      /\ member \in [Spaces -> [Users -> Roles \cup {NoRole}]]
      /\ invite \in [Invites -> {"none", "pending", "accepted"}]
      /\ uses \in [Invites -> Nat] /\ removals \in [Spaces -> [Users -> Nat]]
      /\ req \in [Requests -> {Idle} \cup Calling \cup Replying \cup Joining]
  BY DEF WsTypeOK, MembershipInv
<1> DEFINE Kept == UNCHANGED <<founder, member, invite, uses, removals>>
<1>1. ASSUME Kept PROVE MembersWereInvited' /\ UsesAccounted'
  BY <1>0, <1>1 DEF MembersWereInvited, UsesAccounted, IsMember
<1>2. ASSUME NEW r \in Requests, NEW q, req' = [req EXCEPT ![r] = q],
             q.step = "join" => InviteOf[q.arg].user = q.user
      PROVE  Invited'
  BY <1>0, <1>2 DEF Invited
<1>3. ASSUME NEW r \in Requests, Ends(r) PROVE Invited'
  BY <1>2, <1>3 DEF Ends, Idle
<1>4. ASSUME NEW u \in Users, NEW s \in Spaces, Found(u, s)
      PROVE  MembersWereInvited' /\ UsesAccounted'
  <2>1. /\ founder[s] = NoUser /\ founder' = [founder EXCEPT ![s] = u]
        /\ member' = [member EXCEPT ![s][u] = "workspace_admin"]
        /\ UNCHANGED <<invite, uses, removals>>
    BY <1>4 DEF Found, counts
  <2>2. ASSUME NEW t \in Spaces, NEW v \in Users, IsMember(v, t)', founder'[t] # v
        PROVE  IsMember(v, t) /\ founder[t] # v
    BY <1>0, <2>1, <2>2 DEF IsMember
  <2>3. MembersWereInvited'
    BY <1>0, <2>1, <2>2 DEF MembersWereInvited
  <2>4. \A t \in Spaces, v \in Users : IsMember(v, t) => IsMember(v, t)'
    BY <1>0, <2>1 DEF IsMember, Roles
  <2>5. UsesAccounted'
    <3> SUFFICES ASSUME NEW i \in Invites
                 PROVE  uses'[i] <= removals'[InviteOf[i].space][InviteOf[i].user]
                          + (IF IsMember(InviteOf[i].user, InviteOf[i].space)' THEN 1 ELSE 0)
      BY DEF UsesAccounted
    <3>1. InviteOf[i].space \in Spaces /\ InviteOf[i].user \in Users
      OBVIOUS
    <3>2. uses[i] <= removals[InviteOf[i].space][InviteOf[i].user]
                       + (IF IsMember(InviteOf[i].user, InviteOf[i].space) THEN 1 ELSE 0)
      BY <1>0 DEF UsesAccounted
    <3> QED
      BY <1>0, <2>1, <2>4, <3>1, <3>2 DEF IsMember
  <2> QED
    BY <2>3, <2>5
<1>5. ASSUME NEW r \in Requests, NEW u \in Users, Register(r, u) PROVE MembershipInv'
  <2>1. PICK s \in Spaces :
          /\ Found(u, s)
          /\ req' = [req EXCEPT ![r] =
               [step |-> "reply", user |-> u, space |-> s, role |-> "workspace_admin"]]
    BY <1>5 DEF Register
  <2>2. Invited'
    BY <1>2, <2>1
  <2> QED
    BY <1>4, <2>1, <2>2 DEF MembershipInv
<1>6. ASSUME NEW r \in Requests, NEW u \in Users, Login(r, u) PROVE MembershipInv'
  <2>1. PICK s \in Spaces :
          req' = [req EXCEPT ![r] =
               [step |-> "reply", user |-> u, space |-> s, role |-> member[s][u]]]
    BY <1>6 DEF Login
  <2>2. Invited'
    BY <1>2, <2>1
  <2> QED
    BY <1>1, <1>6, <2>2 DEF MembershipInv, Login, tables, counts
<1>7. ASSUME NEW r \in Requests, NEW u \in Users, Begin(r, u) PROVE MembershipInv'
  <2>1. PICK c \in Calls :
          req' = [req EXCEPT ![r] =
            [step |-> "member", user |-> u, was |-> cookie[u].role,
             op |-> c.op, space |-> c.space, arg |-> c.arg]]
    BY <1>7 DEF Begin
  <2>2. Invited'
    BY <1>2, <2>1
  <2> QED
    BY <1>1, <1>7, <2>2 DEF MembershipInv, Begin, tables, counts
<1>8. ASSUME NEW r \in Requests, NEW u \in Users, NEW i \in Invites, AcceptRead(r, u, i)
      PROVE  MembershipInv'
  <2>1. Invited'
    BY <1>2, <1>8 DEF AcceptRead
  <2> QED
    BY <1>1, <1>8, <2>1 DEF MembershipInv, AcceptRead, tables, counts
<1>9. ASSUME NEW r \in Requests, Reply(r) \/ ActionFails(r) PROVE MembershipInv'
  BY <1>1, <1>3, <1>9 DEF MembershipInv, Reply, ActionFails, tables, counts
<1>10. ASSUME NEW r \in Requests, NEW to \in {"role", "act", "read"}, Goes(r, to)
       PROVE  Invited'
  <2>1. [req[r] EXCEPT !.step = to].step # "join"
    BY <1>0 DEF Idle, Calling, Called, Replying, Joining
  <2> QED
    BY <1>2, <1>10, <2>1 DEF Goes
<1>11. ASSUME NEW r \in Requests, CheckMembership(r) \/ CheckRole(r) PROVE MembershipInv'
  <2>1. Ends(r) \/ \E to \in {"role", "act", "read"} : Goes(r, to)
    BY <1>11 DEF CheckMembership, CheckRole
  <2> QED
    BY <1>1, <1>3, <1>10, <1>11, <2>1
       DEF MembershipInv, CheckMembership, CheckRole, tables, counts
<1>12. ASSUME NEW r \in Requests, SwitchRead(r) PROVE MembershipInv'
  <2>1. Ends(r) \/ req' = [req EXCEPT ![r] = [step |-> "reply", user |-> req[r].user,
                      space |-> req[r].space, role |-> member[req[r].space][req[r].user]]]
    BY <1>12 DEF SwitchRead
  <2>2. Invited'
    BY <1>2, <1>3, <2>1
  <2> QED
    BY <1>1, <1>12, <2>2 DEF MembershipInv, SwitchRead, tables, counts
<1>13. ASSUME NEW r \in Requests, InviteUser(r) PROVE MembershipInv'
  <2>1. req[r].arg \in Invites /\ Invited'
    BY <1>3, <1>13, RequestFacts, CallFacts DEF InviteUser
  <2>2. \A i \in Invites : invite[i] = "accepted" => invite'[i] = "accepted"
    BY <1>0, <1>13, <2>1 DEF InviteUser
  <2>3. UNCHANGED <<founder, member, uses, removals>>
    BY <1>13 DEF InviteUser, counts
  <2>4. MembersWereInvited'
    BY <1>0, <2>2, <2>3 DEF MembersWereInvited, IsMember
  <2>5. UsesAccounted'
    BY <1>0, <2>3 DEF UsesAccounted, IsMember
  <2> QED
    BY <2>1, <2>4, <2>5 DEF MembershipInv
<1>14. ASSUME NEW r \in Requests, RemoveMember(r) PROVE MembershipInv'
  <2> DEFINE s == req[r].space t == req[r].arg
  <2>1. s \in Spaces /\ t \in Users /\ Invited'
    BY <1>3, <1>14, RequestFacts, CallFacts DEF RemoveMember
  <2>2. /\ member' = [member EXCEPT ![s][t] = NoRole]
        /\ removals' = [removals EXCEPT ![s][t] = IF IsMember(t, s) THEN @ + 1 ELSE @]
        /\ UNCHANGED <<founder, invite, uses>>
    BY <1>14 DEF RemoveMember
  <2> HIDE DEF s, t
  <2>3. MembersWereInvited'
    BY <1>0, <2>1, <2>2 DEF MembersWereInvited, IsMember
  <2>4. UsesAccounted'
    <3> SUFFICES ASSUME NEW i \in Invites
                 PROVE  uses'[i] <= removals'[InviteOf[i].space][InviteOf[i].user]
                          + (IF IsMember(InviteOf[i].user, InviteOf[i].space)' THEN 1 ELSE 0)
      BY DEF UsesAccounted
    <3>1. InviteOf[i].space \in Spaces /\ InviteOf[i].user \in Users
      OBVIOUS
    <3>2. uses[i] <= removals[InviteOf[i].space][InviteOf[i].user]
                       + (IF IsMember(InviteOf[i].user, InviteOf[i].space) THEN 1 ELSE 0)
      BY <1>0 DEF UsesAccounted
    <3>3. CASE InviteOf[i].space = s /\ InviteOf[i].user = t
      <4>1. member'[s][t] = NoRole
        BY <1>0, <2>1, <2>2
      <4>2. removals'[s][t] = removals[s][t] + (IF IsMember(t, s) THEN 1 ELSE 0)
        BY <1>0, <2>1, <2>2
      <4> QED
        BY <1>0, <2>1, <2>2, <3>1, <3>2, <3>3, <4>1, <4>2 DEF IsMember
    <3>4. CASE ~(InviteOf[i].space = s /\ InviteOf[i].user = t)
      BY <1>0, <2>1, <2>2, <3>1, <3>2, <3>4 DEF IsMember
    <3> QED
      BY <3>3, <3>4
  <2> QED
    BY <2>1, <2>3, <2>4 DEF MembershipInv
<1>15. ASSUME NEW r \in Requests, UpdateRole(r) PROVE MembershipInv'
  <2> DEFINE s == req[r].space t == req[r].arg.user role == req[r].arg.role
  <2>1. s \in Spaces /\ t \in Users /\ role \in Roles /\ Invited'
    BY <1>3, <1>15, RequestFacts, CallFacts DEF UpdateRole
  <2>2. /\ member' = [member EXCEPT ![s][t] = IF IsMember(t, s) THEN role ELSE @]
        /\ UNCHANGED <<founder, invite, uses, removals>>
    BY <1>15 DEF UpdateRole, counts
  <2> HIDE DEF s, t, role
  <2>3. \A x \in Spaces, v \in Users : IsMember(v, x)' <=> IsMember(v, x)
    BY <1>0, <2>1, <2>2 DEF IsMember
  <2>4. MembersWereInvited' /\ UsesAccounted'
    BY <1>0, <2>2, <2>3 DEF MembersWereInvited, UsesAccounted
  <2> QED
    BY <2>1, <2>4 DEF MembershipInv
<1>16. ASSUME NEW r \in Requests, AcceptJoin(r) PROVE MembershipInv'
  <2> DEFINE i == req[r].arg s == InviteOf[i].space u == req[r].user
  <2>1. i \in Invites /\ u \in Users /\ u = InviteOf[i].user /\ Invited'
    BY <1>0, <1>3, <1>16, RequestFacts DEF AcceptJoin, Joining, Invited
  <2>2. /\ ~IsMember(u, s)
        /\ member' = [member EXCEPT ![s][u] = InviteOf[i].role]
        /\ invite' = [invite EXCEPT ![i] = "accepted"]
        /\ uses' = [uses EXCEPT ![i] = @ + 1]
        /\ UNCHANGED <<founder, removals>>
    BY <1>16, <2>1 DEF AcceptJoin, Joinable
  <2>3. s \in Spaces /\ InviteOf[i].role # NoRole
    BY <2>1
  <2>4. invite'[i] = "accepted" /\ InviteOf[i].space = s
        /\ \A j \in Invites : invite[j] = "accepted" => invite'[j] = "accepted"
    BY <1>0, <2>1, <2>2
  <2> HIDE DEF i, s, u
  <2>5. MembersWereInvited'
    BY <1>0, <2>1, <2>2, <2>3, <2>4 DEF MembersWereInvited, IsMember
  <2>6. UsesAccounted'
    BY <1>0, <2>1, <2>2, <2>3, <2>4 DEF UsesAccounted, IsMember
  <2> QED
    BY <2>1, <2>5, <2>6 DEF MembershipInv
<1>17. ASSUME NEW u \in Users, SessionEnds(u) PROVE MembershipInv'
  BY <1>0, <1>1, <1>17 DEF MembershipInv, SessionEnds, Invited, tables, counts
<1>18. ASSUME NEW u \in Users, CreateWorkspace(u) PROVE MembershipInv'
  BY <1>0, <1>4, <1>18 DEF MembershipInv, CreateWorkspace, Invited
<1>19. ASSUME NEW i \in Invites, Lapse(i) PROVE MembershipInv'
  BY <1>0, <1>1, <1>19 DEF MembershipInv, Lapse, Invited, counts
<1> QED
  BY <1>5, <1>6, <1>7, <1>8, <1>9, <1>11, <1>12, <1>13, <1>14, <1>15, <1>16, <1>17, <1>18,
     <1>19, Zenon DEF WsStep

\* A role that a member has behind a step has been held behind it.
LEMMA ObservedRoles ==
  ASSUME WsTypeOK', Observe, held \subseteq held'
  PROVE  \A s \in Spaces, u \in Users : <<s, u, member'[s][u]>> \in held'
BY DEF Observe

\* Every role that a member has or a session shows is one that was held.
LEMMA RolesStep ==
  ASSUME WsTypeOK, WsTypeOK', RolesHeld, WsNext
  PROVE  RolesHeld'
<1> USE WorkspacesAssumption
<1> DEFINE Fresh(q) == q.step = "reply" => <<q.space, q.user, q.role>> \in held'
<1>0. /\ member \in [Spaces -> [Users -> Roles \cup {NoRole}]]
      /\ req \in [Requests -> {Idle} \cup Calling \cup Replying \cup Joining]
      /\ cookie \in [Users -> [space : Spaces, role : Roles] \cup {NoCookie}]
      /\ held \subseteq held'
      /\ \A s \in Spaces, u \in Users : <<s, u, member'[s][u]>> \in held'
  BY DEF WsTypeOK, WsNext, Observe
<1>1. \A s \in Spaces, u \in Users : IsMember(u, s)' => <<s, u, member'[s][u]>> \in held'
  BY <1>0
<1>2. ASSUME NEW r \in Requests, NEW q, req' = [req EXCEPT ![r] = q], Fresh(q)
      PROVE  \A x \in Requests : Fresh(req'[x])
  <2> SUFFICES ASSUME NEW x \in Requests PROVE Fresh(req'[x])
    OBVIOUS
  <2>1. CASE x = r
    BY <1>0, <1>2, <2>1
  <2>2. CASE x # r
    BY <1>0, <1>2, <2>2 DEF RolesHeld
  <2> QED
    BY <2>1, <2>2
<1>3. ASSUME NEW r \in Requests, Ends(r) PROVE \A x \in Requests : Fresh(req'[x])
  <2>1. Fresh(Idle)
    BY DEF Idle
  <2> HIDE DEF Fresh
  <2> QED
    BY <1>2, <1>3, <2>1 DEF Ends
<1>4. ASSUME UNCHANGED req PROVE \A x \in Requests : Fresh(req'[x])
  BY <1>0, <1>4 DEF RolesHeld
<1>5. ASSUME UNCHANGED cookie PROVE SessionRoleWasHeld'
  BY <1>0, <1>5 DEF RolesHeld, SessionRoleWasHeld
<1>6. ASSUME NEW r \in Requests,
             \E u \in Users : Register(r, u) \/ Login(r, u) \/ Begin(r, u)
                              \/ \E i \in Invites : AcceptRead(r, u, i)
      PROVE  (\A x \in Requests : Fresh(req'[x])) /\ UNCHANGED cookie
  <2>1. PICK u \in Users : \/ Register(r, u) \/ Login(r, u) \/ Begin(r, u)
                           \/ \E i \in Invites : AcceptRead(r, u, i)
    BY <1>6
  <2>2. CASE Register(r, u)
    <3>1. PICK s \in Spaces :
            /\ Found(u, s)
            /\ req' = [req EXCEPT ![r] =
                 [step |-> "reply", user |-> u, space |-> s, role |-> "workspace_admin"]]
      BY <2>2 DEF Register
    <3>2. member'[s][u] = "workspace_admin"
      BY <1>0, <3>1 DEF Found
    <3> QED
      BY <1>0, <1>2, <2>2, <3>1, <3>2 DEF Register
  <2>3. CASE Login(r, u)
    <3>1. PICK s \in Spaces :
            req' = [req EXCEPT ![r] =
                 [step |-> "reply", user |-> u, space |-> s, role |-> member[s][u]]]
      BY <2>3 DEF Login
    <3>2. member'[s][u] = member[s][u] /\ UNCHANGED cookie
      BY <2>3 DEF Login, tables
    <3> QED
      BY <1>0, <1>2, <3>1, <3>2
  <2>4. CASE Begin(r, u)
    <3>1. PICK c \in Calls :
            req' = [req EXCEPT ![r] =
              [step |-> "member", user |-> u, was |-> cookie[u].role,
               op |-> c.op, space |-> c.space, arg |-> c.arg]]
      BY <2>4 DEF Begin
    <3> QED
      BY <1>2, <2>4, <3>1 DEF Begin
  <2>5. CASE \E i \in Invites : AcceptRead(r, u, i)
    BY <1>2, <2>5 DEF AcceptRead
  <2> QED
    BY <2>1, <2>2, <2>3, <2>4, <2>5
<1>7. ASSUME NEW r \in Requests, Reply(r)
      PROVE  (\A x \in Requests : Fresh(req'[x])) /\ SessionRoleWasHeld'
  <2> DEFINE u == req[r].user s == req[r].space role == req[r].role
  <2>1. u \in Users /\ s \in Spaces /\ role \in Roles
    BY <1>7, RequestFacts DEF Reply, Replying
  <2>2. <<s, u, role>> \in held'
    BY <1>0, <1>7 DEF Reply, RolesHeld
  <2>3. cookie' = [cookie EXCEPT ![u] = [space |-> s, role |-> role]]
    BY <1>7 DEF Reply
  <2> HIDE DEF u, s, role
  <2>4. SessionRoleWasHeld'
    <3> SUFFICES ASSUME NEW v \in Users, cookie'[v] # NoCookie
                 PROVE  <<cookie'[v].space, v, cookie'[v].role>> \in held'
      BY DEF SessionRoleWasHeld
    <3>1. CASE v = u
      BY <1>0, <2>1, <2>2, <2>3, <3>1
    <3>2. CASE v # u
      BY <1>0, <2>1, <2>3, <3>2 DEF RolesHeld, SessionRoleWasHeld
    <3> QED
      BY <3>1, <3>2
  <2> QED
    BY <1>3, <1>7, <2>4 DEF Reply
<1>8. ASSUME NEW r \in Requests, NEW to \in {"role", "act", "read"}, Goes(r, to)
      PROVE  \A x \in Requests : Fresh(req'[x])
  <2>1. [req[r] EXCEPT !.step = to].step # "reply"
    BY <1>0 DEF Idle, Calling, Called, Replying, Joining
  <2>2. req' = [req EXCEPT ![r] = [req[r] EXCEPT !.step = to]]
    BY <1>8 DEF Goes
  <2> QED
    BY <1>2, <2>1, <2>2
<1>9. ASSUME NEW r \in Requests, CheckMembership(r) \/ CheckRole(r)
      PROVE  (\A x \in Requests : Fresh(req'[x])) /\ UNCHANGED cookie
  <2> HIDE DEF Fresh
  <2>1. Ends(r) \/ \E to \in {"role", "act", "read"} : Goes(r, to)
    BY <1>9 DEF CheckMembership, CheckRole
  <2> QED
    BY <1>3, <1>8, <1>9, <2>1 DEF CheckMembership, CheckRole
<1>10. ASSUME NEW r \in Requests, SwitchRead(r)
       PROVE  (\A x \in Requests : Fresh(req'[x])) /\ UNCHANGED cookie
  <2>1. req[r].user \in Users /\ req[r].space \in Spaces
    BY <1>10, RequestFacts, CallFacts DEF SwitchRead
  <2>2. <<req[r].space, req[r].user, member[req[r].space][req[r].user]>> \in held'
    BY <1>0, <1>10, <2>1 DEF SwitchRead, tables
  <2>3. CASE IsMember(req[r].user, req[r].space)
    BY <1>2, <1>10, <2>2, <2>3 DEF SwitchRead
  <2>4. CASE ~IsMember(req[r].user, req[r].space)
    BY <1>3, <1>10, <2>4 DEF SwitchRead
  <2> QED
    BY <2>3, <2>4
<1>11. ASSUME NEW r \in Requests,
              InviteUser(r) \/ RemoveMember(r) \/ UpdateRole(r) \/ AcceptJoin(r) \/ ActionFails(r)
       PROVE  (\A x \in Requests : Fresh(req'[x])) /\ UNCHANGED cookie
  BY <1>3, <1>11 DEF InviteUser, RemoveMember, UpdateRole, AcceptJoin, ActionFails
<1>12. ASSUME NEW u \in Users, SessionEnds(u) \/ CreateWorkspace(u)
       PROVE  (\A x \in Requests : Fresh(req'[x])) /\ SessionRoleWasHeld'
  <2>1. CASE SessionEnds(u)
    <3>1. SessionRoleWasHeld'
      BY <1>0, <2>1 DEF SessionEnds, RolesHeld, SessionRoleWasHeld
    <3> QED
      BY <1>4, <2>1, <3>1 DEF SessionEnds
  <2>2. CASE CreateWorkspace(u)
    BY <1>4, <1>5, <2>2 DEF CreateWorkspace
  <2> QED
    BY <1>12, <2>1, <2>2
<1>13. ASSUME NEW i \in Invites, Lapse(i)
       PROVE  (\A x \in Requests : Fresh(req'[x])) /\ UNCHANGED cookie
  BY <1>4, <1>13 DEF Lapse
<1>14. WsStep
  BY DEF WsNext
<1>15. (\A x \in Requests : Fresh(req'[x])) /\ SessionRoleWasHeld'
  <2> HIDE DEF Fresh
  <2> QED
    BY <1>5, <1>6, <1>7, <1>9, <1>10, <1>11, <1>12, <1>13, <1>14, Zenon DEF WsStep
<1> QED
  BY <1>1, <1>15 DEF RolesHeld

\* Whoever is past the check of the role was administrator since the action began.
LEMMA AdminStep ==
  ASSUME WsTypeOK, WsTypeOK', ActsAsAdmin, WsNext
  PROVE  ActsAsAdmin'
<1> USE WorkspacesAssumption
<1>0. /\ member \in [Spaces -> [Users -> Roles \cup {NoRole}]]
      /\ req \in [Requests -> {Idle} \cup Calling \cup Replying \cup Joining]
      /\ \A r \in Requests : wasAdmin'[r] <=> (AdminNow(r) \/ (wasAdmin[r] /\ req'[r] # Idle))
  BY DEF WsTypeOK, WsNext, Observe
<1> DEFINE Acts(r) == req'[r].step = "act" => wasAdmin'[r] \/ req'[r].was = "super_admin"
<1>1. ASSUME NEW r \in Requests, req'[r] = req[r] PROVE Acts(r)
  <2> SUFFICES ASSUME req[r].step = "act" PROVE wasAdmin'[r] \/ req[r].was = "super_admin"
    BY <1>1
  <2>1. req'[r] # Idle
    BY <1>1 DEF Idle
  <2> QED
    BY <1>0, <2>1 DEF ActsAsAdmin
<1>2. ASSUME NEW r \in Requests, NEW q, req' = [req EXCEPT ![r] = q], q.step # "act"
      PROVE  \A x \in Requests : Acts(x)
  <2> SUFFICES ASSUME NEW x \in Requests PROVE Acts(x)
    OBVIOUS
  <2>1. CASE x = r
    BY <1>0, <1>2, <2>1
  <2>2. CASE x # r
    BY <1>0, <1>1, <1>2, <2>2
  <2> QED
    BY <2>1, <2>2
<1>3. ASSUME NEW r \in Requests, Ends(r) PROVE \A x \in Requests : Acts(x)
  <2>1. Idle.step # "act"
    BY DEF Idle
  <2> HIDE DEF Acts
  <2> QED
    BY <1>2, <1>3, <2>1 DEF Ends
<1>4. ASSUME NEW r \in Requests, NEW to \in {"role", "read"}, Goes(r, to)
      PROVE  \A x \in Requests : Acts(x)
  <2>1. [req[r] EXCEPT !.step = to].step # "act"
    BY <1>0 DEF Idle, Calling, Called, Replying, Joining
  <2>2. req' = [req EXCEPT ![r] = [req[r] EXCEPT !.step = to]]
    BY <1>4 DEF Goes
  <2> QED
    BY <1>2, <2>1, <2>2
<1>5. ASSUME NEW r \in Requests, CheckRole(r) PROVE \A x \in Requests : Acts(x)
  <2>1. CASE RoleSeen(r) \notin AdminRoles
    BY <1>3, <1>5, <2>1 DEF CheckRole
  <2>2. CASE RoleSeen(r) \in AdminRoles
    <3>1. req[r] \in Calling
      BY <1>5, RequestFacts DEF CheckRole
    <3>2. req' = [req EXCEPT ![r] = [req[r] EXCEPT !.step = "act"]] /\ UNCHANGED member
      BY <1>5, <2>2 DEF CheckRole, Goes, tables
    <3>3. [req[r] EXCEPT !.step = "act"] \in Calling
      BY <3>1, CallFacts
    <3>4. req'[r] = [req[r] EXCEPT !.step = "act"]
      BY <1>0, <3>2
    <3>5. "op" \in DOMAIN req'[r]
      BY <3>3, <3>4, CallFacts
    <3>6. req'[r].space = req[r].space /\ req'[r].user = req[r].user /\ req'[r].was = req[r].was
      BY <3>1, <3>4 DEF Calling, Called
    <3>7. Acts(r)
      <4>1. CASE req[r].was = "super_admin"
        BY <3>6, <4>1
      <4>2. CASE req[r].was # "super_admin"
        <5>1. AdminNow(r)
          BY <2>2, <3>2, <3>5, <3>6, <4>2 DEF AdminNow, RoleSeen
        <5> QED
          BY <1>0, <5>1
      <4> QED
        BY <4>1, <4>2
    <3>8. \A x \in Requests : x # r => req'[x] = req[x]
      BY <1>0, <3>2
    <3> QED
      BY <1>1, <3>7, <3>8
  <2> QED
    BY <2>1, <2>2
<1>6. ASSUME NEW r \in Requests, NEW u \in Users, Begin(r, u) PROVE \A x \in Requests : Acts(x)
  <2>1. PICK c \in Calls :
          req' = [req EXCEPT ![r] =
            [step |-> "member", user |-> u, was |-> cookie[u].role,
             op |-> c.op, space |-> c.space, arg |-> c.arg]]
    BY <1>6 DEF Begin
  <2> DEFINE q == [step |-> "member", user |-> u, was |-> cookie[u].role,
                   op |-> c.op, space |-> c.space, arg |-> c.arg]
  <2>2. q.step # "act"
    OBVIOUS
  <2>3. req' = [req EXCEPT ![r] = q]
    BY <2>1
  <2> HIDE DEF Acts, q
  <2> QED
    BY <1>2, <2>2, <2>3
<1>7. ASSUME NEW r \in Requests, NEW u \in Users, Register(r, u) \/ Login(r, u)
      PROVE  \A x \in Requests : Acts(x)
  <2>1. PICK s \in Spaces :
          \E role \in {"workspace_admin", member[s][u]} :
            req' = [req EXCEPT ![r] = [step |-> "reply", user |-> u, space |-> s, role |-> role]]
    BY <1>7, Zenon DEF Register, Login
  <2>2. PICK role \in {"workspace_admin", member[s][u]} :
          req' = [req EXCEPT ![r] = [step |-> "reply", user |-> u, space |-> s, role |-> role]]
    BY <2>1
  <2> DEFINE q == [step |-> "reply", user |-> u, space |-> s, role |-> role]
  <2>3. q.step # "act"
    OBVIOUS
  <2>4. req' = [req EXCEPT ![r] = q]
    BY <2>2
  <2> HIDE DEF Acts, q
  <2> QED
    BY <1>2, <2>3, <2>4
<1>8. ASSUME NEW r \in Requests, NEW u \in Users, NEW i \in Invites, AcceptRead(r, u, i)
      PROVE  \A x \in Requests : Acts(x)
  <2> DEFINE q == [step |-> "join", user |-> u, arg |-> i]
  <2>1. q.step # "act"
    OBVIOUS
  <2>2. req' = [req EXCEPT ![r] = q]
    BY <1>8 DEF AcceptRead
  <2> HIDE DEF Acts, q
  <2> QED
    BY <1>2, <2>1, <2>2
<1>9. ASSUME NEW r \in Requests, CheckMembership(r) PROVE \A x \in Requests : Acts(x)
  <2> HIDE DEF Acts
  <2>1. Ends(r) \/ \E to \in {"role", "read"} : Goes(r, to)
    BY <1>9 DEF CheckMembership
  <2> QED
    BY <1>3, <1>4, <2>1
<1>10. ASSUME NEW r \in Requests, SwitchRead(r) PROVE \A x \in Requests : Acts(x)
  <2>1. CASE IsMember(req[r].user, req[r].space)
    BY <1>2, <1>10, <2>1 DEF SwitchRead
  <2>2. CASE ~IsMember(req[r].user, req[r].space)
    BY <1>3, <1>10, <2>2 DEF SwitchRead
  <2> QED
    BY <2>1, <2>2
<1>11. ASSUME NEW r \in Requests,
              \/ Reply(r) \/ InviteUser(r) \/ RemoveMember(r) \/ UpdateRole(r)
              \/ AcceptJoin(r) \/ ActionFails(r)
       PROVE  \A x \in Requests : Acts(x)
  <2>1. Ends(r)
    BY <1>11 DEF Reply, InviteUser, RemoveMember, UpdateRole, AcceptJoin, ActionFails
  <2> QED
    BY <1>3, <2>1
<1>12. ASSUME UNCHANGED req PROVE \A x \in Requests : Acts(x)
  BY <1>1, <1>12
<1>13. ASSUME NEW u \in Users, SessionEnds(u) \/ CreateWorkspace(u)
       PROVE  \A x \in Requests : Acts(x)
  BY <1>12, <1>13 DEF SessionEnds, CreateWorkspace
<1>14. ASSUME NEW i \in Invites, Lapse(i) PROVE \A x \in Requests : Acts(x)
  BY <1>12, <1>14 DEF Lapse
<1>15. \A x \in Requests : Acts(x)
  <2> HIDE DEF Acts
  <2>1. WsStep
    BY DEF WsNext
  <2> QED
    BY <1>5, <1>6, <1>7, <1>8, <1>9, <1>10, <1>11, <1>13, <1>14, <2>1, Zenon DEF WsStep
<1> QED
  BY <1>15 DEF ActsAsAdmin

\* The parts together.
LEMMA WsInvStep == WsInv /\ [WsNext]_wsVars => WsInv'
<1> SUFFICES ASSUME WsInv, [WsNext]_wsVars PROVE WsInv'
  OBVIOUS
<1>1. WsTypeOK'
  BY WsTypeStep DEF WsInv
<1>2. CASE WsNext
  BY <1>1, <1>2, MembershipStep, RolesStep, AdminStep DEF WsInv, WsNext
<1>3. CASE UNCHANGED wsVars
  <2>1. MembershipInv'
    BY <1>3 DEF WsInv, MembershipInv, Invited, MembersWereInvited, UsesAccounted, IsMember,
                wsVars, tables, counts
  <2>2. RolesHeld' /\ ActsAsAdmin'
    BY <1>3 DEF WsInv, RolesHeld, SessionRoleWasHeld, IsMember, ActsAsAdmin,
                wsVars, tables, counts
  <2> QED
    BY <1>1, <2>1, <2>2 DEF WsInv
<1> QED
  BY <1>2, <1>3

LEMMA WsInvHolds == WsSpec => []WsInv
BY WsInitially, WsInvStep, PTL DEF WsSpec

\* Whoever is a member without having founded the workspace was invited, for
\* every number of users, workspaces, invitations and server actions.
THEOREM MembersWereInvitedHolds == WsSpec => []MembersWereInvited
<1>1. WsInv => MembersWereInvited
  BY DEF WsInv, MembershipInv
<1> QED
  BY <1>1, WsInvHolds, PTL

\* One invitation makes one member, and another only behind a removal.
THEOREM UsedOncePerMembershipHolds == WsSpec => []UsedOncePerMembership
<1>1. WsInv => UsedOncePerMembership
  <2> SUFFICES ASSUME WsInv, NEW i \in Invites
               PROVE  uses[i] <= 1 + removals[InviteOf[i].space][InviteOf[i].user]
    BY DEF UsedOncePerMembership
  <2>1. /\ uses[i] \in Nat /\ removals[InviteOf[i].space][InviteOf[i].user] \in Nat
        /\ uses[i] <= removals[InviteOf[i].space][InviteOf[i].user]
                       + (IF IsMember(InviteOf[i].user, InviteOf[i].space) THEN 1 ELSE 0)
    BY WorkspacesAssumption DEF WsInv, WsTypeOK, MembershipInv, UsesAccounted
  <2> QED
    BY <2>1
<1> QED
  BY <1>1, WsInvHolds, PTL

\* A session pairs a workspace only with a role its user has held there.
THEOREM SessionRoleWasHeldHolds == WsSpec => []SessionRoleWasHeld
<1>1. WsInv => SessionRoleWasHeld
  BY DEF WsInv, RolesHeld
<1> QED
  BY <1>1, WsInvHolds, PTL

\* Only administrators change a workspace: the check behind which an action takes
\* effect was about this workspace, and made since the action began.
THEOREM ChangedByAdminHolds == WsSpec => ChangedByAdmin
<1>1. WsInv /\ [WsNext]_wsVars =>
        [ \A r \in Requests :
            /\ req[r].step = "act" /\ req'[r] = Idle
            /\ <<member, invite>>' # <<member, invite>>
            => wasAdmin[r] \/ req[r].was = "super_admin" ]_wsVars
  BY DEF WsInv, ActsAsAdmin
<1> QED
  BY <1>1, WsInvHolds, PTL DEF ChangedByAdmin, WsSpec

-----------------------------------------------------------------------------
(* Admin commands.                                                          *)

Operation == [op : {"tenant", "audit"}, of : Clients]

\* A command that may be in the shared transaction, and the places of a client.
Owning == {"select", "save", "audit", "commit", "run", "write", "next",
           "catch", "finally", "undo"}
Ended == {"idle", "done", "failed"}
Places == Owning \cup Ended \cup {"connect", "begin", "publish", "return", "changed"}

Loops == [live : BOOLEAN, ops : Seq(Operation), at : Nat, then : Places]

AdminTypeOK ==
  /\ inTx \in BOOLEAN
  /\ queue \in Seq(Operation)
  /\ active \in [Units -> BOOLEAN]
  /\ leased \subseteq Units
  /\ pc \in [Clients -> Places]
  /\ loop \in [Clients -> Loops]

\* Behind its operations a command goes on; it does not end.
Further == {"audit", "commit", "publish"}
GoesOn ==
  \A c \in Commands : pc[c] \in {"run", "write", "next"} => loop[c].then \in Further

AdminInv == AdminTypeOK /\ GoesOn /\ TransactionIsOwned

\* What a step does to the client: c gets to another place, the other loops lead
\* where they led, and c neither leaves a transaction behind nor ends in one.
Moves(c, to) ==
  /\ Proceeds(c, to)
  /\ inTx' \in BOOLEAN /\ queue' \in Seq(Operation) /\ loop' \in [Clients -> Loops]
  /\ \A d \in Clients \ {c} : loop'[d].then = loop[d].then
  /\ c \in Commands /\ to \in {"run", "write", "next"} => loop'[c].then \in Further
  /\ inTx' => \/ inTx /\ (c \in Commands /\ pc[c] \in Owning => to \in Owning)
              \/ c \in Commands /\ to \in Owning

\* Such a step keeps what is known of places, loops and the transaction.
LEMMA MovesKeep ==
  ASSUME AdminInv, NEW c \in Clients, NEW to \in Places, Moves(c, to),
         active' \in [Units -> BOOLEAN], leased' \subseteq Units
  PROVE  AdminInv'
<1> USE DEF AdminInv, AdminTypeOK, Moves, Proceeds
<1>1. AdminTypeOK'
  <2>1. pc' \in [Clients -> Places]
    OBVIOUS
  <2>2. inTx' \in BOOLEAN /\ queue' \in Seq(Operation) /\ loop' \in [Clients -> Loops]
    BY Zenon
  <2> QED
    BY <2>1, <2>2, Zenon
<1>2. GoesOn'
  <2> SUFFICES ASSUME NEW d \in Commands, pc'[d] \in {"run", "write", "next"}
               PROVE  loop'[d].then \in Further
    BY DEF GoesOn
  <2>1. d \in Clients
    BY DEF Clients
  <2>2. CASE d = c
    BY <2>1, <2>2
  <2>3. CASE d # c
    BY <2>1, <2>3 DEF GoesOn
  <2> QED
    BY <2>2, <2>3
<1>3. TransactionIsOwned'
  <2> SUFFICES ASSUME inTx' PROVE \E d \in Commands : pc'[d] \in Owning
    BY DEF TransactionIsOwned, Owning
  <2>1. pc'[c] = to /\ \A d \in Commands \ {c} : pc'[d] = pc[d]
    BY DEF Clients
  <2>2. CASE c \in Commands /\ to \in Owning
    BY <2>1, <2>2
  <2>3. CASE inTx /\ (c \in Commands /\ pc[c] \in Owning => to \in Owning)
    <3>1. PICK d \in Commands : pc[d] \in Owning
      BY <2>3 DEF TransactionIsOwned, Owning
    <3> QED
      BY <2>1, <2>3, <3>1
  <2> QED
    BY <2>2, <2>3
<1> QED
  BY <1>1, <1>2, <1>3 DEF AdminInv

\* A new array leaves the loops where they led.
LEMMA NewArrayFacts ==
  ASSUME AdminTypeOK, NewArray
  PROVE  /\ queue' \in Seq(Operation) /\ loop' \in [Clients -> Loops]
         /\ \A d \in Clients : loop'[d].then = loop[d].then
<1> USE DEF AdminTypeOK, NewArray
<1> DEFINE kept(d) == [loop[d] EXCEPT !.live = FALSE, !.ops = queue]
<1>1. ASSUME NEW d \in Clients PROVE kept(d) \in Loops /\ kept(d).then = loop[d].then
  <2>1. loop[d] \in Loops /\ FALSE \in BOOLEAN /\ queue \in Seq(Operation)
    OBVIOUS
  <2> HIDE DEF Operation, Places, AdminTypeOK, NewArray
  <2> QED
    BY <2>1 DEF Loops
<1>2. loop' = [d \in Clients |-> IF loop[d].live THEN kept(d) ELSE loop[d]]
  BY DEF NewArray
<1>3. queue' \in Seq(Operation)
  <2>1. queue' = <<>>
    BY DEF NewArray
  <2> HIDE DEF Operation, AdminTypeOK, NewArray
  <2> QED
    BY <2>1
<1> HIDE DEF kept, NewArray
<1> QED
  BY <1>1, <1>2, <1>3

\* Where a loop that goes on takes its client.
LEMMA IteratesMoves ==
  ASSUME AdminTypeOK, NEW c \in Clients, NEW l \in Loops, Iterates(c, l),
         c \in Commands => l.then \in Further /\ pc[c] \in Owning
  PROVE  \E to \in {"run", l.then} : Moves(c, to)
<1> USE DEF AdminTypeOK
<1>1. CASE l.at <= Len(IF l.live THEN queue ELSE l.ops)
  <2>1. loop' = [loop EXCEPT ![c] = l] /\ Proceeds(c, "run") /\ UNCHANGED <<inTx, queue>>
    BY <1>1 DEF Iterates
  <2>2. loop' \in [Clients -> Loops] /\ \A d \in Clients \ {c} : loop'[d].then = loop[d].then
    BY <2>1
  <2>3. loop'[c] = l
    BY <2>1
  <2>4. inTx' \in BOOLEAN /\ queue' \in Seq(Operation)
    BY <2>1, Zenon
  <2>5. "run" \in Owning
    BY DEF Owning
  <2>6. Moves(c, "run")
    BY <2>1, <2>2, <2>3, <2>4, <2>5, Zenon DEF Moves
  <2> QED
    BY <2>6
<1>2. CASE ~(l.at <= Len(IF l.live THEN queue ELSE l.ops)) /\ l.then = "publish"
  <2>1. Proceeds(c, "publish") /\ inTx' = FALSE /\ NewArray
    BY <1>2 DEF Iterates, Clears
  <2>2. Moves(c, "publish")
    BY <2>1, NewArrayFacts DEF Moves
  <2> QED
    BY <1>2, <2>2
<1>3. CASE ~(l.at <= Len(IF l.live THEN queue ELSE l.ops)) /\ l.then # "publish"
  <2>1. Proceeds(c, l.then) /\ loop' = [loop EXCEPT ![c] = NoLoop] /\ UNCHANGED <<inTx, queue>>
    BY <1>3 DEF Iterates
  <2>2. NoLoop \in Loops
    BY DEF NoLoop, Loops, Places, Ended
  <2>3. loop' \in [Clients -> Loops] /\ \A d \in Clients \ {c} : loop'[d].then = loop[d].then
    BY <2>1, <2>2
  <2>4. inTx' \in BOOLEAN /\ queue' \in Seq(Operation)
    BY <2>1, Zenon
  <2>5. c \in Commands => l.then \in Owning /\ l.then \notin {"run", "write", "next"}
    BY <1>3 DEF Owning, Further
  <2>6. Moves(c, l.then)
    BY <2>1, <2>3, <2>4, <2>5, Zenon DEF Moves
  <2> QED
    BY <2>6
<1> QED
  BY <1>1, <1>2, <1>3

\* Where an operation that is registered takes its client.
LEMMA RegistersMoves ==
  ASSUME AdminTypeOK, NEW c \in Clients, NEW op \in {"tenant", "audit"}, NEW then \in Places,
         Registers(c, op, then), then \notin {"run", "write", "next"},
         c \in Commands => then \in Further \cap Owning /\ pc[c] \in Owning
  PROVE  \E to \in {"run", then} : Moves(c, to)
<1> USE DEF AdminTypeOK
<1> DEFINE o == [op |-> op, of |-> c]
<1>1. o \in Operation
  BY DEF Operation
<1>2. CASE inTx
  <2>1. queue' = Append(queue, o) /\ Proceeds(c, then) /\ UNCHANGED <<inTx, loop>>
    BY <1>2 DEF Registers
  <2> HIDE DEF o, Operation
  <2>2. queue' \in Seq(Operation)
    BY <1>1, <2>1
  <2>3. inTx' \in BOOLEAN /\ loop' \in [Clients -> Loops]
        /\ \A d \in Clients \ {c} : loop'[d].then = loop[d].then
    BY <2>1, Zenon
  <2>4. Moves(c, then)
    BY <1>2, <2>1, <2>2, <2>3, Zenon DEF Moves
  <2> QED
    BY <2>4
<1>3. CASE ~inTx
  <2> DEFINE l == [live |-> FALSE, ops |-> <<o>>, at |-> 1, then |-> then]
  <2>1. Iterates(c, l)
    BY <1>3 DEF Registers
  <2>2. <<o>> \in Seq(Operation)
    <3> HIDE DEF o, Operation
    <3> QED
      BY <1>1
  <2>3. l \in Loops /\ l.then = then
    <3> HIDE DEF o, Operation, Places
    <3> QED
      BY <2>2 DEF Loops
  <2> HIDE DEF l
  <2> QED
    BY <2>1, <2>3, IteratesMoves
<1> QED
  BY <1>2, <1>3

\* A step of the work, of an operation or of a failure.
Working(c) ==
  \/ c \in Commands /\ (Select(c) \/ Save(c) \/ AppendAudit(c) \/ EnterCommit(c) \/ Unwinds(c))
  \/ ReadRow(c) \/ WriteRow(c) \/ SaveAudit(c) \/ NextOperation(c) \/ Fails(c)
  \/ c \in Savers /\ (SaverReads(c) \/ SaverSaves(c))

\* It leaves the units alone and a command in use.
LEMMA WorkingMoves ==
  ASSUME AdminInv, NEW c \in Clients, Working(c)
  PROVE  /\ UNCHANGED units
         /\ \E to \in Places :
              /\ Moves(c, to)
              /\ c \in Commands => pc[c] \in Owning /\ to \in Places \ Ended
<1> USE AdminAssumption
<1> USE DEF AdminInv, AdminTypeOK
<1> DEFINE Concl == /\ UNCHANGED units
                    /\ \E to \in Places :
                         /\ Moves(c, to)
                         /\ c \in Commands => pc[c] \in Owning /\ to \in Places \ Ended
<1>0. pc[c] \in Places /\ loop[c] \in Loops /\ (c \in Commands => c \notin Savers)
  BY DEF Clients
\* A step that leaves the client alone and its loop leading where it led.
<1>a. ASSUME NEW to \in Places, UNCHANGED units, Proceeds(c, to), UNCHANGED <<inTx, queue>>,
             \/ loop' = loop
             \/ loop' = [loop EXCEPT ![c] = NoLoop] /\ to \notin {"run", "write", "next"},
             c \in Commands => /\ pc[c] \in Owning /\ to \in Owning
                               /\ to \in {"run", "write", "next"}
                                    => pc[c] \in {"run", "write", "next"}
      PROVE  Concl
  <2>1. NoLoop \in Loops
    BY DEF NoLoop, Loops, Places, Ended
  <2>2. loop' \in [Clients -> Loops] /\ \A d \in Clients \ {c} : loop'[d].then = loop[d].then
    BY <1>a, <2>1
  <2>3. inTx' \in BOOLEAN /\ queue' \in Seq(Operation)
    BY <1>a, Zenon
  <2>4. c \in Commands /\ to \in {"run", "write", "next"} => loop'[c].then \in Further
    BY <1>a DEF GoesOn
  <2>5. Moves(c, to)
    BY <1>a, <2>2, <2>3, <2>4, Zenon DEF Moves
  <2>6. c \in Commands => to \in Places \ Ended
    BY <1>a DEF Owning, Ended
  <2> QED
    BY <1>a, <2>5, <2>6
<1>1. ASSUME c \in Commands, Select(c) PROVE Concl
  <2>1. Proceeds(c, "save") /\ pc[c] = "select" /\ UNCHANGED <<units, inTx, queue, loop>>
    BY <1>1 DEF Select, client
  <2>2. {"save", "select"} \subseteq Owning /\ "save" \in Places
    BY DEF Owning, Places
  <2> QED
    BY <1>a, <2>1, <2>2
\* An operation of a command is registered.
<1>b. ASSUME c \in Commands, NEW op \in {"tenant", "audit"}, NEW then \in {"audit", "commit"},
             pc[c] \in {"save", "audit"}, UNCHANGED units, Registers(c, op, then)
      PROVE  Concl
  <2>1. /\ then \in Places /\ then \in Further \cap Owning /\ pc[c] \in Owning
        /\ then \notin {"run", "write", "next"} /\ {"run", then} \subseteq Places \ Ended
    BY <1>b DEF Owning, Places, Further, Ended
  <2>2. PICK to \in {"run", then} : Moves(c, to)
    BY <1>b, <2>1, RegistersMoves
  <2> QED
    BY <1>b, <2>1, <2>2
<1>2. ASSUME c \in Commands, Save(c) \/ AppendAudit(c) PROVE Concl
  BY <1>2, <1>b DEF Save, AppendAudit
<1>3. ASSUME c \in Commands, EnterCommit(c) PROVE Concl
  <2>1. pc[c] = "commit" /\ UNCHANGED units
    BY <1>3 DEF EnterCommit
  <2>2. /\ {"commit", "undo", "run"} \subseteq Owning
        /\ {"run", "publish", "undo"} \subseteq Places \ Ended
        /\ {"run", "publish", "undo"} \subseteq Places
    BY DEF Owning, Places, Ended
  <2>3. CASE inTx
    <3> DEFINE l == [live |-> TRUE, ops |-> <<>>, at |-> 1, then |-> "publish"]
    <3>1. Iterates(c, l)
      BY <1>3, <2>3 DEF EnterCommit
    <3>2. l \in Loops /\ l.then = "publish"
      BY <2>2 DEF Loops
    <3>3. "publish" \in Further /\ pc[c] \in Owning
      BY <2>1, <2>2 DEF Further
    <3> HIDE DEF l
    <3>4. PICK to \in {"run", "publish"} : Moves(c, to)
      BY <3>1, <3>2, <3>3, IteratesMoves
    <3> QED
      BY <2>1, <2>2, <3>3, <3>4
  <2>4. CASE ~inTx
    <3>1. Proceeds(c, "undo") /\ UNCHANGED <<inTx, queue, loop>>
      BY <1>3, <2>4 DEF EnterCommit, client
    <3> QED
      BY <1>a, <2>1, <2>2, <3>1
  <2> QED
    BY <2>3, <2>4
<1>4. ASSUME c \in Commands, Unwinds(c) PROVE Concl
  <2> DEFINE to == CASE pc[c] = "catch" -> "finally" [] pc[c] = "finally" -> "undo"
                     [] OTHER -> "return"
  <2>1. pc[c] \in {"catch", "finally", "undo"} /\ inTx' = FALSE /\ NewArray /\ Proceeds(c, to)
        /\ UNCHANGED units
    BY <1>4 DEF Unwinds, Clears
  <2>2. to \in {"finally", "undo", "return"} /\ pc[c] \in Owning
    BY <2>1 DEF Owning
  <2>3. to \in Places \ Ended /\ to \notin {"run", "write", "next"}
    BY <2>2 DEF Places, Owning, Ended
  <2> HIDE DEF to
  <2>4. Moves(c, to)
    BY <2>1, <2>3, NewArrayFacts DEF Moves
  <2> QED
    BY <2>1, <2>2, <2>3, <2>4
<1>5. ASSUME ReadRow(c) \/ WriteRow(c) \/ SaveAudit(c) PROVE Concl
  <2>1. PICK to \in {"write", "next"} :
          pc[c] \in {"run", "write"} /\ Proceeds(c, to) /\ UNCHANGED <<units, inTx, queue, loop>>
    BY <1>5 DEF ReadRow, WriteRow, SaveAudit, Running, client
  <2>2. {"run", "write", "next"} \subseteq Owning /\ {"write", "next"} \subseteq Places
    BY DEF Owning, Places
  <2> QED
    BY <1>a, <2>1, <2>2
<1>6. ASSUME NextOperation(c) PROVE Concl
  <2> DEFINE l == [loop[c] EXCEPT !.at = @ + 1]
  <2>1. pc[c] = "next" /\ Iterates(c, l) /\ UNCHANGED units
    BY <1>6 DEF NextOperation
  <2>2. l \in Loops /\ l.then = loop[c].then /\ loop[c].then \in Places
    <3> HIDE DEF Operation, Places, AdminInv, AdminTypeOK
    <3> QED
      BY <1>0 DEF Loops
  <2>3. c \in Commands => l.then \in Further /\ pc[c] \in Owning
    BY <2>1, <2>2 DEF GoesOn, Owning
  <2> HIDE DEF l
  <2>4. PICK to \in {"run", l.then} : Moves(c, to)
    BY <2>1, <2>2, <2>3, IteratesMoves
  <2>5. to \in Places /\ (c \in Commands => to \in Places \ Ended)
    BY <2>2, <2>3 DEF Places, Owning, Ended, Further
  <2> QED
    BY <2>1, <2>3, <2>4, <2>5
<1>7. ASSUME Fails(c) PROVE Concl
  <2> DEFINE to == IF c \in Savers THEN "failed"
                   ELSE IF loop[c].then = "publish" THEN "catch" ELSE "undo"
  <2>1. pc[c] \in {"select", "run", "write"} /\ Proceeds(c, to) /\ UNCHANGED <<inTx, queue, units>>
        /\ loop' = [loop EXCEPT ![c] = NoLoop]
    BY <1>7 DEF Fails
  <2>2. to \in Places /\ to \notin {"run", "write", "next"}
    BY DEF Places, Owning, Ended
  <2>3. c \in Commands => pc[c] \in Owning /\ to \in Owning
    BY <1>0, <2>1 DEF Owning
  <2> HIDE DEF to
  <2> QED
    BY <1>a, <2>1, <2>2, <2>3
<1>8. ASSUME c \in Savers, SaverReads(c) PROVE Concl
  <2>1. Proceeds(c, "changed") /\ UNCHANGED <<units, inTx, queue, loop>>
    BY <1>8 DEF SaverReads, client
  <2>2. "changed" \in Places
    BY DEF Places
  <2> QED
    BY <1>0, <1>8, <1>a, <2>1, <2>2
<1>9. ASSUME c \in Savers, SaverSaves(c) PROVE Concl
  <2>1. Registers(c, "tenant", "done") /\ UNCHANGED units
    BY <1>9 DEF SaverSaves
  <2>2. {"run", "done"} \subseteq Places
    BY DEF Places, Owning, Ended
  <2>3. PICK to \in {"run", "done"} : Moves(c, to)
    BY <1>0, <1>9, <2>1, <2>2, RegistersMoves
  <2> QED
    BY <1>0, <1>9, <2>1, <2>2, <2>3
<1> QED
  BY <1>1, <1>2, <1>3, <1>4, <1>5, <1>6, <1>7, <1>8, <1>9 DEF Working

\* Every step is a step of the work, or the start or the end of a unit.
LEMMA AdminSteps ==
  ASSUME AdminNext
  PROVE  \/ \E c \in Commands : \/ Start(c) \/ Connected(c) \/ ConnectFails(c) \/ Begins(c)
                                \/ Publish(c) \/ Return(c)
         \/ \E c \in Clients : Working(c)
  BY DEF AdminNext, Working, Clients

LEMMA AdminInvStep ==
  ASSUME AdminInv, [AdminNext]_adminVars PROVE AdminInv'
<1> USE AdminAssumption
<1>1. CASE UNCHANGED adminVars
  BY <1>1 DEF adminVars, client, units, AdminInv, AdminTypeOK, GoesOn, TransactionIsOwned
<1>2. ASSUME NEW c \in Clients, Working(c) PROVE AdminInv'
  <2>1. UNCHANGED <<active, leased>>
    BY <1>2, WorkingMoves DEF units
  <2>2. active' \in [Units -> BOOLEAN] /\ leased' \subseteq Units
    BY <2>1 DEF AdminInv, AdminTypeOK
  <2> QED
    BY <1>2, <2>2, WorkingMoves, MovesKeep
<1>3. ASSUME NEW c \in Commands,
             Start(c) \/ Connected(c) \/ ConnectFails(c) \/ Begins(c) \/ Publish(c) \/ Return(c)
      PROVE  AdminInv'
  <2>0. c \in Clients /\ UnitOf[c] \in Units
    BY DEF Clients
  <2>1. active' \in [Units -> BOOLEAN] /\ leased' \subseteq Units
    <3> USE DEF AdminInv, AdminTypeOK
    <3>1. active' \in [Units -> BOOLEAN]
      BY <1>3, <2>0 DEF Start, Connected, ConnectFails, Begins, Publish, Return
    <3>2. leased' \subseteq Units
      BY <1>3, <2>0 DEF Start, Connected, ConnectFails, Begins, Publish, Return
    <3> QED
      BY <3>1, <3>2
  \* A step that leaves the client alone, of a command outside a transaction.
  <2>2. ASSUME NEW to \in Places \ Owning, Proceeds(c, to), UNCHANGED client,
               pc[c] \notin Owning
        PROVE  AdminInv'
    <3>1. inTx' \in BOOLEAN /\ queue' \in Seq(Operation) /\ loop' \in [Clients -> Loops]
      BY <2>2, Zenon DEF client, AdminInv, AdminTypeOK
    <3>2. to \notin {"run", "write", "next"}
      BY DEF Owning
    <3>3. Moves(c, to)
      BY <2>2, <3>1, <3>2, Zenon DEF Moves, client
    <3> QED
      BY <2>0, <2>1, <3>3, MovesKeep
  <2>3. CASE Start(c) \/ Connected(c) \/ ConnectFails(c) \/ Publish(c) \/ Return(c)
    <3>1. PICK to \in {"connect", "failed", "begin", "done"} :
            Proceeds(c, to) /\ UNCHANGED client
            /\ pc[c] \in {"idle", "connect", "publish", "return"}
      BY <2>3 DEF Start, Connected, ConnectFails, Publish, Return
    <3>2. to \in Places \ Owning /\ pc[c] \notin Owning
      BY <3>1 DEF Places, Owning, Ended
    <3> QED
      BY <2>2, <3>1, <3>2
  <2>4. CASE Begins(c) /\ inTx
    <3>1. Proceeds(c, "failed") /\ UNCHANGED client /\ pc[c] = "begin"
      BY <2>4 DEF Begins
    <3>2. "failed" \in Places \ Owning /\ "begin" \notin Owning
      BY DEF Places, Owning, Ended
    <3> QED
      BY <2>2, <3>1, <3>2
  <2>5. CASE Begins(c) /\ ~inTx
    <3>1. PICK to \in {"save", "select"} : Proceeds(c, to) /\ inTx' = TRUE /\ NewArray
      BY <2>5 DEF Begins
    <3>2. to \in Places /\ to \in Owning /\ to \notin {"run", "write", "next"}
      BY DEF Places, Owning
    <3>3. AdminTypeOK
      BY DEF AdminInv
    <3>4. Moves(c, to)
      BY <3>1, <3>2, <3>3, NewArrayFacts DEF Moves
    <3> QED
      BY <2>0, <2>1, <3>2, <3>4, MovesKeep
  <2> QED
    BY <1>3, <2>3, <2>4, <2>5
<1> QED
  BY <1>1, <1>2, <1>3, AdminSteps

LEMMA AdminInvHolds == AdminSpec => []AdminInv
<1>1. AdminInit => AdminInv
  <2> SUFFICES ASSUME AdminInit PROVE AdminInv
    OBVIOUS
  <2> USE DEF AdminInit
  <2>1. queue \in Seq(Operation) /\ leased \subseteq Units
    OBVIOUS
  <2>2. inTx \in BOOLEAN /\ active \in [Units -> BOOLEAN]
    BY Zenon
  <2>3. NoLoop \in Loops /\ "idle" \in Places
    BY DEF NoLoop, Loops, Places, Ended
  <2>4. pc \in [Clients -> Places] /\ loop \in [Clients -> Loops]
    BY <2>3
  <2>5. GoesOn /\ TransactionIsOwned
    BY DEF GoesOn, TransactionIsOwned, Clients
  <2> QED
    BY <2>1, <2>2, <2>4, <2>5 DEF AdminInv, AdminTypeOK
<1>2. AdminInv /\ [AdminNext]_adminVars => AdminInv'
  BY AdminInvStep
<1> QED
  BY <1>1, <1>2, PTL DEF AdminSpec

\* While the shared client is in a transaction some command will end it: with
\* any commands, units, savers and connections, the flag is never left set by a
\* failure, an early rollback or a commit of another.
THEOREM TransactionIsOwnedHolds == AdminSpec => []TransactionIsOwned
<1>1. AdminInv => TransactionIsOwned
  BY DEF AdminInv
<1> QED
  BY <1>1, AdminInvHolds, PTL

-----------------------------------------------------------------------------
(* The units of work.                                                      *)

\* A command between its start and its end.
InUse(c) == pc[c] \notin Ended

\* A command in use has its unit, which nobody else uses; a unit nobody uses
\* is returned.
OwnUnit ==
  /\ \A c \in Commands : InUse(c) => active[UnitOf[c]]
  /\ \A c, d \in Commands : InUse(c) /\ InUse(d) /\ UnitOf[c] = UnitOf[d] => c = d
  /\ UnitsAreReturned

LEMMA OwnUnitStep ==
  ASSUME AdminInv, OwnUnit, [AdminNext]_adminVars PROVE OwnUnit'
<1> USE AdminAssumption DEF Clients
<1> USE DEF Proceeds, OwnUnit, InUse, UnitsAreReturned, Ended
<1>t. /\ pc \in [Clients -> Places] /\ active \in [Units -> BOOLEAN] /\ leased \subseteq Units
  BY DEF AdminInv, AdminTypeOK
<1> HIDE DEF Places
\* A step that leaves the units alone, and no command in another state of use.
<1>0. ASSUME UNCHANGED <<active, leased, broken>>, \A c \in Commands : InUse(c)' = InUse(c)
      PROVE  OwnUnit'
  BY <1>0
<1>1. ASSUME NEW c \in Commands, Start(c) PROVE OwnUnit'
  <2>1. CASE active[UnitOf[c]]
    BY <1>1, <1>t, <2>1 DEF Start
  <2>2. CASE ~active[UnitOf[c]]
    BY <1>1, <1>t, <2>2 DEF Start
  <2> QED
    BY <2>1, <2>2
<1>2. ASSUME NEW c \in Commands, Connected(c) PROVE OwnUnit'
  <2>1. /\ active' = active /\ leased' = leased \cup {UnitOf[c]} /\ pc[c] = "connect"
        /\ pc' = [pc EXCEPT ![c] = "begin"] /\ broken' = broken
    BY <1>2 DEF Connected
  <2> QED
    BY <1>t, <2>1
\* A start that fails midway leaves its unit in the state it has reached.
<1>3. ASSUME NEW c \in Commands, InUse(c), UNCHANGED <<active, leased>>,
             pc' = [pc EXCEPT ![c] = "failed"], broken' = broken \cup {UnitOf[c]}
      PROVE  OwnUnit'
  BY <1>3, <1>t
<1>4. ASSUME NEW c \in Commands, ConnectFails(c) PROVE OwnUnit'
  BY <1>3, <1>4 DEF ConnectFails
<1>5. ASSUME NEW c \in Commands, Begins(c) PROVE OwnUnit'
  <2>1. CASE inTx
    BY <1>3, <1>5, <2>1 DEF Begins
  <2>2. CASE ~inTx
    <3>1. PICK to \in {"save", "select"} : pc' = [pc EXCEPT ![c] = to]
      BY <1>5, <2>2 DEF Begins
    <3>2. pc[c] = "begin" /\ UNCHANGED <<active, leased, broken>>
      BY <1>5, <2>2 DEF Begins
    <3> QED
      BY <1>0, <1>t, <3>1, <3>2
  <2> QED
    BY <2>1, <2>2
\* The end of a command returns its unit.
<1>6. ASSUME NEW c \in Commands, InUse(c), NEW end \in {"done", "failed"},
             pc' = [pc EXCEPT ![c] = end], broken' = broken,
             active' = [active EXCEPT ![UnitOf[c]] = FALSE], leased' = leased \ {UnitOf[c]}
      PROVE  OwnUnit'
  <2>1. \A d \in Commands : InUse(d)' => InUse(d) /\ d # c /\ UnitOf[d] # UnitOf[c]
    BY <1>6, <1>t
  <2>2. \A d \in Commands : InUse(d) /\ d # c => InUse(d)'
    BY <1>6, <1>t
  <2> QED
    BY <1>6, <1>t, <2>1, <2>2
<1>7. ASSUME NEW c \in Commands, Publish(c) \/ Return(c) PROVE OwnUnit'
  <2>1. CASE Publish(c)
    BY <1>6, <2>1 DEF Publish
  <2>2. CASE Return(c)
    BY <1>6, <2>2 DEF Return
  <2> QED
    BY <1>7, <2>1, <2>2
<1>8. ASSUME NEW c \in Clients, Working(c) PROVE OwnUnit'
  <2>1. UNCHANGED <<active, leased, broken>>
    BY <1>8, WorkingMoves DEF units
  <2>2. PICK to \in Places : /\ pc' = [pc EXCEPT ![c] = to]
                             /\ c \in Commands => pc[c] \in Owning /\ to \in Places \ Ended
    BY <1>8, WorkingMoves DEF Moves
  <2>3. \A d \in Commands : InUse(d)' = InUse(d)
    BY <1>t, <2>2 DEF Owning
  <2> QED
    BY <1>0, <2>1, <2>3
<1>9. CASE UNCHANGED adminVars
  BY <1>0, <1>9 DEF adminVars, units
<1> QED
  BY <1>1, <1>2, <1>4, <1>5, <1>7, <1>8, <1>9, AdminSteps

\* A unit of work that no command uses is inactive and without a connection
\* whatever has failed, unless its startTransaction failed midway.
THEOREM UnitsAreReturnedHolds == AdminSpec => []UnitsAreReturned
<1>1. AdminInit => OwnUnit
  <2> SUFFICES ASSUME AdminInit PROVE OwnUnit
    OBVIOUS
  <2> USE DEF AdminInit
  <2>1. \A c \in Commands : pc[c] = "idle"
    BY DEF Clients
  <2>2. \A u \in Units : ~active[u] /\ u \notin leased
    OBVIOUS
  <2> QED
    BY <2>1, <2>2 DEF OwnUnit, InUse, UnitsAreReturned, Ended
<1>2. AdminInv /\ OwnUnit /\ [AdminNext]_adminVars => OwnUnit'
  BY OwnUnitStep
<1>3. OwnUnit => UnitsAreReturned
  BY DEF OwnUnit
<1> QED
  BY <1>1, <1>2, <1>3, AdminInvHolds, PTL DEF AdminSpec

-----------------------------------------------------------------------------
(* Monitoring.                                                              *)

Alerts == Signals \X Runs

Captured == [at : Nat, pages : Snapshots] \cup {NoSnapshot}

RunRecord ==
  [step : {"idle", "crawl", "find", "create", "resolve", "commit", "done", "failed"},
   prev : Captured, cur : Captured,
   report : SUBSET Signals, todo : SUBSET Signals, missing : SUBSET Signals,
   rest : SUBSET Alerts, made : SUBSET Signals, resolved : SUBSET Alerts]

MonitoringTypeOK ==
  /\ latest \in Captured
  /\ captures \in Nat
  /\ open \subseteq Alerts
  /\ run \in [Runs -> RunRecord]
  /\ before \in [Runs -> SUBSET Alerts]
  /\ closed \in [Runs -> SUBSET Signals]

\* Alerts that were open when a run began, or are open, are those of committed runs.
FromCommitted ==
  /\ \A a \in open : run[a[2]].step = "done"
  /\ \A r \in Runs : \A a \in before[r] : run[a[2]].step = "done"

\* What a run has dealt with is among its own alerts or among those that are
\* open, unless somebody has resolved it meanwhile.
Accounted(r) ==
  Under(r) => run[r].report \ run[r].todo \subseteq run[r].made \cup SignalsOf(open) \cup closed[r]

\* Where a run is, and what it still has to do: one that has found nothing yet
\* reports nothing, and one that has not come to the end of its report resolves
\* nothing.
Staged(r) ==
  /\ run[r].step = "commit" => run[r].report = {}
  /\ run[r].step = "resolve" => run[r].todo = {}
  /\ run[r].step \in {"idle", "crawl"} => run[r].report = {} /\ run[r].todo = {}
  /\ run[r].step \in {"idle", "crawl", "find", "create", "commit"} =>
       run[r].rest = {} /\ run[r].resolved = {}

\* A run resolves only what it has not reported.
ResolvesOthers(r) == \A a \in run[r].rest \cup run[r].resolved : a[1] \notin run[r].report

\* A run that resolves has met every alert it began behind and did not report.
Resolving(r) ==
  run[r].step = "resolve" =>
    \A a \in open \cap before[r] :
      a[1] \in run[r].report \/ a \in run[r].rest \cup run[r].resolved

RunInv(r) == Accounted(r) /\ Staged(r) /\ ResolvesOthers(r) /\ Resolving(r)

MonitoringInv == MonitoringTypeOK /\ FromCommitted /\ \A r \in Runs : RunInv(r)

-----------------------------------------------------------------------------

\* The signals of a comparison.
LEMMA RegressionsType ==
  ASSUME NEW was, NEW is PROVE Regressions(was, is) \subseteq Signals
BY DEF Regressions, Signals, Site

\* The signals of a set of alerts.
LEMMA SignalsOfFacts ==
  /\ \A S \in SUBSET Alerts : SignalsOf(S) \subseteq Signals
  /\ \A S : \A a \in S : a[1] \in SignalsOf(S)
  /\ \A S : \A x \in SignalsOf(S) : \E a \in S : a[1] = x
BY DEF SignalsOf, Alerts

\* What the open alerts are behind a commit.
LEMMA CommittedAlerts ==
  ASSUME MonitoringTypeOK, NEW r \in Runs, CommitRun(r)
  PROVE  /\ open' \subseteq Alerts
         /\ \A a \in open' : a \in open \/ (a[1] \in run[r].made /\ a[2] = r)
         /\ \A a \in open \ run[r].resolved : a \in open'
         /\ run[r].made \subseteq SignalsOf(open')
<1>1. open' = (open \ run[r].resolved) \cup {<<x, r>> : x \in run[r].made}
  BY DEF CommitRun
<1>2. open \subseteq Alerts /\ run[r].made \subseteq Signals
  BY DEF MonitoringTypeOK, RunRecord
<1>3. \A x \in run[r].made : <<x, r>> \in open' /\ <<x, r>>[1] = x
  BY <1>1
<1>4. run[r].made \subseteq SignalsOf(open')
  BY <1>3 DEF SignalsOf
<1> QED
  BY <1>1, <1>2, <1>4 DEF Alerts

\* A step of run r makes its record q and leaves the others.
Becomes(r, q) ==
  /\ q \in RunRecord
  /\ run' = [run EXCEPT ![r] = q]
  /\ run' \in [Runs -> RunRecord] /\ run'[r] = q
  /\ \A o \in Runs \ {r} : run'[o] = run[o]

\* A step of a run changes no other run.
LEMMA BecomesFacts ==
  ASSUME MonitoringTypeOK, NEW r \in Runs, NEW q \in RunRecord, run' = [run EXCEPT ![r] = q]
  PROVE  Becomes(r, q)
BY DEF MonitoringTypeOK, Becomes

\* The record of a run has its type.
LEMMA RecordType ==
  ASSUME MonitoringTypeOK, NEW r \in Runs PROVE run[r] \in RunRecord
BY DEF MonitoringTypeOK

\* What the first transaction of a run does to its record.
LEMMA BeginEffect ==
  ASSUME MonitoringTypeOK, NEW r \in Runs, BeginRun(r)
  PROVE  Becomes(r, [run[r] EXCEPT !.step = "crawl", !.prev = latest])
<1> DEFINE q == [run[r] EXCEPT !.step = "crawl", !.prev = latest]
<1>1. q \in RunRecord
  BY RecordType, ZenonT(30) DEF MonitoringTypeOK, RunRecord
<1>2. run' = [run EXCEPT ![r] = q]
  BY DEF BeginRun
<1> HIDE DEF q
<1>3. Becomes(r, q)
  BY <1>1, <1>2, BecomesFacts
<1> QED
  BY <1>3 DEF q

\* What the capture of the snapshot leaves in it.
LEMMA CaptureEffect ==
  ASSUME MonitoringTypeOK, NEW r \in Runs, Capture(r)
  PROVE  \E cur \in Captured, found \in SUBSET Signals :
           /\ run[r].prev = NoSnapshot => found = {}
           /\ Becomes(r, [run[r] EXCEPT
                !.cur = cur, !.step = IF run[r].prev = NoSnapshot THEN "commit" ELSE "find",
                !.report = found, !.todo = found])
<1>1. PICK pages \in Snapshots :
        LET found == IF run[r].prev = NoSnapshot THEN {}
                     ELSE Regressions(run[r].prev.pages, pages)
        IN run' = [run EXCEPT ![r].cur = [at |-> captures + 1, pages |-> pages],
                              ![r].step = IF run[r].prev = NoSnapshot THEN "commit" ELSE "find",
                              ![r].report = found, ![r].todo = found]
  BY DEF Capture
<1> DEFINE found == IF run[r].prev = NoSnapshot THEN {}
                    ELSE Regressions(run[r].prev.pages, pages)
           now == [at |-> captures + 1, pages |-> pages]
           step == IF run[r].prev = NoSnapshot THEN "commit" ELSE "find"
           q == [run[r] EXCEPT !.cur = now, !.step = step, !.report = found, !.todo = found]
<1>2. found \subseteq Signals /\ step \in {"commit", "find"}
  BY RegressionsType
<1>3. now \in Captured
  BY DEF Captured, MonitoringTypeOK
<1>4. run' = [run EXCEPT ![r] = q]
  <2>1. run' = [run EXCEPT ![r].cur = now, ![r].step = step,
                           ![r].report = found, ![r].todo = found]
    BY <1>1
  <2> HIDE DEF found, now, step
  <2> QED
    BY <2>1
<1>5. run[r].prev = NoSnapshot => found = {}
  OBVIOUS
<1> HIDE DEF found, now, step
<1>6. q \in RunRecord
  BY <1>2, <1>3, RecordType DEF RunRecord
<1> HIDE DEF q
<1>7. Becomes(r, q)
  BY <1>4, <1>6, BecomesFacts
<1> QED
  BY <1>2, <1>3, <1>5, <1>7 DEF q, step

\* What the look for an open alert does.
LEMMA FindEffect ==
  ASSUME MonitoringTypeOK, NEW r \in Runs, NEW x \in Signals, FindOpen(r, x)
  PROVE  Becomes(r, IF x \in Visible THEN [run[r] EXCEPT !.todo = @ \ {x}]
                    ELSE [run[r] EXCEPT !.step = "create", !.missing = {x}])
<1> DEFINE q == IF x \in Visible THEN [run[r] EXCEPT !.todo = @ \ {x}]
                ELSE [run[r] EXCEPT !.step = "create", !.missing = {x}]
<1>1. q \in RunRecord
  BY RecordType DEF RunRecord
<1>2. run' = [run EXCEPT ![r] = q]
  BY DEF FindOpen
<1> HIDE DEF q
<1>3. Becomes(r, q)
  BY <1>1, <1>2, BecomesFacts
<1> QED
  BY <1>3 DEF q

\* The record of a run that has ended.
LEMMA EndsType ==
  /\ [NoRun EXCEPT !.step = "failed"] \in RunRecord
  /\ [NoRun EXCEPT !.step = "done"] \in RunRecord
BY DEF NoRun, RunRecord, Captured

\* What the INSERT of an alert does.
LEMMA CreateEffect ==
  ASSUME MonitoringTypeOK, NEW r \in Runs, NEW x \in Signals, CreateAlert(r, x)
  PROVE  Becomes(r, IF x \in SignalsOf(open) THEN [NoRun EXCEPT !.step = "failed"]
                    ELSE [run[r] EXCEPT !.step = "find", !.missing = {},
                                        !.todo = @ \ {x}, !.made = @ \cup {x}])
<1>1. CASE x \in SignalsOf(open)
  BY <1>1, EndsType, BecomesFacts DEF CreateAlert
<1>2. CASE x \notin SignalsOf(open)
  <2> DEFINE q == [run[r] EXCEPT !.step = "find", !.missing = {},
                                 !.todo = @ \ {x}, !.made = @ \cup {x}]
  <2>1. q \in RunRecord
    BY RecordType DEF RunRecord
  <2>2. run' = [run EXCEPT ![r] = q]
    BY <1>2 DEF CreateAlert
  <2> HIDE DEF q
  <2>3. Becomes(r, q)
    BY <2>1, <2>2, BecomesFacts
  <2> QED
    BY <1>2, <2>3 DEF q
<1> QED
  BY <1>1, <1>2

\* What the SELECT of the open alerts does.
LEMMA SelectEffect ==
  ASSUME MonitoringTypeOK, NEW r \in Runs, SelectOpen(r)
  PROVE  Becomes(r, [run[r] EXCEPT !.step = "resolve", !.rest = Unreported(r)])
<1> DEFINE q == [run[r] EXCEPT !.step = "resolve", !.rest = Unreported(r)]
<1>1. Unreported(r) \subseteq Alerts
  BY DEF MonitoringTypeOK, Unreported
<1>2. q \in RunRecord
  BY <1>1, RecordType DEF RunRecord
<1>3. run' = [run EXCEPT ![r] = q]
  BY DEF SelectOpen
<1> HIDE DEF q
<1>4. Becomes(r, q)
  BY <1>2, <1>3, BecomesFacts
<1> QED
  BY <1>4 DEF q

\* What the UPDATE of an alert does.
LEMMA ResolveEffect ==
  ASSUME MonitoringTypeOK, NEW r \in Runs, NEW a \in run[r].rest, Resolve(r, a)
  PROVE  Becomes(r, [run[r] EXCEPT !.rest = @ \ {a}, !.resolved = @ \cup {a}])
<1> DEFINE q == [run[r] EXCEPT !.rest = @ \ {a}, !.resolved = @ \cup {a}]
<1>1. q \in RunRecord
  BY RecordType DEF RunRecord
<1>2. run' = [run EXCEPT ![r] = q]
  BY DEF Resolve
<1> HIDE DEF q
<1>3. Becomes(r, q)
  BY <1>1, <1>2, BecomesFacts
<1> QED
  BY <1>3 DEF q

\* How a run ends.
LEMMA EndEffect ==
  ASSUME MonitoringTypeOK, NEW r \in Runs
  PROVE  /\ CommitRun(r) => Becomes(r, [NoRun EXCEPT !.step = "done"])
         /\ FailRun(r) => Becomes(r, [NoRun EXCEPT !.step = "failed"])
BY EndsType, BecomesFacts DEF CommitRun, FailRun

\* Every step of every run keeps the types.
LEMMA MonitoringTypeStep ==
  ASSUME MonitoringTypeOK, [MonitoringNext]_monitoringVars PROVE MonitoringTypeOK'
<1>1. ASSUME NEW r \in Runs, NEW q, Becomes(r, q),
             open' \subseteq Alerts, latest' \in Captured, captures' \in Nat,
             before' \in [Runs -> SUBSET Alerts], closed' \in [Runs -> SUBSET Signals]
      PROVE  MonitoringTypeOK'
  BY <1>1 DEF MonitoringTypeOK, Becomes
<1>2. ASSUME NEW r \in Runs, BeginRun(r) PROVE MonitoringTypeOK'
  BY <1>1, <1>2, BeginEffect DEF BeginRun, MonitoringTypeOK
<1>3. ASSUME NEW r \in Runs, Capture(r) PROVE MonitoringTypeOK'
  <2>1. PICK q : Becomes(r, q)
    BY <1>3, CaptureEffect
  <2>2. captures' \in Nat /\ UNCHANGED <<latest, open, before, closed>>
    BY <1>3 DEF Capture, MonitoringTypeOK
  <2> QED
    BY <1>1, <2>1, <2>2 DEF MonitoringTypeOK
<1>4. ASSUME NEW r \in Runs, NEW x \in Signals, FindOpen(r, x) PROVE MonitoringTypeOK'
  BY <1>1, <1>4, FindEffect DEF FindOpen, MonitoringTypeOK
<1>5. ASSUME NEW r \in Runs, NEW x \in Signals, CreateAlert(r, x) PROVE MonitoringTypeOK'
  BY <1>1, <1>5, CreateEffect DEF CreateAlert, MonitoringTypeOK
<1>6. ASSUME NEW r \in Runs, SelectOpen(r) PROVE MonitoringTypeOK'
  BY <1>1, <1>6, SelectEffect DEF SelectOpen, MonitoringTypeOK
<1>7. ASSUME NEW r \in Runs, NEW a \in run[r].rest, Resolve(r, a) PROVE MonitoringTypeOK'
  BY <1>1, <1>7, ResolveEffect DEF Resolve, MonitoringTypeOK
<1>8. ASSUME NEW r \in Runs, CommitRun(r) PROVE MonitoringTypeOK'
  <2>1. open' \subseteq Alerts
    BY <1>8, CommittedAlerts
  <2>2. closed' \in [Runs -> SUBSET Signals]
    <3>1. SignalsOf(open \cap run[r].resolved) \subseteq Signals
      BY SignalsOfFacts DEF MonitoringTypeOK
    <3> QED
      BY <1>8, <3>1 DEF CommitRun, MonitoringTypeOK
  <2>3. latest' \in Captured /\ before' \in [Runs -> SUBSET Alerts] /\ captures' \in Nat
    BY <1>8, RecordType DEF CommitRun, RunRecord, MonitoringTypeOK
  <2> QED
    BY <1>1, <1>8, <2>1, <2>2, <2>3, EndEffect
<1>9. ASSUME NEW r \in Runs, FailRun(r) PROVE MonitoringTypeOK'
  <2>1. before' \in [Runs -> SUBSET Alerts] /\ closed' \in [Runs -> SUBSET Signals]
        /\ UNCHANGED <<latest, captures, open>>
    BY <1>9 DEF FailRun, MonitoringTypeOK
  <2> QED
    BY <1>1, <1>9, <2>1, EndEffect DEF MonitoringTypeOK
<1>10. CASE UNCHANGED monitoringVars
  BY <1>10 DEF monitoringVars, MonitoringTypeOK
<1> QED
  BY <1>2, <1>3, <1>4, <1>5, <1>6, <1>7, <1>8, <1>9, <1>10 DEF MonitoringNext

-----------------------------------------------------------------------------

\* A step of one run that commits nothing.
Inner(r) ==
  /\ UNCHANGED open
  /\ \A o \in Runs \ {r} : before'[o] = before[o] /\ closed'[o] = closed[o]
  /\ run[r].step # "done" /\ run'[r].step # "done"

\* No alert of a run is open before the commit of the run.
LEMMA InnerKeepsCommitted ==
  ASSUME MonitoringTypeOK, FromCommitted, NEW r \in Runs, NEW q, Becomes(r, q), Inner(r),
         before'[r] \in {before[r], open, {}}
  PROVE  FromCommitted'
<1>1. \A a \in Alerts : run[a[2]].step = "done" => run'[a[2]].step = "done"
  BY DEF Becomes, Inner, Alerts
<1>2. \A a \in open : run'[a[2]].step = "done"
  BY <1>1 DEF FromCommitted, MonitoringTypeOK
<1>3. ASSUME NEW o \in Runs, NEW a \in before'[o] PROVE run'[a[2]].step = "done"
  <2>1. a \in before[o] \/ a \in open
    BY <1>3 DEF Inner
  <2> QED
    BY <1>1, <1>2, <2>1 DEF FromCommitted, MonitoringTypeOK
<1> QED
  BY <1>2, <1>3 DEF FromCommitted, Inner

\* A run is not disturbed by the statements of another one.
LEMMA InnerKeepsOthers ==
  ASSUME NEW r \in Runs, NEW q, Becomes(r, q), Inner(r), NEW o \in Runs \ {r}, RunInv(o)
  PROVE  RunInv(o)'
BY DEF Becomes, Inner, RunInv, Accounted, Staged, ResolvesOthers, Resolving, Under

\* A run that has ended has nothing left to be said of.
LEMMA EndedRun ==
  ASSUME NEW r \in Runs, NEW step \in {"done", "failed"}, run'[r] = [NoRun EXCEPT !.step = step]
  PROVE  RunInv(r)'
BY DEF NoRun, RunInv, Accounted, Staged, ResolvesOthers, Resolving, Under

\* What a step of run r has to show when it commits nothing.
LEMMA InnerStep ==
  ASSUME MonitoringInv, MonitoringTypeOK', NEW r \in Runs, NEW q, Becomes(r, q), Inner(r),
         before'[r] \in {before[r], open, {}}, RunInv(r)'
  PROVE  MonitoringInv'
<1>1. \A o \in Runs \ {r} : RunInv(o)'
  BY InnerKeepsOthers DEF MonitoringInv
<1>2. \A o \in Runs : RunInv(o)'
  BY <1>1
<1>3. FromCommitted'
  BY InnerKeepsCommitted DEF MonitoringInv
<1> QED
  BY <1>2, <1>3 DEF MonitoringInv

\* The invariant of the runs, step by step.
LEMMA BeginKeeps ==
  ASSUME MonitoringInv, MonitoringTypeOK', NEW r \in Runs, BeginRun(r) PROVE MonitoringInv'
<1>1. MonitoringTypeOK /\ RunInv(r)
  BY DEF MonitoringInv
<1> DEFINE q == [run[r] EXCEPT !.step = "crawl", !.prev = latest]
<1>2. Becomes(r, q)
  BY <1>1, BeginEffect
<1>3. run[r] \in RunRecord /\ run[r].step = "idle"
  BY <1>1, RecordType DEF BeginRun
<1>4. /\ q.step = "crawl" /\ q.report = run[r].report /\ q.todo = run[r].todo
      /\ q.rest = run[r].rest /\ q.resolved = run[r].resolved
  BY <1>3 DEF RunRecord
<1> HIDE DEF q
<1>5. RunInv(r)'
  BY <1>1, <1>2, <1>3, <1>4
     DEF Becomes, RunInv, Accounted, Staged, ResolvesOthers, Resolving
<1>6. Inner(r) /\ before'[r] = open
  BY <1>1, <1>2, <1>3, <1>4 DEF Inner, BeginRun, Becomes, MonitoringTypeOK
<1> QED
  BY <1>2, <1>5, <1>6, InnerStep

LEMMA CaptureKeeps ==
  ASSUME MonitoringInv, MonitoringTypeOK', NEW r \in Runs, Capture(r) PROVE MonitoringInv'
<1>1. MonitoringTypeOK /\ RunInv(r)
  BY DEF MonitoringInv
<1>2. PICK cur \in Captured, found \in SUBSET Signals :
           /\ run[r].prev = NoSnapshot => found = {}
           /\ Becomes(r, [run[r] EXCEPT
                !.cur = cur, !.step = IF run[r].prev = NoSnapshot THEN "commit" ELSE "find",
                !.report = found, !.todo = found])
  BY <1>1, CaptureEffect
<1> DEFINE q == [run[r] EXCEPT
                !.cur = cur, !.step = IF run[r].prev = NoSnapshot THEN "commit" ELSE "find",
                !.report = found, !.todo = found]
<1>3. run[r] \in RunRecord /\ run[r].step = "crawl"
  BY <1>1, RecordType DEF Capture
<1>4. /\ q.step \in {"commit", "find"} /\ q.report = found /\ q.todo = found
      /\ q.step = "commit" => found = {}
      /\ q.rest = run[r].rest /\ q.resolved = run[r].resolved
  BY <1>2, <1>3 DEF RunRecord
<1>5. Becomes(r, q)
  BY <1>2
<1> HIDE DEF q
<1>6. RunInv(r)'
  BY <1>1, <1>3, <1>4, <1>5
     DEF Becomes, RunInv, Accounted, Staged, ResolvesOthers, Resolving
<1>7. Inner(r) /\ before'[r] = before[r]
  BY <1>1, <1>3, <1>4, <1>5 DEF Inner, Capture, Becomes, MonitoringTypeOK
<1> QED
  BY <1>5, <1>6, <1>7, InnerStep

LEMMA FindKeeps ==
  ASSUME MonitoringInv, MonitoringTypeOK', NEW r \in Runs, NEW x \in Signals, FindOpen(r, x)
  PROVE  MonitoringInv'
<1>1. MonitoringTypeOK /\ RunInv(r)
  BY DEF MonitoringInv
<1> DEFINE q == IF x \in Visible THEN [run[r] EXCEPT !.todo = @ \ {x}]
                ELSE [run[r] EXCEPT !.step = "create", !.missing = {x}]
<1>2. Becomes(r, q)
  BY <1>1, FindEffect
<1>3. run[r] \in RunRecord /\ run[r].step = "find"
  BY <1>1, RecordType DEF FindOpen
<1>4. /\ q.step \in {"find", "create"} /\ q.report = run[r].report /\ q.made = run[r].made
      /\ q.todo = run[r].todo \/ (q.todo = run[r].todo \ {x} /\ x \in SignalsOf(open))
      /\ q.rest = run[r].rest /\ q.resolved = run[r].resolved
  BY <1>3 DEF RunRecord, Visible
<1> HIDE DEF q
<1>5. open' = open /\ before' = before /\ closed' = closed
  BY DEF FindOpen
<1>6. RunInv(r)'
  BY <1>1, <1>2, <1>3, <1>4, <1>5
     DEF Becomes, RunInv, Accounted, Staged, ResolvesOthers, Resolving, Under
<1>7. Inner(r) /\ before'[r] = before[r]
  BY <1>2, <1>3, <1>4, <1>5 DEF Inner, Becomes
<1> QED
  BY <1>2, <1>6, <1>7, InnerStep

LEMMA CreateKeeps ==
  ASSUME MonitoringInv, MonitoringTypeOK', NEW r \in Runs, NEW x \in Signals, CreateAlert(r, x)
  PROVE  MonitoringInv'
<1>1. MonitoringTypeOK /\ RunInv(r)
  BY DEF MonitoringInv
<1>2. run[r] \in RunRecord /\ run[r].step = "create"
  BY <1>1, RecordType DEF CreateAlert
<1>3. open' = open /\ before' = before /\ closed' = closed
  BY DEF CreateAlert
<1>4. CASE x \in SignalsOf(open)
  <2>1. Becomes(r, [NoRun EXCEPT !.step = "failed"])
    BY <1>1, <1>4, CreateEffect
  <2>2. run'[r] = [NoRun EXCEPT !.step = "failed"] /\ run'[r].step = "failed"
    BY <2>1 DEF Becomes, NoRun
  <2>3. Inner(r) /\ before'[r] = before[r]
    BY <1>2, <1>3, <2>2 DEF Inner
  <2> QED
    BY <2>1, <2>2, <2>3, EndedRun, InnerStep
<1>5. CASE x \notin SignalsOf(open)
  <2> DEFINE q == [run[r] EXCEPT !.step = "find", !.missing = {},
                                 !.todo = @ \ {x}, !.made = @ \cup {x}]
  <2>1. Becomes(r, q)
    BY <1>1, <1>5, CreateEffect
  <2>2. /\ q.step = "find" /\ q.report = run[r].report /\ q.made = run[r].made \cup {x}
        /\ q.todo = run[r].todo \ {x}
        /\ q.rest = run[r].rest /\ q.resolved = run[r].resolved
    BY <1>2 DEF RunRecord
  <2> HIDE DEF q
  <2>3. RunInv(r)'
    BY <1>1, <1>2, <1>3, <2>1, <2>2
       DEF Becomes, RunInv, Accounted, Staged, ResolvesOthers, Resolving, Under
  <2>4. Inner(r) /\ before'[r] = before[r]
    BY <1>2, <1>3, <2>1, <2>2 DEF Inner, Becomes
  <2> QED
    BY <2>1, <2>3, <2>4, InnerStep
<1> QED
  BY <1>4, <1>5

LEMMA SelectKeeps ==
  ASSUME MonitoringInv, MonitoringTypeOK', NEW r \in Runs, SelectOpen(r) PROVE MonitoringInv'
<1>1. MonitoringTypeOK /\ RunInv(r)
  BY DEF MonitoringInv
<1> DEFINE q == [run[r] EXCEPT !.step = "resolve", !.rest = Unreported(r)]
<1>2. Becomes(r, q)
  BY <1>1, SelectEffect
<1>3. run[r] \in RunRecord /\ run[r].step = "find" /\ run[r].todo = {}
  BY <1>1, RecordType DEF SelectOpen
<1>4. /\ q.step = "resolve" /\ q.report = run[r].report /\ q.made = run[r].made
      /\ q.todo = {} /\ q.rest = Unreported(r) /\ q.resolved = run[r].resolved
  BY <1>3 DEF RunRecord
<1> HIDE DEF q
<1>5. open' = open /\ before' = before /\ closed' = closed
  BY DEF SelectOpen
<1>6. RunInv(r)'
  BY <1>1, <1>2, <1>3, <1>4, <1>5
     DEF Becomes, RunInv, Accounted, Staged, ResolvesOthers, Resolving, Under,
         Unreported
<1>7. Inner(r) /\ before'[r] = before[r]
  BY <1>2, <1>3, <1>4, <1>5 DEF Inner, Becomes
<1> QED
  BY <1>2, <1>6, <1>7, InnerStep

LEMMA ResolveKeeps ==
  ASSUME MonitoringInv, MonitoringTypeOK', NEW r \in Runs, NEW a \in run[r].rest, Resolve(r, a)
  PROVE  MonitoringInv'
<1>1. MonitoringTypeOK /\ RunInv(r)
  BY DEF MonitoringInv
<1> DEFINE q == [run[r] EXCEPT !.rest = @ \ {a}, !.resolved = @ \cup {a}]
<1>2. Becomes(r, q)
  BY <1>1, ResolveEffect
<1>3. run[r] \in RunRecord /\ run[r].step = "resolve"
  BY <1>1, RecordType DEF Resolve
<1>4. /\ q.step = "resolve" /\ q.report = run[r].report /\ q.made = run[r].made
      /\ q.todo = run[r].todo /\ q.rest = run[r].rest \ {a}
      /\ q.resolved = run[r].resolved \cup {a}
  BY <1>3 DEF RunRecord
<1> HIDE DEF q
<1>5. open' = open /\ before' = before /\ closed' = closed
  BY DEF Resolve
<1>6. RunInv(r)'
  BY <1>1, <1>2, <1>3, <1>4, <1>5
     DEF Becomes, RunInv, Accounted, Staged, ResolvesOthers, Resolving, Under
<1>7. Inner(r) /\ before'[r] = before[r]
  BY <1>2, <1>3, <1>4, <1>5 DEF Inner, Becomes
<1> QED
  BY <1>2, <1>6, <1>7, InnerStep

LEMMA FailKeeps ==
  ASSUME MonitoringInv, MonitoringTypeOK', NEW r \in Runs, FailRun(r) PROVE MonitoringInv'
<1>1. MonitoringTypeOK
  BY DEF MonitoringInv
<1>2. Becomes(r, [NoRun EXCEPT !.step = "failed"])
  BY <1>1, EndEffect
<1>3. run'[r] = [NoRun EXCEPT !.step = "failed"] /\ run'[r].step = "failed"
  BY <1>2 DEF Becomes, NoRun
<1>4. Inner(r) /\ before'[r] = {}
  BY <1>1, <1>3 DEF Inner, FailRun, Under, MonitoringTypeOK
<1> QED
  BY <1>2, <1>3, <1>4, EndedRun, InnerStep

\* A commit closes the fingerprints of what it resolves for the runs that are
\* under way, and no run began behind the alerts it makes.
LEMMA CommitKeeps ==
  ASSUME MonitoringInv, MonitoringTypeOK', NEW r \in Runs, CommitRun(r) PROVE MonitoringInv'
<1>1. MonitoringTypeOK /\ FromCommitted /\ \A o \in Runs : RunInv(o)
  BY DEF MonitoringInv
<1>2. Becomes(r, [NoRun EXCEPT !.step = "done"])
  BY <1>1, EndEffect
<1>3. run'[r] = [NoRun EXCEPT !.step = "done"] /\ run'[r].step = "done"
  BY <1>2 DEF Becomes, NoRun
<1>4. run[r].step # "done" /\ Under(r)
  BY DEF CommitRun, Under
<1>5. /\ open' \subseteq Alerts
      /\ \A a \in open' : a \in open \/ (a[1] \in run[r].made /\ a[2] = r)
      /\ \A a \in open \ run[r].resolved : a \in open'
  BY <1>1, CommittedAlerts
<1>6. \A o \in Runs \ {r} : before'[o] = before[o]
  BY <1>1 DEF CommitRun, MonitoringTypeOK
<1>7. before'[r] = {}
  BY <1>1 DEF CommitRun, MonitoringTypeOK
<1>8. ASSUME NEW o \in Runs \ {r} PROVE RunInv(o)'
  <2>1. run'[o] = run[o] /\ RunInv(o)
    BY <1>1, <1>2 DEF Becomes
  <2>2. Accounted(o)'
    <3>1. SUFFICES ASSUME Under(o), NEW x \in run[o].report \ run[o].todo
                   PROVE  x \in run[o].made \cup SignalsOf(open') \cup closed'[o]
      BY <2>1 DEF Accounted, Under
    <3>2. closed'[o] = closed[o] \cup SignalsOf(open \cap run[r].resolved)
      BY <3>1 DEF CommitRun, Others
    <3>3. CASE x \in SignalsOf(open)
      <4>1. PICK a \in open : a[1] = x
        BY <3>3, SignalsOfFacts
      <4>2. CASE a \in run[r].resolved
        BY <3>2, <4>1, <4>2, SignalsOfFacts
      <4>3. CASE a \notin run[r].resolved
        BY <1>5, <4>1, <4>3, SignalsOfFacts
      <4> QED
        BY <4>2, <4>3
    <3> QED
      BY <2>1, <3>1, <3>2, <3>3 DEF RunInv, Accounted
  <2>3. Resolving(o)'
    <3>1. \A a \in open' \cap before'[o] : a \in open \cap before[o]
      BY <1>1, <1>4, <1>5, <1>6 DEF FromCommitted
    <3> QED
      BY <2>1, <3>1 DEF RunInv, Resolving
  <2> QED
    BY <2>1, <2>2, <2>3 DEF RunInv, Staged, ResolvesOthers
<1>9. \A o \in Runs : RunInv(o)'
  BY <1>3, <1>8, EndedRun
<1>10. FromCommitted'
  <2>1. \A a \in Alerts : run[a[2]].step = "done" => run'[a[2]].step = "done"
    BY <1>2, <1>3 DEF Becomes, Alerts
  <2>2. \A a \in open' : run'[a[2]].step = "done"
    BY <1>1, <1>3, <1>5, <2>1 DEF FromCommitted, MonitoringTypeOK
  <2>3. \A o \in Runs : \A a \in before'[o] : run'[a[2]].step = "done"
    BY <1>1, <1>6, <1>7, <2>1 DEF FromCommitted, MonitoringTypeOK
  <2> QED
    BY <2>2, <2>3 DEF FromCommitted
<1> QED
  BY <1>9, <1>10 DEF MonitoringInv

\* The steps together.
LEMMA MonitoringInvStep ==
  ASSUME MonitoringInv, [MonitoringNext]_monitoringVars PROVE MonitoringInv'
<1>1. MonitoringTypeOK'
  BY MonitoringTypeStep DEF MonitoringInv
<1>2. CASE UNCHANGED monitoringVars
  BY <1>2 DEF monitoringVars, MonitoringInv, MonitoringTypeOK, FromCommitted, RunInv, Accounted,
              Staged, ResolvesOthers, Resolving, Under
<1> QED
  BY <1>1, <1>2, BeginKeeps, CaptureKeeps, FindKeeps, CreateKeeps, SelectKeeps, ResolveKeeps,
     CommitKeeps, FailKeeps DEF MonitoringNext

LEMMA MonitoringInvInit == MonitoringInit => MonitoringInv
<1> SUFFICES ASSUME MonitoringInit PROVE MonitoringInv
  OBVIOUS
<1>1. NoRun \in RunRecord
  BY DEF NoRun, RunRecord, Captured
<1>2. run \in [Runs -> RunRecord] /\ \A r \in Runs : run[r] = NoRun
  BY <1>1 DEF MonitoringInit
<1>3. MonitoringTypeOK
  BY <1>2 DEF MonitoringInit, MonitoringTypeOK, Captured
<1>4. \A r \in Runs : RunInv(r)
  BY <1>2 DEF NoRun, RunInv, Accounted, Staged, ResolvesOthers, Resolving, Under
<1>5. FromCommitted
  BY DEF MonitoringInit, FromCommitted
<1> QED
  BY <1>3, <1>4, <1>5 DEF MonitoringInv

\* A run ends by its own commit.
LEMMA DoneByCommit ==
  ASSUME MonitoringTypeOK, [MonitoringNext]_monitoringVars, NEW r \in Runs,
         run[r].step # "done", run'[r].step = "done"
  PROVE  CommitRun(r)
<1>1. PICK o \in Runs :
        \/ BeginRun(o) \/ Capture(o) \/ SelectOpen(o) \/ CommitRun(o) \/ FailRun(o)
        \/ \E x \in Signals : FindOpen(o, x) \/ CreateAlert(o, x)
        \/ \E a \in run[o].rest : Resolve(o, a)
  BY DEF MonitoringNext, monitoringVars
<1>2. ASSUME NEW q, Becomes(o, q), q.step # "done" PROVE FALSE
  BY <1>2 DEF Becomes
<1>3. run[o] \in RunRecord
  BY RecordType
<1>4. ~BeginRun(o)
  <2> SUFFICES ASSUME BeginRun(o) PROVE FALSE
    OBVIOUS
  <2> DEFINE q == [run[o] EXCEPT !.step = "crawl", !.prev = latest]
  <2>1. Becomes(o, q) /\ q.step # "done"
    BY <1>3, BeginEffect DEF RunRecord
  <2> HIDE DEF q
  <2> QED
    BY <1>2, <2>1
<1>5. ~Capture(o)
  <2> SUFFICES ASSUME Capture(o) PROVE FALSE
    OBVIOUS
  <2>1. PICK cur \in Captured, found \in SUBSET Signals :
           Becomes(o, [run[o] EXCEPT
                !.cur = cur, !.step = IF run[o].prev = NoSnapshot THEN "commit" ELSE "find",
                !.report = found, !.todo = found])
    BY CaptureEffect
  <2> DEFINE q == [run[o] EXCEPT
                !.cur = cur, !.step = IF run[o].prev = NoSnapshot THEN "commit" ELSE "find",
                !.report = found, !.todo = found]
  <2>2. Becomes(o, q) /\ q.step # "done"
    BY <1>3, <2>1 DEF RunRecord
  <2> HIDE DEF q
  <2> QED
    BY <1>2, <2>2
<1>6. ~SelectOpen(o)
  <2> SUFFICES ASSUME SelectOpen(o) PROVE FALSE
    OBVIOUS
  <2> DEFINE q == [run[o] EXCEPT !.step = "resolve", !.rest = Unreported(o)]
  <2>1. Becomes(o, q) /\ q.step # "done"
    BY <1>3, SelectEffect DEF RunRecord
  <2> HIDE DEF q
  <2> QED
    BY <1>2, <2>1
<1>7. ~FailRun(o)
  <2> DEFINE q == [NoRun EXCEPT !.step = "failed"]
  <2>1. q.step # "done"
    BY DEF NoRun
  <2>2. FailRun(o) => Becomes(o, q)
    BY EndEffect
  <2> HIDE DEF q
  <2> QED
    BY <1>2, <2>1, <2>2
<1>8. ASSUME NEW x \in Signals PROVE ~FindOpen(o, x)
  <2> SUFFICES ASSUME FindOpen(o, x) PROVE FALSE
    OBVIOUS
  <2> DEFINE q == IF x \in Visible THEN [run[o] EXCEPT !.todo = @ \ {x}]
                  ELSE [run[o] EXCEPT !.step = "create", !.missing = {x}]
  <2>1. Becomes(o, q) /\ q.step # "done"
    BY <1>3, FindEffect DEF RunRecord, FindOpen
  <2> HIDE DEF q
  <2> QED
    BY <1>2, <2>1
<1>9. ASSUME NEW x \in Signals PROVE ~CreateAlert(o, x)
  <2> SUFFICES ASSUME CreateAlert(o, x) PROVE FALSE
    OBVIOUS
  <2> DEFINE q == IF x \in SignalsOf(open) THEN [NoRun EXCEPT !.step = "failed"]
                  ELSE [run[o] EXCEPT !.step = "find", !.missing = {},
                                      !.todo = @ \ {x}, !.made = @ \cup {x}]
  <2>1. Becomes(o, q)
    BY CreateEffect
  <2>2. q.step # "done"
    BY <1>3 DEF RunRecord, NoRun
  <2> HIDE DEF q
  <2> QED
    BY <1>2, <2>1, <2>2
<1>10. ASSUME NEW a \in run[o].rest PROVE ~Resolve(o, a)
  <2> SUFFICES ASSUME Resolve(o, a) PROVE FALSE
    OBVIOUS
  <2> DEFINE q == [run[o] EXCEPT !.rest = @ \ {a}, !.resolved = @ \cup {a}]
  <2>1. Becomes(o, q) /\ q.step # "done"
    BY <1>3, ResolveEffect DEF RunRecord, Resolve
  <2> HIDE DEF q
  <2> QED
    BY <1>2, <2>1
<1>11. CommitRun(o)
  BY <1>1, <1>4, <1>5, <1>6, <1>7, <1>8, <1>9, <1>10
<1>12. o = r
  BY <1>11, EndEffect DEF Becomes
<1> QED
  BY <1>11, <1>12

\* What is open behind a commit, and what its run had been asked for.
LEMMA CommitReports ==
  ASSUME MonitoringInv, NEW r \in Runs, CommitRun(r)
  PROVE  run[r].report \subseteq SignalsOf(open') \cup closed[r]
<1>1. MonitoringTypeOK /\ RunInv(r)
  BY DEF MonitoringInv
<1>2. Under(r) /\ run[r].report = run[r].report \ run[r].todo
  BY <1>1 DEF CommitRun, Under, RunInv, Staged
<1>3. ASSUME NEW x \in run[r].report, x \in SignalsOf(open) PROVE x \in SignalsOf(open')
  <2>1. PICK a \in open : a[1] = x
    BY <1>3, SignalsOfFacts
  <2>2. a \notin run[r].resolved
    BY <1>1, <2>1 DEF RunInv, ResolvesOthers
  <2> QED
    BY <1>1, <2>1, <2>2, CommittedAlerts, SignalsOfFacts
<1> QED
  BY <1>1, <1>2, <1>3, CommittedAlerts DEF RunInv, Accounted

\* An alert that was open before the run and still is was reported by it.
LEMMA CommitResolves ==
  ASSUME MonitoringInv, NEW r \in Runs, CommitRun(r), run[r].step = "resolve",
         NEW a \in open' \cap before[r]
  PROVE  a[1] \in run[r].report
<1>1. MonitoringTypeOK /\ RunInv(r) /\ FromCommitted
  BY DEF MonitoringInv
<1>2. run[a[2]].step = "done" /\ run[r].step # "done"
  BY <1>1 DEF FromCommitted
<1>3. a \in open \ run[r].resolved
  BY <1>2 DEF CommitRun
<1>4. run[r].rest = {}
  BY DEF CommitRun
<1> QED
  BY <1>1, <1>3, <1>4 DEF RunInv, Resolving

LEMMA MonitoringInvHolds == MonitoringSpec => []MonitoringInv
BY MonitoringInvInit, MonitoringInvStep, PTL DEF MonitoringSpec

\* Any number of runs may overlap: when one commits, what it reports has an open alert,
\* its own or one it found, unless another run has resolved that one meanwhile.
THEOREM ReportedIsOpenHolds == MonitoringSpec => ReportedIsOpen
<1>1. ASSUME MonitoringInv, [MonitoringNext]_monitoringVars, NEW r \in Runs,
             run[r].step # "done", run'[r].step = "done"
      PROVE  run[r].report \subseteq SignalsOf(open') \cup closed[r]
  BY <1>1, DoneByCommit, CommitReports DEF MonitoringInv
<1>2. MonitoringInv /\ [MonitoringNext]_monitoringVars =>
        \A r \in Runs :
          run[r].step # "done" /\ run'[r].step = "done" =>
            run[r].report \subseteq SignalsOf(open') \cup closed[r]
  BY <1>1
<1> QED
  BY <1>2, MonitoringInvHolds, PTL DEF MonitoringSpec, ReportedIsOpen

\* A run leaves no alert open that was there before it read the alerts and that it does
\* not report, whatever other runs create beside it.
THEOREM UnreportedIsResolvedHolds == MonitoringSpec => UnreportedIsResolved
<1>1. ASSUME MonitoringInv, [MonitoringNext]_monitoringVars, NEW r \in Runs,
             run[r].step = "resolve", run'[r].step = "done",
             NEW a \in open' \cap before[r]
      PROVE  a[1] \in run[r].report
  BY <1>1, DoneByCommit, CommitResolves DEF MonitoringInv
<1>2. MonitoringInv /\ [MonitoringNext]_monitoringVars =>
        \A r \in Runs :
          run[r].step = "resolve" /\ run'[r].step = "done" =>
            \A a \in open' \cap before[r] : a[1] \in run[r].report
  BY <1>1
<1> QED
  BY <1>2, MonitoringInvHolds, PTL DEF MonitoringSpec, UnreportedIsResolved

-----------------------------------------------------------------------------
(* Recommendations.                                                         *)

Keys == Signals \cup Findings
Rows == Keys \X Diagnoses

DiagnosisRecord ==
  [step : {"idle", "find", "update", "insert", "done", "failed"},
   wanted : SUBSET Keys, todo : SUBSET Keys, missing : SUBSET Keys,
   made : SUBSET Keys, updates : SUBSET Rows, updated : SUBSET Rows]

AdviceTypeOK ==
  /\ advice \subseteq Rows
  /\ diagnosis \in [Diagnoses -> DiagnosisRecord]
  /\ decided \in [Diagnoses -> SUBSET Keys]

\* No key is pending twice, and none will be: no two diagnoses have inserted
\* the same one.
OneEach == \A a, b \in advice : a[1] = b[1] => a = b
Apart == \A d, e \in Diagnoses : d # e => diagnosis[d].made \cap diagnosis[e].made = {}

\* What a diagnosis has dealt with it has inserted or is pending, unless a user
\* has decided on it meanwhile; so are the rows that it is about to update.
Settled(d) ==
  /\ InProgress(d) =>
       diagnosis[d].wanted \ diagnosis[d].todo
         \subseteq diagnosis[d].made \cup KeysOf(advice) \cup decided[d]
  /\ diagnosis[d].step = "update" =>
       \A a \in diagnosis[d].updates : a \in advice \/ a[1] \in decided[d]

\* A diagnosis inserts what is not pending, one row at a time.
Inserting(d) ==
  /\ ~InProgress(d) => diagnosis[d].made = {}
  /\ \A a \in advice : a[1] \notin diagnosis[d].made
  /\ diagnosis[d].step = "insert" => \E x \in Keys : diagnosis[d].missing = {x}

AdviceInv ==
  /\ MonitoringTypeOK /\ AdviceTypeOK /\ OneEach /\ Apart
  /\ \A d \in Diagnoses : Settled(d) /\ Inserting(d)

-----------------------------------------------------------------------------

\* The keys of a set of recommendations.
LEMMA KeysOfFacts ==
  /\ \A S : \A a \in S : a[1] \in KeysOf(S)
  /\ \A S : \A x \in KeysOf(S) : \E a \in S : a[1] = x
  /\ \A S \in SUBSET Rows : KeysOf(S) \subseteq Keys
BY DEF KeysOf, Rows

\* A step of diagnosis d makes its record q and leaves the others.
Turns(d, q) ==
  /\ diagnosis' \in [Diagnoses -> DiagnosisRecord] /\ diagnosis'[d] = q
  /\ \A e \in Diagnoses \ {d} : diagnosis'[e] = diagnosis[e]

\* A step of a diagnosis changes no other diagnosis.
LEMMA TurnsFacts ==
  ASSUME AdviceTypeOK, NEW d \in Diagnoses, NEW q \in DiagnosisRecord,
         diagnosis' = [diagnosis EXCEPT ![d] = q]
  PROVE  Turns(d, q)
BY DEF AdviceTypeOK, Turns

\* What a step has to show that leaves the rows alone.
LEMMA RowsStay ==
  ASSUME AdviceInv, MonitoringTypeOK', UNCHANGED <<advice, decided>>,
         NEW d \in Diagnoses, NEW q, Turns(d, q), Settled(d)', Inserting(d)',
         \A e \in Diagnoses \ {d} : q.made \cap diagnosis[e].made = {}
  PROVE  AdviceInv'
<1>1. \A e \in Diagnoses \ {d} : Settled(e)' /\ Inserting(e)'
  BY DEF AdviceInv, Turns, Settled, Inserting, InProgress
<1>2. Apart'
  BY DEF AdviceInv, Turns, Apart
<1>3. AdviceTypeOK' /\ OneEach'
  BY DEF AdviceInv, Turns, AdviceTypeOK, OneEach
<1> QED
  BY <1>1, <1>2, <1>3 DEF AdviceInv

\* The invariant of the diagnoses, step by step.
LEMMA BeginDiagnosisKeeps ==
  ASSUME AdviceInv, MonitoringTypeOK', NEW d \in Diagnoses, BeginDiagnosis(d) PROVE AdviceInv'
<1> DEFINE wanted == SignalsOf(open) \cup Findings
           q == [diagnosis[d] EXCEPT !.step = "find", !.wanted = wanted, !.todo = wanted]
<1>1. diagnosis[d] \in DiagnosisRecord
  BY DEF AdviceInv, AdviceTypeOK
<1>2. wanted \subseteq Keys
  BY SignalsOfFacts DEF AdviceInv, MonitoringTypeOK, Keys
<1>3. diagnosis' = [diagnosis EXCEPT ![d] = q]
  <2>1. diagnosis' = [diagnosis EXCEPT ![d].step = "find", ![d].wanted = wanted, ![d].todo = wanted]
    BY DEF BeginDiagnosis
  <2> HIDE DEF wanted
  <2> QED
    BY <2>1
<1> HIDE DEF wanted
<1>4. /\ q \in DiagnosisRecord /\ q.step = "find" /\ q.wanted = wanted /\ q.todo = wanted
      /\ q.made = diagnosis[d].made
  BY <1>1, <1>2 DEF DiagnosisRecord
<1> HIDE DEF q
<1>5. Turns(d, q)
  BY <1>3, <1>4, TurnsFacts DEF AdviceInv
<1>6. diagnosis[d].made = {}
  BY DEF AdviceInv, Inserting, InProgress, BeginDiagnosis
<1>7. UNCHANGED <<advice, decided>>
  BY DEF BeginDiagnosis
<1>8. Settled(d)' /\ Inserting(d)'
  BY <1>4, <1>5, <1>6 DEF Turns, Settled, Inserting, InProgress
<1> QED
  BY <1>4, <1>5, <1>6, <1>7, <1>8, RowsStay

LEMMA FindPendingKeeps ==
  ASSUME AdviceInv, MonitoringTypeOK', NEW d \in Diagnoses, NEW x \in diagnosis[d].todo,
         FindPending(d, x)
  PROVE  AdviceInv'
<1>1. /\ diagnosis[d] \in DiagnosisRecord /\ diagnosis[d].step = "find" /\ x \in Keys
      /\ InProgress(d) /\ UNCHANGED <<advice, decided>> /\ advice \subseteq Rows
  BY DEF AdviceInv, AdviceTypeOK, DiagnosisRecord, FindPending, InProgress
<1> DEFINE q == IF Existing(x) # {}
                THEN [diagnosis[d] EXCEPT !.step = "update", !.updates = Existing(x)]
                ELSE [diagnosis[d] EXCEPT !.step = "insert", !.missing = {x}]
<1>2. diagnosis' = [diagnosis EXCEPT ![d] = q]
  BY DEF FindPending
<1>3. /\ q \in DiagnosisRecord
      /\ \/ q.step = "update" /\ q.updates \subseteq advice
         \/ q.step = "insert" /\ q.missing = {x}
      /\ q.wanted = diagnosis[d].wanted /\ q.todo = diagnosis[d].todo
      /\ q.made = diagnosis[d].made
  BY <1>1 DEF DiagnosisRecord, Existing
<1> HIDE DEF q
<1>4. Turns(d, q)
  BY <1>2, <1>3, TurnsFacts DEF AdviceInv
<1>5. Settled(d)' /\ Inserting(d)'
  BY <1>1, <1>3, <1>4 DEF AdviceInv, Turns, Settled, Inserting, InProgress
<1>6. \A e \in Diagnoses \ {d} : q.made \cap diagnosis[e].made = {}
  BY <1>3 DEF AdviceInv, Apart
<1> QED
  BY <1>1, <1>4, <1>5, <1>6, RowsStay

LEMMA UpdateAdviceKeeps ==
  ASSUME AdviceInv, MonitoringTypeOK', NEW d \in Diagnoses, UpdateAdvice(d) PROVE AdviceInv'
<1>1. /\ diagnosis[d] \in DiagnosisRecord /\ diagnosis[d].step = "update"
      /\ InProgress(d) /\ UNCHANGED <<advice, decided>>
  BY DEF AdviceInv, AdviceTypeOK, UpdateAdvice, InProgress
<1> DEFINE keys == KeysOf(diagnosis[d].updates)
           q == [diagnosis[d] EXCEPT !.step = "find", !.updates = {}, !.todo = @ \ keys,
                                     !.updated = @ \cup diagnosis[d].updates]
<1>2. diagnosis' = [diagnosis EXCEPT ![d] = q]
  <2>1. diagnosis' = [diagnosis EXCEPT ![d].step = "find", ![d].updates = {}, ![d].todo = @ \ keys,
                        ![d].updated = @ \cup diagnosis[d].updates]
    BY DEF UpdateAdvice
  <2> HIDE DEF keys
  <2> QED
    BY <2>1
<1>3. keys \subseteq KeysOf(advice) \cup decided[d]
  <2>1. \A a \in diagnosis[d].updates : a \in advice \/ a[1] \in decided[d]
    BY <1>1 DEF AdviceInv, Settled
  <2> QED
    BY <2>1 DEF KeysOf
<1> HIDE DEF keys
<1>4. /\ q \in DiagnosisRecord /\ q.step = "find" /\ q.wanted = diagnosis[d].wanted
      /\ q.todo = diagnosis[d].todo \ keys /\ q.made = diagnosis[d].made
  BY <1>1 DEF DiagnosisRecord
<1> HIDE DEF q
<1>5. Turns(d, q)
  BY <1>2, <1>4, TurnsFacts DEF AdviceInv
<1>6. Settled(d)' /\ Inserting(d)'
  BY <1>1, <1>3, <1>4, <1>5 DEF AdviceInv, Turns, Settled, Inserting, InProgress
<1>7. \A e \in Diagnoses \ {d} : q.made \cap diagnosis[e].made = {}
  BY <1>4 DEF AdviceInv, Apart
<1> QED
  BY <1>1, <1>5, <1>6, <1>7, RowsStay

\* A diagnosis that has failed, or is done, has nothing left.
LEMMA EndedDiagnosis ==
  ASSUME AdviceInv, NEW d \in Diagnoses, NEW step \in {"done", "failed"},
         diagnosis' = [diagnosis EXCEPT ![d] = [NoDiagnosis EXCEPT !.step = step]]
  PROVE  /\ Turns(d, [NoDiagnosis EXCEPT !.step = step])
         /\ diagnosis'[d].made = {} /\ [NoDiagnosis EXCEPT !.step = step].made = {}
         /\ Settled(d)' /\ Inserting(d)'
<1> DEFINE q == [NoDiagnosis EXCEPT !.step = step]
<1>1. q \in DiagnosisRecord /\ q.step = step /\ q.made = {}
  BY DEF NoDiagnosis, DiagnosisRecord
<1>2. diagnosis' = [diagnosis EXCEPT ![d] = q]
  OBVIOUS
<1> HIDE DEF q
<1>3. Turns(d, q)
  BY <1>1, <1>2, TurnsFacts DEF AdviceInv
<1>4. Settled(d)' /\ Inserting(d)'
  BY <1>1, <1>3 DEF Turns, Settled, Inserting, InProgress
<1>5. diagnosis'[d].made = {}
  BY <1>1, <1>3 DEF Turns
<1> QED
  BY <1>1, <1>3, <1>4, <1>5 DEF q

LEMMA InsertAdviceKeeps ==
  ASSUME AdviceInv, MonitoringTypeOK', NEW d \in Diagnoses, InsertAdvice(d) PROVE AdviceInv'
<1>1. /\ diagnosis[d] \in DiagnosisRecord /\ diagnosis[d].step = "insert"
      /\ InProgress(d) /\ UNCHANGED <<advice, decided>>
  BY DEF AdviceInv, AdviceTypeOK, InsertAdvice, InProgress
<1>2. PICK x \in Keys : diagnosis[d].missing = {x}
  BY <1>1 DEF AdviceInv, Inserting
<1>3. CASE {x} \subseteq KeysOf(advice)
  <2>1. diagnosis' = [diagnosis EXCEPT ![d] = [NoDiagnosis EXCEPT !.step = "failed"]]
    BY <1>2, <1>3 DEF InsertAdvice
  <2> DEFINE q == [NoDiagnosis EXCEPT !.step = "failed"]
  <2>2. Turns(d, q) /\ q.made = {} /\ Settled(d)' /\ Inserting(d)'
    BY <2>1, EndedDiagnosis
  <2>3. \A e \in Diagnoses \ {d} : q.made \cap diagnosis[e].made = {}
    BY <2>2
  <2> HIDE DEF q
  <2> QED
    BY <1>1, <2>2, <2>3, RowsStay
<1>4. CASE x \notin KeysOf(advice)
  <2> DEFINE q == [diagnosis[d] EXCEPT !.step = "find", !.missing = {},
                                       !.todo = @ \ {x}, !.made = @ \cup {x}]
  <2>1. diagnosis' = [diagnosis EXCEPT ![d] = q]
    BY <1>2, <1>4 DEF InsertAdvice
  <2>2. /\ q \in DiagnosisRecord /\ q.step = "find" /\ q.wanted = diagnosis[d].wanted
        /\ q.todo = diagnosis[d].todo \ {x} /\ q.made = diagnosis[d].made \cup {x}
    BY <1>1 DEF DiagnosisRecord
  <2> HIDE DEF q
  <2>3. Turns(d, q)
    BY <2>1, <2>2, TurnsFacts DEF AdviceInv
  <2>4. \A a \in advice : a[1] # x
    BY <1>4, KeysOfFacts
  <2>5. Settled(d)' /\ Inserting(d)'
    BY <1>1, <2>2, <2>3, <2>4 DEF AdviceInv, Turns, Settled, Inserting, InProgress
  <2>6. ASSUME NEW e \in Diagnoses \ {d} PROVE q.made \cap diagnosis[e].made = {}
    <3>1. x \notin diagnosis[e].made
      BY <1>2 DEF InsertAdvice, Concurrent, AdviceInv, Inserting
    <3> QED
      BY <2>2, <3>1 DEF AdviceInv, Apart
  <2> QED
    BY <1>1, <2>3, <2>5, <2>6, RowsStay
<1> QED
  BY <1>3, <1>4

LEMMA FailDiagnosisKeeps ==
  ASSUME AdviceInv, MonitoringTypeOK', NEW d \in Diagnoses, FailDiagnosis(d) PROVE AdviceInv'
<1>1. diagnosis' = [diagnosis EXCEPT ![d] = [NoDiagnosis EXCEPT !.step = "failed"]]
  BY DEF FailDiagnosis
<1> DEFINE q == [NoDiagnosis EXCEPT !.step = "failed"]
<1>2. Turns(d, q) /\ q.made = {} /\ Settled(d)' /\ Inserting(d)'
  BY <1>1, EndedDiagnosis
<1> HIDE DEF q
<1>3. advice' = advice /\ decided' = [decided EXCEPT ![d] = {}]
  BY DEF FailDiagnosis
<1>4. \A e \in Diagnoses \ {d} : diagnosis'[e] = diagnosis[e] /\ decided'[e] = decided[e]
  BY <1>2, <1>3 DEF Turns, AdviceInv, AdviceTypeOK
<1>5. \A e \in Diagnoses \ {d} : Settled(e)' /\ Inserting(e)'
  BY <1>3, <1>4 DEF AdviceInv, Settled, Inserting, InProgress
<1>6. Apart'
  BY <1>2 DEF AdviceInv, Turns, Apart
<1>7. AdviceTypeOK' /\ OneEach'
  BY <1>2, <1>3 DEF AdviceInv, Turns, AdviceTypeOK, OneEach
<1> QED
  BY <1>2, <1>5, <1>6, <1>7 DEF AdviceInv

\* The rows behind a commit.
LEMMA CommittedAdvice ==
  ASSUME AdviceInv, NEW d \in Diagnoses, CommitDiagnosis(d)
  PROVE  /\ advice' \subseteq Rows /\ advice \subseteq advice'
         /\ \A a \in advice' : a \in advice \/ (a[1] \in diagnosis[d].made /\ a = <<a[1], d>>)
         /\ diagnosis[d].made \subseteq KeysOf(advice')
         /\ OneEach'
<1>1. advice' = advice \cup {<<x, d>> : x \in diagnosis[d].made}
  BY DEF CommitDiagnosis
<1>2. advice \subseteq Rows /\ diagnosis[d].made \subseteq Keys
  BY DEF AdviceInv, AdviceTypeOK, DiagnosisRecord
<1>3. \A x \in diagnosis[d].made : <<x, d>> \in advice' /\ <<x, d>>[1] = x
  BY <1>1
<1>4. diagnosis[d].made \subseteq KeysOf(advice')
  BY <1>3 DEF KeysOf
<1>5. \A a \in advice' : a \in advice \/ (a[1] \in diagnosis[d].made /\ a = <<a[1], d>>)
  BY <1>1
<1>6. OneEach'
  <2> SUFFICES ASSUME NEW a \in advice', NEW b \in advice', a[1] = b[1] PROVE a = b
    BY DEF OneEach
  <2>1. \A c \in advice : c[1] \notin diagnosis[d].made
    BY DEF AdviceInv, Inserting
  <2> QED
    BY <1>5, <2>1 DEF AdviceInv, OneEach
<1> QED
  BY <1>1, <1>2, <1>4, <1>5, <1>6 DEF Rows

LEMMA CommitDiagnosisKeeps ==
  ASSUME AdviceInv, MonitoringTypeOK', NEW d \in Diagnoses, CommitDiagnosis(d) PROVE AdviceInv'
<1>1. diagnosis' = [diagnosis EXCEPT ![d] = [NoDiagnosis EXCEPT !.step = "done"]]
  BY DEF CommitDiagnosis
<1> DEFINE q == [NoDiagnosis EXCEPT !.step = "done"]
<1>2. Turns(d, q) /\ diagnosis'[d].made = {} /\ Settled(d)' /\ Inserting(d)'
  BY <1>1, EndedDiagnosis
<1> HIDE DEF q
<1>3. /\ advice' \subseteq Rows /\ advice \subseteq advice'
      /\ \A a \in advice' : a \in advice \/ a[1] \in diagnosis[d].made
      /\ OneEach'
  BY CommittedAdvice
<1>4. decided' = [decided EXCEPT ![d] = {}]
  BY DEF CommitDiagnosis
<1>5. \A e \in Diagnoses \ {d} : diagnosis'[e] = diagnosis[e] /\ decided'[e] = decided[e]
  BY <1>2, <1>4 DEF Turns, AdviceInv, AdviceTypeOK
<1>6. KeysOf(advice) \subseteq KeysOf(advice')
  BY <1>3 DEF KeysOf
<1>7. ASSUME NEW e \in Diagnoses \ {d} PROVE Settled(e)' /\ Inserting(e)'
  <2>1. Settled(e) /\ Inserting(e) /\ diagnosis[d].made \cap diagnosis[e].made = {}
    BY DEF AdviceInv, Apart
  <2>2. Settled(e)'
    BY <1>3, <1>5, <1>6, <2>1 DEF Settled, InProgress
  <2>3. Inserting(e)'
    BY <1>3, <1>5, <2>1 DEF Inserting, InProgress
  <2> QED
    BY <2>2, <2>3
<1>8. Apart'
  BY <1>2 DEF AdviceInv, Turns, Apart
<1>9. AdviceTypeOK'
  BY <1>2, <1>3, <1>4 DEF AdviceInv, Turns, AdviceTypeOK
<1> QED
  BY <1>2, <1>3, <1>7, <1>8, <1>9 DEF AdviceInv

\* A user's decision on a row makes its key decided for every diagnosis.
LEMMA DecideKeeps ==
  ASSUME AdviceInv, MonitoringTypeOK', NEW a \in advice, Decide(a) PROVE AdviceInv'
<1>1. advice' = advice \ {a} /\ diagnosis' = diagnosis
  BY DEF Decide
<1>2. a[1] \in Keys
  BY DEF AdviceInv, AdviceTypeOK, Rows
<1>3. /\ decided' \in [Diagnoses -> SUBSET Keys]
      /\ \A d \in Diagnoses : decided[d] \subseteq decided'[d]
      /\ \A d \in Diagnoses : InProgress(d) => a[1] \in decided'[d]
  BY <1>2 DEF Decide, AdviceInv, AdviceTypeOK
<1>4. ASSUME NEW d \in Diagnoses PROVE Settled(d)'
  <2>1. Settled(d)
    BY DEF AdviceInv
  <2>2. \A x \in KeysOf(advice) : x = a[1] \/ x \in KeysOf(advice')
    BY <1>1 DEF KeysOf
  <2>3. diagnosis[d].step = "update" => InProgress(d)
    BY DEF InProgress
  <2> QED
    BY <1>1, <1>3, <2>1, <2>2, <2>3 DEF Settled, InProgress
<1>5. \A d \in Diagnoses : Inserting(d)'
  BY <1>1 DEF AdviceInv, Inserting, InProgress
<1>6. AdviceTypeOK' /\ OneEach' /\ Apart'
  BY <1>1, <1>3 DEF AdviceInv, AdviceTypeOK, OneEach, Apart
<1> QED
  BY <1>4, <1>5, <1>6 DEF AdviceInv

\* The steps together, with those of monitoring runs and users.
LEMMA AdviceInvStep ==
  ASSUME AdviceInv, [RecommendationsNext]_recommendationVars PROVE AdviceInv'
<1>1. MonitoringTypeOK'
  BY MonitoringTypeStep DEF AdviceInv, RecommendationsNext, recommendationVars
<1>2. CASE UNCHANGED adviceVars
  BY <1>1, <1>2
     DEF adviceVars, AdviceInv, AdviceTypeOK, OneEach, Apart, Settled, Inserting, InProgress
<1>3. CASE AdviceNext
  BY <1>1, <1>3, BeginDiagnosisKeeps, FindPendingKeeps, UpdateAdviceKeeps, InsertAdviceKeeps,
     CommitDiagnosisKeeps, FailDiagnosisKeeps, DecideKeeps DEF AdviceNext
<1> QED
  BY <1>2, <1>3 DEF RecommendationsNext, recommendationVars

LEMMA AdviceInvInit == RecommendationsInit => AdviceInv
<1> SUFFICES ASSUME RecommendationsInit PROVE AdviceInv
  OBVIOUS
<1>1. MonitoringTypeOK
  BY MonitoringInvInit DEF RecommendationsInit, MonitoringInv
<1>2. NoDiagnosis \in DiagnosisRecord
  BY DEF NoDiagnosis, DiagnosisRecord
<1>3. /\ diagnosis \in [Diagnoses -> DiagnosisRecord]
      /\ \A d \in Diagnoses : diagnosis[d] = NoDiagnosis
  BY <1>2 DEF RecommendationsInit
<1>4. advice = {} /\ decided \in [Diagnoses -> SUBSET Keys]
  BY DEF RecommendationsInit
<1>5. AdviceTypeOK /\ OneEach
  BY <1>3, <1>4 DEF AdviceTypeOK, OneEach
<1>6. Apart /\ \A d \in Diagnoses : Settled(d) /\ Inserting(d)
  BY <1>3, <1>4 DEF NoDiagnosis, Apart, Settled, Inserting, InProgress
<1> QED
  BY <1>1, <1>5, <1>6 DEF AdviceInv

LEMMA AdviceInvHolds == RecommendationsSpec => []AdviceInv
BY AdviceInvInit, AdviceInvStep, PTL DEF RecommendationsSpec

\* A diagnosis ends by its own commit.
LEMMA DiagnosisDoneByCommit ==
  ASSUME AdviceInv, [RecommendationsNext]_recommendationVars, NEW d \in Diagnoses,
         diagnosis[d].step # "done", diagnosis'[d].step = "done"
  PROVE  CommitDiagnosis(d)
<1>1. AdviceNext
  BY DEF RecommendationsNext, recommendationVars, adviceVars
<1>2. ~\E a \in advice : Decide(a)
  BY DEF Decide
<1>3. PICK e \in Diagnoses :
       \/ BeginDiagnosis(e) \/ UpdateAdvice(e) \/ InsertAdvice(e)
       \/ CommitDiagnosis(e) \/ FailDiagnosis(e)
       \/ \E x \in diagnosis[e].todo : FindPending(e, x)
  BY <1>1, <1>2 DEF AdviceNext
<1>4. diagnosis \in [Diagnoses -> DiagnosisRecord] /\ diagnosis[e] \in DiagnosisRecord
  BY DEF AdviceInv, AdviceTypeOK
<1>5. ASSUME NEW q, diagnosis' = [diagnosis EXCEPT ![e] = q], q.step # "done" PROVE FALSE
  BY <1>4, <1>5
<1>6. ~BeginDiagnosis(e)
  BY <1>4 DEF BeginDiagnosis, DiagnosisRecord
<1>7. ~UpdateAdvice(e)
  BY <1>4 DEF UpdateAdvice, DiagnosisRecord
<1>8. ~FailDiagnosis(e)
  BY <1>4 DEF FailDiagnosis, NoDiagnosis
<1>9. ~InsertAdvice(e)
  BY <1>4 DEF InsertAdvice, NoDiagnosis, DiagnosisRecord
<1>10. ~\E x \in diagnosis[e].todo : FindPending(e, x)
  BY <1>4 DEF FindPending, DiagnosisRecord
<1>11. CommitDiagnosis(e)
  BY <1>3, <1>6, <1>7, <1>8, <1>9, <1>10
<1>12. e = d
  BY <1>4, <1>11 DEF CommitDiagnosis
<1> QED
  BY <1>11, <1>12

\* When a diagnosis has committed, each alert and finding it read has exactly one pending
\* recommendation, or a user has decided on it: the unique index keeps diagnoses that
\* overlap from a second copy, and the one that hits it fails as a whole.
THEOREM AdviceIsCurrentHolds == RecommendationsSpec => AdviceIsCurrent
<1>1. ASSUME AdviceInv, [RecommendationsNext]_recommendationVars, NEW d \in Diagnoses,
             diagnosis[d].step # "done", diagnosis'[d].step = "done",
             NEW x \in diagnosis[d].wanted \ decided[d]
      PROVE  Cardinality({a \in advice' : a[1] = x}) = 1
  <2>1. CommitDiagnosis(d)
    BY <1>1, DiagnosisDoneByCommit
  <2>2. x \in diagnosis[d].made \cup KeysOf(advice)
    BY <1>1, <2>1 DEF AdviceInv, Settled, InProgress, CommitDiagnosis
  <2>3. x \in KeysOf(advice')
    BY <1>1, <2>1, <2>2, CommittedAdvice DEF KeysOf
  <2>4. PICK a \in advice' : a[1] = x
    BY <2>3, KeysOfFacts
  <2>5. {b \in advice' : b[1] = x} = {a}
    BY <1>1, <2>1, <2>4, CommittedAdvice DEF OneEach
  <2> QED
    BY <2>5, FS_Singleton
<1>2. AdviceInv /\ [RecommendationsNext]_recommendationVars =>
        \A d \in Diagnoses :
          diagnosis[d].step # "done" /\ diagnosis'[d].step = "done" =>
            \A x \in diagnosis[d].wanted \ decided[d] :
              Cardinality({a \in advice' : a[1] = x}) = 1
  BY <1>1
<1> QED
  BY <1>2, AdviceInvHolds, PTL DEF RecommendationsSpec, AdviceIsCurrent

=============================================================================
