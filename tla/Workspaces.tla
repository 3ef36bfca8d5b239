------------------------------ MODULE Workspaces ------------------------------
(***************************************************************************)
(* Workspaces, their members and invitations, and the session cookie: the  *)
(* server actions of app/actions/workspace.ts and auth.ts.  Each action    *)
(* checks the caller in transactions of their own before it does its work  *)
(* in another one, so members and roles may change in between; the cookie  *)
(* is signed and stateless, and keeps the role it was issued with.         *)
(***************************************************************************)
EXTENDS Naturals

CONSTANTS
  Users,        \* each with an e-mail address of its own
  Spaces,       \* organizations.id, used or not
  Invites,      \* organization_invitations.id
  InviteOf,     \* the workspace, the address and the role of each
  Calls,        \* the actions on a workspace that are called: operation,
                \* workspace and argument
  Requests,     \* server actions that may run at once
  MaxRemovals,  \* bound of the model: how often a member is removed
  NoUser, NoRole, NoCookie

Roles == {"super_admin", "workspace_admin", "viewer"}
AdminRoles == {"super_admin", "workspace_admin"}

ASSUME WorkspacesAssumption ==
  /\ InviteOf \in [Invites -> [space : Spaces, user : Users, role : Roles]]
  /\ Calls \subseteq
          [op : {"invite"}, space : Spaces, arg : Invites]
            \cup [op : {"remove"}, space : Spaces, arg : Users]
            \cup [op : {"update"}, space : Spaces, arg : [user : Users, role : Roles]]
            \cup [op : {"switch"}, space : Spaces, arg : {NoRole}]
  /\ \A c \in Calls : c.op = "invite" => InviteOf[c.arg].space = c.space
  /\ MaxRemovals \in Nat
  /\ NoUser \notin Users /\ NoRole \notin Roles
  /\ NoCookie \notin [space : Spaces, role : Roles]

VARIABLES
  founder,   \* who created each workspace; NoUser while it does not exist
  member,    \* organization_members.role, by workspace and user
  invite,    \* organization_invitations.status
  lapsed,    \* the invitations whose expires_at has passed
  cookie,    \* the session each user's browser holds
  req,       \* the server actions in progress
  uses,      \* history: how often each invitation has made a member
  removals,  \* history: how often each member has been removed
  held,      \* history: every role a user has had in a workspace
  wasAdmin   \* history: whether the caller of each action has been an
             \* administrator of its workspace at some time since it began

tables == <<founder, member, invite, lapsed>>
counts == <<uses, removals>>
wsVars == <<tables, cookie, req, counts, held, wasAdmin>>

Idle == [step |-> "idle"]

WsInit ==
  /\ founder = [s \in Spaces |-> NoUser]
  /\ member = [s \in Spaces |-> [u \in Users |-> NoRole]]
  /\ invite = [i \in Invites |-> "none"]
  /\ lapsed = {}
  /\ cookie = [u \in Users |-> NoCookie]
  /\ req = [r \in Requests |-> Idle]
  /\ uses = [i \in Invites |-> 0]
  /\ removals = [s \in Spaces |-> [u \in Users |-> 0]]
  /\ held = {}
  /\ wasAdmin = [r \in Requests |-> FALSE]

HasAccount(u) == \E s \in Spaces : founder[s] = u
IsMember(u, s) == member[s][u] # NoRole
Goes(r, to) == req' = [req EXCEPT ![r].step = to]
Ends(r) == req' = [req EXCEPT ![r] = Idle]

-----------------------------------------------------------------------------
(* Accounts and sessions.                                                  *)

\* An organization and its founder's membership commit together.
Found(u, s) ==
  /\ founder[s] = NoUser
  /\ founder' = [founder EXCEPT ![s] = u]
  /\ member' = [member EXCEPT ![s][u] = "workspace_admin"]
  /\ UNCHANGED <<invite, lapsed, counts>>

\* registerAction: user, workspace and membership in one transaction; the
\* cookie reaches the browser with the reply.
Register(r, u) ==
  /\ req[r] = Idle /\ ~HasAccount(u)
  /\ \E s \in Spaces :
       /\ Found(u, s)
       /\ req' = [req EXCEPT ![r] =
            [step |-> "reply", user |-> u, space |-> s, role |-> "workspace_admin"]]
  /\ UNCHANGED cookie

\* loginAction takes whichever membership the database returns first.
Login(r, u) ==
  /\ req[r] = Idle
  /\ \E s \in Spaces :
       /\ IsMember(u, s)
       /\ req' = [req EXCEPT ![r] =
            [step |-> "reply", user |-> u, space |-> s, role |-> member[s][u]]]
  /\ UNCHANGED <<tables, cookie, counts>>

\* createSession: the answers of concurrent actions arrive in any order.
Reply(r) ==
  /\ req[r].step = "reply"
  /\ cookie' = [cookie EXCEPT ![req[r].user] =
                  [space |-> req[r].space, role |-> req[r].role]]
  /\ Ends(r)
  /\ UNCHANGED <<tables, counts>>

\* logoutAction, or the session's 24 hours are over.
SessionEnds(u) ==
  /\ cookie[u] # NoCookie
  /\ cookie' = [cookie EXCEPT ![u] = NoCookie]
  /\ UNCHANGED <<tables, req, counts>>

CreateWorkspace(u) ==
  /\ cookie[u] # NoCookie
  /\ \E s \in Spaces : Found(u, s)
  /\ UNCHANGED <<cookie, req>>

-----------------------------------------------------------------------------
(* The checks before an action on a workspace.                             *)

\* requireSession reads the cookie the request came with.
Begin(r, u) ==
  /\ req[r] = Idle /\ cookie[u] # NoCookie
  /\ \E c \in Calls :
       req' = [req EXCEPT ![r] =
         [step |-> "member", user |-> u, was |-> cookie[u].role,
          op |-> c.op, space |-> c.space, arg |-> c.arg]]
  /\ UNCHANGED <<tables, cookie, counts>>

\* requireWorkspaceMembership.
CheckMembership(r) ==
  /\ req[r].step = "member"
  /\ IF req[r].was = "super_admin" \/ IsMember(req[r].user, req[r].space)
     THEN Goes(r, IF req[r].op = "switch" THEN "read" ELSE "role")
     ELSE Ends(r)
  /\ UNCHANGED <<tables, cookie, counts>>

\* Mutant of RoleSeen: the session's role is taken for that in the workspace.
MutRoleSeen(r) == req[r].was

\* The role requireRole goes by.
RoleSeen(r) ==
  IF req[r].was = "super_admin" THEN req[r].was ELSE member[req[r].space][req[r].user]

CheckRole(r) ==
  /\ req[r].step = "role"
  /\ IF RoleSeen(r) \in AdminRoles THEN Goes(r, "act") ELSE Ends(r)
  /\ UNCHANGED <<tables, cookie, counts>>

-----------------------------------------------------------------------------
(* The actions.                                                            *)

\* idx_org_invitations_org_email: one pending invitation for an address.
Invitable(i) ==
  ~\E j \in Invites : /\ InviteOf[j].space = InviteOf[i].space
                      /\ InviteOf[j].user = InviteOf[i].user
                      /\ invite[j] = "pending"

\* inviteUserAction: the member check and the INSERT.
InviteUser(r) ==
  LET i == req[r].arg IN
  /\ req[r].step = "act" /\ req[r].op = "invite"
  /\ invite[i] = "none" /\ Invitable(i)
  /\ ~IsMember(InviteOf[i].user, InviteOf[i].space)
  /\ invite' = [invite EXCEPT ![i] = "pending"]
  /\ Ends(r)
  /\ UNCHANGED <<founder, member, lapsed, cookie, counts>>

RemoveMember(r) ==
  LET s == req[r].space t == req[r].arg IN
  /\ req[r].step = "act" /\ req[r].op = "remove"
  /\ removals[s][t] < MaxRemovals
  /\ member' = [member EXCEPT ![s][t] = NoRole]
  /\ removals' = [removals EXCEPT ![s][t] = IF IsMember(t, s) THEN @ + 1 ELSE @]
  /\ Ends(r)
  /\ UNCHANGED <<founder, invite, lapsed, cookie, uses>>

UpdateRole(r) ==
  LET s == req[r].space t == req[r].arg.user IN
  /\ req[r].step = "act" /\ req[r].op = "update"
  /\ member' = [member EXCEPT ![s][t] = IF IsMember(t, s) THEN req[r].arg.role ELSE @]
  /\ Ends(r)
  /\ UNCHANGED <<founder, invite, lapsed, cookie, counts>>

\* The transaction of an action fails, or its INSERT violates an index.
ActionFails(r) ==
  /\ req[r].step \in {"member", "role", "act", "read", "join", "reply"}
  /\ Ends(r)
  /\ UNCHANGED <<tables, cookie, counts>>

\* Mutant of SwitchRead: the role is not fetched again.
MutSwitchRead(r) ==
  /\ req[r].step = "read"
  /\ req' = [req EXCEPT ![r] = [step |-> "reply", user |-> req[r].user,
               space |-> req[r].space, role |-> req[r].was]]
  /\ UNCHANGED <<tables, cookie, counts>>

\* switchWorkspaceAction: a caller who is no member any more gets an exception
\* from records[0].role.
SwitchRead(r) ==
  /\ req[r].step = "read"
  /\ IF IsMember(req[r].user, req[r].space)
     THEN req' = [req EXCEPT ![r] = [step |-> "reply", user |-> req[r].user,
                    space |-> req[r].space, role |-> member[req[r].space][req[r].user]]]
     ELSE Ends(r)
  /\ UNCHANGED <<tables, cookie, counts>>

\* acceptInvitationAction, the SELECT: the invitation is pending and its time
\* has not come.  One whose time has come is refused without effect: the UPDATE
\* to 'expired' is in the transaction that the exception behind it rolls back.
AcceptRead(r, u, i) ==
  /\ req[r] = Idle /\ cookie[u] # NoCookie
  /\ invite[i] = "pending" /\ i \notin lapsed /\ InviteOf[i].user = u
  /\ req' = [req EXCEPT ![r] = [step |-> "join", user |-> u, arg |-> i]]
  /\ UNCHANGED <<tables, cookie, counts>>

\* Mutants of Joinable and AcceptJoin: the members' unique index is missing;
\* the mark is made in a transaction of its own, which fails.
MutJoinable(i) == TRUE
MutAcceptJoin(r) ==
  /\ req[r].step = "join"
  /\ member' = [member EXCEPT ![InviteOf[req[r].arg].space][req[r].user] =
                  InviteOf[req[r].arg].role]
  /\ uses' = [uses EXCEPT ![req[r].arg] = @ + 1]
  /\ Ends(r)
  /\ UNCHANGED <<founder, invite, lapsed, cookie, removals>>

\* idx_org_members_user_org.
Joinable(i) == ~IsMember(InviteOf[i].user, InviteOf[i].space)

\* The INSERT and the UPDATE to 'accepted' commit together.
AcceptJoin(r) ==
  LET i == req[r].arg IN
  /\ req[r].step = "join"
  /\ Joinable(i)
  /\ member' = [member EXCEPT ![InviteOf[i].space][req[r].user] = InviteOf[i].role]
  /\ invite' = [invite EXCEPT ![i] = "accepted"]
  /\ uses' = [uses EXCEPT ![i] = @ + 1]
  /\ Ends(r)
  /\ UNCHANGED <<founder, lapsed, cookie, removals>>

\* 24 hours pass.
Lapse(i) ==
  /\ invite[i] = "pending" /\ i \notin lapsed
  /\ lapsed' = lapsed \cup {i}
  /\ UNCHANGED <<founder, member, invite, cookie, req, counts>>

-----------------------------------------------------------------------------

WsStep ==
  \/ \E r \in Requests :
       \/ \E u \in Users : \/ Register(r, u) \/ Login(r, u) \/ Begin(r, u)
                           \/ \E i \in Invites : AcceptRead(r, u, i)
       \/ Reply(r) \/ CheckMembership(r) \/ CheckRole(r) \/ SwitchRead(r)
       \/ InviteUser(r) \/ RemoveMember(r) \/ UpdateRole(r)
       \/ AcceptJoin(r) \/ ActionFails(r)
  \/ \E u \in Users : SessionEnds(u) \/ CreateWorkspace(u)
  \/ \E i \in Invites : Lapse(i)

\* An action in progress, and its caller's role, as the next state has them.
AdminNow(r) ==
  /\ "op" \in DOMAIN req'[r]
  /\ member'[req'[r].space][req'[r].user] \in AdminRoles

\* The history variables that only properties read.
Observe ==
  /\ held' = held \cup {<<s, u, member'[s][u]>> : s \in Spaces, u \in Users}
  /\ wasAdmin' = [r \in Requests |->
       AdminNow(r) \/ (wasAdmin[r] /\ req'[r] # Idle)]

WsNext == WsStep /\ Observe

WsSpec == WsInit /\ [][WsNext]_wsVars

-----------------------------------------------------------------------------

\* Whoever is a member of a workspace without having founded it has an accepted
\* invitation to it: an acceptance cannot make a member and stay pending, however
\* acceptances, removals and failures interleave.
MembersWereInvited ==
  \A s \in Spaces, u \in Users :
    IsMember(u, s) /\ founder[s] # u =>
      \E i \in Invites : InviteOf[i].space = s /\ InviteOf[i].user = u /\ invite[i] = "accepted"

\* Overlapping acceptances of one invitation make one member: it is used again
\* only by an acceptance that overlapped the member's removal.
UsedOncePerMembership ==
  \A i \in Invites : uses[i] <= 1 + removals[InviteOf[i].space][InviteOf[i].user]

\* A session never pairs a workspace with a role that its user has not held
\* there, whatever order switches, logins and changes of role take effect in.
SessionRoleWasHeld ==
  \A u \in Users : cookie[u] # NoCookie => <<cookie[u].space, u, cookie[u].role>> \in held

\* Members, roles and invitations of a workspace are changed only on behalf of
\* someone who has administered that workspace since the action began, or whose
\* session is a super administrator's: the checks may be outdated by then, but
\* never speak of another workspace or of an earlier session.
ChangedByAdmin ==
  [][ \A r \in Requests :
        /\ req[r].step = "act" /\ req'[r] = Idle
        /\ <<member, invite>>' # <<member, invite>>
        => wasAdmin[r] \/ req[r].was = "super_admin" ]_wsVars

=============================================================================
