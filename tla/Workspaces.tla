------------------------------- MODULE Workspaces -------------------------------
(***************************************************************************)
(* Workspaces, their members and roles, and who may change them or the     *)
(* links in them (src/workspaces, src/authorization, the authorisation of  *)
(* src/short-links, scripts/seed-rbac.ts).                                 *)
(*                                                                         *)
(* A request to a workspace is let in by WorkspacePermissionGuard, which   *)
(* asks getWorkspaceAccess: the membership, its roles and their            *)
(* permissions, each relation by a query of its own.  The request then     *)
(* acts on what was read, whatever has happened to the tables meanwhile.   *)
(* Which operation it asks for matters only when the guard compares        *)
(* permissions, and is chosen when it acts.  What an operation reads       *)
(* before its statement are columns that never change (the workspace of a  *)
(* member or a link, the creator of a link), so the reading and the        *)
(* statement are one action; a foreign key turns the statement away if     *)
(* the row is gone.                                                        *)
(***************************************************************************)
EXTENDS Naturals

CONSTANTS User, Workspace,
          Member, Link,      \* the random ids of memberships and links
          Request,           \* concurrent requests
          Unused, Gone,      \* what an id stands for before and after its row
          None,              \* no member, user or workspace
          MaxSeeds           \* bound on the runs of the seed script

Role == {"OWNER", "ADMIN", "MEMBER"}

\* The permissions that guard a change.
Permission == {"workspace:delete", "member:invite", "member:remove", "member:role:assign",
               "link:create", "link:update", "link:delete"}

\* What the seed script gives to each role.
Defined == [OWNER  |-> Permission,
            ADMIN  |-> Permission \ {"workspace:delete"},
            MEMBER |-> {"link:create", "link:update", "link:delete"}]

MemberRow == [ws : Workspace, user : User, roles : SUBSET Role]
LinkRow == [ws : Workspace, by : User, shares : SUBSET User]

ASSUME WorkspaceAssumption ==
    /\ MaxSeeds \in Nat
    /\ None \notin Member \cup User \cup Workspace
    /\ {Unused, Gone} \cap (MemberRow \cup LinkRow) = {}
    /\ Unused # Gone

VARIABLES users,       \* the users whose row exists
          workspace,   \* workspace -> "unused", "exists" or "gone"
          member,      \* WorkspaceMember with its WorkspaceMemberRole rows
          link,        \* ShortLink with its ShortLinkShareUser rows
          grants,      \* RolePermission
          seed, seeds, \* statements the seed script has left, and its runs
          pc,          \* request -> how far it is
          user, ws,    \* request -> who asks, and of which workspace
          mid, roles, permissions,  \* request -> what the guard has read
          had, kept    \* request -> the roles its user has held at some time since
                       \* it began, and all the time the guard asks (for the
                       \* properties)

tableVars == <<users, workspace, member, link>>
seedVars == <<grants, seed, seeds>>
requestVars == <<pc, user, ws, mid, roles, permissions>>
vars == <<tableVars, seedVars, requestVars, had, kept>>

Init ==
    /\ users = User
    /\ workspace = [w \in Workspace |-> "unused"]
    /\ member = [m \in Member |-> Unused]
    /\ link = [l \in Link |-> Unused]
    /\ grants = Defined
    /\ seed = 0 /\ seeds = 0
    /\ pc = [r \in Request |-> "idle"]
    /\ user = [r \in Request |-> None] /\ ws = [r \in Request |-> None]
    /\ mid = [r \in Request |-> None]
    /\ roles = [r \in Request |-> {}]
    /\ permissions = [r \in Request |-> {}]
    /\ had = [r \in Request |-> {}] /\ kept = [r \in Request |-> {}]

Members == {m \in Member : member[m] \in MemberRow}
Links == {l \in Link : link[l] \in LinkRow}

\* The unique membership of a user in a workspace.
MembershipOf(u, w) == {m \in Members : member[m].user = u /\ member[m].ws = w}

(***************************************************************************)
(* The guard                                                               *)
(***************************************************************************)
GoTo(r, label) == pc' = [pc EXCEPT ![r] = label]

\* The user is logged in and the membership is found.  Anybody else is answered
\* 401 or 404, which changes nothing.
FindMembership(r, u, w, m) ==
    /\ pc[r] = "idle"
    /\ u \in users
    /\ m \in MembershipOf(u, w)
    /\ GoTo(r, "member")
    /\ user' = [user EXCEPT ![r] = u]
    /\ ws' = [ws EXCEPT ![r] = w]
    /\ mid' = [mid EXCEPT ![r] = m]
    /\ UNCHANGED <<tableVars, seedVars, roles, permissions>>

RolesRead(r) == IF mid[r] \in Members THEN member[mid[r]].roles ELSE {}

ReadRoles(r) ==
    /\ pc[r] = "member"
    /\ GoTo(r, "roles")
    /\ roles' = [roles EXCEPT ![r] = RolesRead(r)]
    /\ mid' = [mid EXCEPT ![r] = None]
    /\ UNCHANGED <<tableVars, seedVars, user, ws, permissions>>

\* Mutant: a permission counts only if each of the roles gives it.
GivenByAll(R) == {p \in Permission : R # {} /\ \A role \in R : p \in grants[role]}

GivenBy(R) == UNION {grants[role] : role \in R}

ReadPermissions(r) ==
    /\ pc[r] = "roles"
    /\ GoTo(r, "admitted")
    /\ permissions' = [permissions EXCEPT ![r] = GivenBy(roles[r])]
    /\ UNCHANGED <<tableVars, seedVars, user, ws, mid, roles>>

\* The request has what the decorator of the operation demands.
Admitted(r, permission) == pc[r] = "admitted" /\ permission \in permissions[r]

\* The request is answered.
Ends(r) ==
    /\ GoTo(r, "idle")
    /\ user' = [user EXCEPT ![r] = None]
    /\ ws' = [ws EXCEPT ![r] = None]
    /\ roles' = [roles EXCEPT ![r] = {}]
    /\ permissions' = [permissions EXCEPT ![r] = {}]
    /\ UNCHANGED <<seedVars, mid>>

\* It was turned away, only reads (findOne) or changes a name, of which no property
\* speaks, or its statement failed.
AnswerOnly(r) == pc[r] = "admitted" /\ Ends(r) /\ UNCHANGED tableVars

(***************************************************************************)
(* Workspaces and members                                                  *)
(***************************************************************************)
\* create: workspace, membership and role in one transaction.
CreateWorkspace(u, w, m) ==
    /\ u \in users
    /\ workspace[w] = "unused" /\ member[m] = Unused
    /\ workspace' = [workspace EXCEPT ![w] = "exists"]
    /\ member' = [member EXCEPT ![m] = [ws |-> w, user |-> u, roles |-> {"OWNER"}]]
    /\ UNCHANGED <<users, link, seedVars, requestVars>>

\* remove: members, roles, links and shares go with the workspace.
DeleteWorkspace(r) ==
    /\ Admitted(r, "workspace:delete")
    /\ workspace[ws[r]] = "exists"
    /\ workspace' = [workspace EXCEPT ![ws[r]] = "gone"]
    /\ member' = [m \in Member |-> IF m \in Members /\ member[m].ws = ws[r]
                                   THEN Gone ELSE member[m]]
    /\ link' = [l \in Link |-> IF l \in Links /\ link[l].ws = ws[r] THEN Gone ELSE link[l]]
    /\ Ends(r)
    /\ UNCHANGED users

\* addMember: the user is found, and is not a member yet.
AddMember(r, u, m) ==
    /\ Admitted(r, "member:invite")
    /\ u \in users /\ workspace[ws[r]] = "exists"
    /\ MembershipOf(u, ws[r]) = {} /\ member[m] = Unused
    /\ member' = [member EXCEPT ![m] = [ws |-> ws[r], user |-> u, roles |-> {"MEMBER"}]]
    /\ Ends(r)
    /\ UNCHANGED <<users, workspace, link>>

\* Mutant: the WHERE clause with the id alone.
TargetsAnyMember(r, m) == m \in Members

\* WHERE id = .. AND workspaceId = ..
Targets(r, m) == m \in Members /\ member[m].ws = ws[r]

\* assignRole: the member is found in the workspace, the role is added.
AssignRole(r, m, role) ==
    /\ Admitted(r, "member:role:assign")
    /\ Targets(r, m)
    /\ member' = [member EXCEPT ![m].roles = @ \cup {role}]
    /\ Ends(r)
    /\ UNCHANGED <<users, workspace, link>>

\* removeMember: the roles go with the membership.
RemoveMember(r, m) ==
    /\ Admitted(r, "member:remove")
    /\ Targets(r, m)
    /\ member' = [member EXCEPT ![m] = Gone]
    /\ Ends(r)
    /\ UNCHANGED <<users, workspace, link>>

\* The foreign key of a link's creator restricts.
HasNoLinks(u) == \A l \in Links : link[l].by # u

\* users.remove: memberships and shares go with the user.
RemoveUser(u) ==
    /\ u \in users /\ HasNoLinks(u)
    /\ users' = users \ {u}
    /\ member' = [m \in Member |-> IF m \in Members /\ member[m].user = u
                                   THEN Gone ELSE member[m]]
    /\ link' = [l \in Link |-> IF l \in Links THEN [link[l] EXCEPT !.shares = @ \ {u}]
                                              ELSE link[l]]
    /\ UNCHANGED <<workspace, seedVars, requestVars>>

(***************************************************************************)
(* Links                                                                   *)
(***************************************************************************)
CreateLink(r, l) ==
    /\ Admitted(r, "link:create")
    /\ link[l] = Unused
    /\ user[r] \in users /\ workspace[ws[r]] = "exists"
    /\ link' = [link EXCEPT ![l] = [ws |-> ws[r], by |-> user[r], shares |-> {}]]
    /\ Ends(r)
    /\ UNCHANGED <<users, workspace, member>>

\* Mutant: every member may manage every link.
ManagesAll(r, l) == l \in Links /\ link[l].ws = ws[r]

\* The link is in the workspace, and assertCanManageShortLink passes with the
\* roles the guard has read.
CanManage(r, l) ==
    /\ l \in Links /\ link[l].ws = ws[r]
    /\ roles[r] \cap {"OWNER", "ADMIN"} # {} \/ link[l].by = user[r]

RemoveLink(r, l) ==
    /\ Admitted(r, "link:delete")
    /\ CanManage(r, l)
    /\ link' = [link EXCEPT ![l] = Gone]
    /\ Ends(r)
    /\ UNCHANGED <<users, workspace, member>>

\* grantUser: the user is found by the e-mail address.
GrantUser(r, l, u) ==
    /\ Admitted(r, "link:update")
    /\ CanManage(r, l)
    /\ u \in users
    /\ link' = [link EXCEPT ![l].shares = @ \cup {u}]
    /\ Ends(r)
    /\ UNCHANGED <<users, workspace, member>>

RevokeUser(r, l, u) ==
    /\ Admitted(r, "link:update")
    /\ CanManage(r, l)
    /\ link' = [link EXCEPT ![l].shares = @ \ {u}]
    /\ Ends(r)
    /\ UNCHANGED <<users, workspace, member>>

(***************************************************************************)
(* The seed script: for each role, delete its permissions and create them  *)
(* anew, with no transaction around it.                                    *)
(***************************************************************************)
SeedRole == CASE seed \in {5, 6} -> "OWNER" [] seed \in {3, 4} -> "ADMIN" [] OTHER -> "MEMBER"

StartSeed ==
    /\ seed = 0 /\ seeds < MaxSeeds
    /\ seed' = 6 /\ seeds' = seeds + 1
    /\ UNCHANGED <<grants, tableVars, requestVars>>

DeletePermissions ==
    /\ seed \in {2, 4, 6}
    /\ grants' = [grants EXCEPT ![SeedRole] = {}]
    /\ seed' = seed - 1
    /\ UNCHANGED <<seeds, tableVars, requestVars>>

CreatePermissions ==
    /\ seed \in {1, 3, 5}
    /\ grants' = [grants EXCEPT ![SeedRole] = Defined[SeedRole]]
    /\ seed' = seed - 1
    /\ UNCHANGED <<seeds, tableVars, requestVars>>

\* The script fails: it is not resumed, only run again.
SeedFails ==
    /\ seed # 0
    /\ seed' = 0
    /\ UNCHANGED <<grants, seeds, tableVars, requestVars>>

(***************************************************************************)
(* The specification                                                       *)
(***************************************************************************)
\* The roles the user of a request holds in its workspace.
Held(r) == UNION {member[m].roles : m \in MembershipOf(user[r], ws[r])}

\* What the request's user held is remembered while it is under way.
Remember ==
    /\ had' = [r \in Request |-> IF pc'[r] = "idle" THEN {}
                                 ELSE IF pc[r] = "idle" THEN Held(r)'
                                 ELSE had[r] \cup Held(r)']
    /\ kept' = [r \in Request |-> IF pc'[r] \in {"idle", "admitted"} THEN {}
                                  ELSE IF pc[r] = "idle" THEN Held(r)'
                                  ELSE kept[r] \cap Held(r)']

GuardStep(r) ==
    \/ \E u \in User, w \in Workspace, m \in Member : FindMembership(r, u, w, m)
    \/ ReadRoles(r) \/ ReadPermissions(r) \/ AnswerOnly(r)

MemberStep(r) ==
    \/ DeleteWorkspace(r)
    \/ \E u \in User, m \in Member : AddMember(r, u, m)
    \/ \E m \in Member : RemoveMember(r, m) \/ \E role \in Role : AssignRole(r, m, role)

LinkStep(r) ==
    \E l \in Link : \/ CreateLink(r, l) \/ RemoveLink(r, l)
                    \/ \E u \in User : GrantUser(r, l, u) \/ RevokeUser(r, l, u)

SeedStep == StartSeed \/ DeletePermissions \/ CreatePermissions \/ SeedFails

Next ==
    /\ \/ \E r \in Request : GuardStep(r) \/ MemberStep(r) \/ LinkStep(r)
       \/ \E u \in User, w \in Workspace, m \in Member : CreateWorkspace(u, w, m)
       \/ \E u \in User : RemoveUser(u)
       \/ SeedStep
    /\ Remember

Spec == Init /\ [][Next]_vars

(***************************************************************************)
(* Properties                                                              *)
(***************************************************************************)
\* Every variable keeps its type, and memberships, links and shares refer to
\* rows that exist.
TypeOK ==
    /\ users \subseteq User
    /\ workspace \in [Workspace -> {"unused", "exists", "gone"}]
    /\ member \in [Member -> MemberRow \cup {Unused, Gone}]
    /\ link \in [Link -> LinkRow \cup {Unused, Gone}]
    /\ grants \in [Role -> SUBSET Permission]
    /\ seed \in 0..6 /\ seeds \in 0..MaxSeeds
    /\ pc \in [Request -> {"idle", "member", "roles", "admitted"}]
    /\ user \in [Request -> User \cup {None}]
    /\ ws \in [Request -> Workspace \cup {None}]
    /\ mid \in [Request -> Member \cup {None}]
    /\ roles \in [Request -> SUBSET Role]
    /\ permissions \in [Request -> SUBSET Permission]
    /\ had \in [Request -> SUBSET Role] /\ kept \in [Request -> SUBSET Role]
    /\ \A m \in Members : member[m].user \in users /\ workspace[member[m].ws] = "exists"
    /\ \A l \in Links : /\ link[l].by \in users /\ link[l].shares \subseteq users
                        /\ workspace[link[l].ws] = "exists"

\* A request that does something in this step, and in which workspace it does it.
Acts(r, w) == pc[r] = "admitted" /\ pc'[r] = "idle" /\ ws[r] = w

\* The user of a request had, at some time since it began, a role the seed
\* script defines to have the permission.
Had(r, permission) == \E role \in had[r] : permission \in Defined[role]

ByRight(w, permission) == \E r \in Request : Acts(r, w) /\ Had(r, permission)

\* Nobody but its creator gets into a workspace, and nobody is put out of it or
\* given a role, but by a request to that very workspace whose user had the
\* right to do so while the request was under way, however the membership, the
\* roles and the permissions change between the guard's queries and the statement.
\* Only the removal of a user needs no right in a workspace (WorkspacesService).
MembersByRight ==
    [][\A m \in Member :
        /\ member[m] = Unused /\ member'[m] # Unused =>
              \/ workspace[member'[m].ws] = "unused" /\ member'[m].roles = {"OWNER"}
              \/ ByRight(member'[m].ws, "member:invite") /\ member'[m].roles = {"MEMBER"}
        /\ m \in Members /\ member'[m] = Gone =>
              \/ member[m].user \notin users'
              \/ ByRight(member[m].ws, "member:remove")
              \/ ByRight(member[m].ws, "workspace:delete") /\ workspace'[member[m].ws] = "gone"
        /\ m \in Members /\ member'[m] \notin {Gone, member[m]} =>
              ByRight(member[m].ws, "member:role:assign")]_vars

\* A link goes, or is shared with somebody or no longer, only by a request to its
\* workspace whose user had the right there while it was under way, and who made
\* the link or was then an owner or an administrator (assertCanManageShortLink).
LinksByRight ==
    [][\A l \in Links : link'[l] # link[l] =>
        \/ users' # users
        \/ ByRight(link[l].ws, "workspace:delete") /\ workspace'[link[l].ws] = "gone"
        \/ \E r \in Request :
              /\ Acts(r, link[l].ws)
              /\ Had(r, IF link'[l] = Gone THEN "link:delete" ELSE "link:update")
              /\ user[r] = link[l].by \/ had[r] \cap {"OWNER", "ADMIN"} # {}]_vars

\* A user who keeps a role while the guard asks is found to have all that the
\* role is defined to have, unless the seed script has just taken it away
\* (getWorkspaceAccess).
RightsAreSeen ==
    [][\A r \in Request :
        /\ pc[r] = "roles" /\ pc'[r] = "admitted"
        /\ \A role \in kept[r] : grants[role] = Defined[role]
        => \A role \in kept[r] : Defined[role] \subseteq permissions'[r]]_vars
=============================================================================
