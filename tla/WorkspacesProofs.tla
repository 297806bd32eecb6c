--------------------------- MODULE WorkspacesProofs ---------------------------
(***************************************************************************)
(* What holds of Workspaces for any number of users, workspaces, members,  *)
(* links and concurrent requests.  The argument: what a request has read,  *)
(* its user has held since the request began (ReadInv), because the        *)
(* membership it reads is never given to anybody else.                     *)
(***************************************************************************)
EXTENDS Workspaces, TLAPS

\* The values that stand for rows that are not there are none of the rows.
LEMMA Marks ==
    /\ Unused \notin MemberRow /\ Gone \notin MemberRow
    /\ Unused \notin LinkRow /\ Gone \notin LinkRow
    /\ Unused # Gone
    /\ None \notin Member /\ None \notin User /\ None \notin Workspace
  BY WorkspaceAssumption

(***************************************************************************)
(* Types                                                                   *)
(***************************************************************************)
TablesOK ==
    /\ users \subseteq User
    /\ workspace \in [Workspace -> {"unused", "exists", "gone"}]
    /\ member \in [Member -> MemberRow \cup {Unused, Gone}]
    /\ link \in [Link -> LinkRow \cup {Unused, Gone}]

SeedOK == grants \in [Role -> SUBSET Permission] /\ seed \in 0..6 /\ seeds \in 0..MaxSeeds

RequestsOK ==
    /\ pc \in [Request -> {"idle", "member", "roles", "admitted"}]
    /\ user \in [Request -> User \cup {None}]
    /\ ws \in [Request -> Workspace \cup {None}]
    /\ mid \in [Request -> Member \cup {None}]
    /\ roles \in [Request -> SUBSET Role]
    /\ permissions \in [Request -> SUBSET Permission]

RememberedOK == had \in [Request -> SUBSET Role] /\ kept \in [Request -> SUBSET Role]

MembersRefer ==
    \A m \in Members : member[m].user \in users /\ workspace[member[m].ws] = "exists"

LinksRefer ==
    \A l \in Links : /\ link[l].by \in users /\ link[l].shares \subseteq users
                     /\ workspace[link[l].ws] = "exists"

\* The type invariant is that of the tables, of the seed script, of the requests and of
\* what is remembered, and the references between tables.
LEMMA TypeParts ==
    TypeOK <=> TablesOK /\ SeedOK /\ RequestsOK /\ RememberedOK /\ MembersRefer /\ LinksRefer
  BY DEF TypeOK, TablesOK, SeedOK, RequestsOK, RememberedOK, MembersRefer, LinksRefer

\* The types hold in the database that the seed script finds.
LEMMA InitType == Init => TypeOK
  <1> SUFFICES ASSUME Init
               PROVE  TypeOK
    OBVIOUS
  <1>1. grants \in [Role -> SUBSET Permission]
    BY DEF Init, Defined, Role, Permission
  <1>2. Members = {} /\ Links = {}
    BY Marks DEF Init, Members, Links
  <1>3. seed \in 0..6 /\ seeds \in 0..MaxSeeds
    BY WorkspaceAssumption DEF Init
  <1> QED
    BY <1>1, <1>2, <1>3 DEF Init, TypeOK

\* Only the members of a table row that exists hold roles.
LEMMA HeldIsRoles == TablesOK' => \A r \in Request : Held(r)' \subseteq Role
  BY Marks DEF TablesOK, Held, MembershipOf, Members, MemberRow

\* What is remembered of a request's rights are rights.
LEMMA RememberStep ==
    ASSUME RememberedOK, TablesOK', Remember
    PROVE  RememberedOK'
  <1>1. \A r \in Request : Held(r)' \subseteq Role
    BY HeldIsRoles
  <1>2. \A r \in Request : had'[r] \subseteq Role /\ kept'[r] \subseteq Role
    BY <1>1 DEF Remember, RememberedOK
  <1> QED
    BY <1>2 DEF Remember, RememberedOK

\* An answered request leaves nothing behind.
LEMMA EndsType ==
    ASSUME RequestsOK, SeedOK, NEW r \in Request, Ends(r)
    PROVE  RequestsOK' /\ SeedOK'
  BY DEF Ends, GoTo, seedVars, RequestsOK, SeedOK

\* How a row of WorkspaceMember comes to be another.
LEMMA MemberChanges ==
    ASSUME TypeOK, Next, NEW m \in Member, member'[m] # member[m]
    PROVE  \/ \E u \in User, w \in Workspace : CreateWorkspace(u, w, m)
           \/ \E r \in Request, u \in User : AddMember(r, u, m)
           \/ \E r \in Request : RemoveMember(r, m)
           \/ \E r \in Request, role \in Role : AssignRole(r, m, role)
           \/ \E r \in Request : DeleteWorkspace(r) /\ m \in Members /\ member[m].ws = ws[r]
           \/ \E u \in User : RemoveUser(u) /\ m \in Members /\ member[m].user = u
  <1>1. ASSUME NEW r \in Request, GuardStep(r) \/ LinkStep(r)
        PROVE  member' = member
    BY <1>1 DEF GuardStep, LinkStep, FindMembership, ReadRoles, ReadPermissions, AnswerOnly,
                CreateLink, RemoveLink, GrantUser, RevokeUser, tableVars
  <1>2. SeedStep => member' = member
    BY DEF SeedStep, StartSeed, DeletePermissions, CreatePermissions, SeedFails, tableVars
  <1>3. ASSUME NEW r \in Request, MemberStep(r)
        PROVE  \/ \E u \in User : AddMember(r, u, m)
               \/ RemoveMember(r, m)
               \/ \E role \in Role : AssignRole(r, m, role)
               \/ DeleteWorkspace(r) /\ m \in Members /\ member[m].ws = ws[r]
    <2>1. ASSUME NEW k \in Member, k # m,
                 \/ \E u \in User : AddMember(r, u, k)
                 \/ RemoveMember(r, k) \/ \E role \in Role : AssignRole(r, k, role)
          PROVE  FALSE
      BY <2>1 DEF AddMember, RemoveMember, AssignRole, TypeOK
    <2>2. CASE DeleteWorkspace(r)
      BY <2>2 DEF DeleteWorkspace
    <2> QED
      BY <1>3, <2>1, <2>2 DEF MemberStep
  <1>4. ASSUME NEW u \in User, NEW w \in Workspace, NEW k \in Member, CreateWorkspace(u, w, k)
        PROVE  CreateWorkspace(u, w, m)
    <2>1. k = m
      BY <1>4 DEF CreateWorkspace, TypeOK
    <2> QED
      BY <1>4, <2>1
  <1>5. ASSUME NEW u \in User, RemoveUser(u)
        PROVE  m \in Members /\ member[m].user = u
    BY <1>5 DEF RemoveUser
  <1> QED
    BY <1>1, <1>2, <1>3, <1>4, <1>5 DEF Next

\* How a row of ShortLink comes to be another.
LEMMA LinkChanges ==
    ASSUME TypeOK, Next, NEW l \in Link, link'[l] # link[l]
    PROVE  \/ \E r \in Request : CreateLink(r, l) \/ RemoveLink(r, l)
           \/ \E r \in Request, u \in User : GrantUser(r, l, u) \/ RevokeUser(r, l, u)
           \/ \E r \in Request : DeleteWorkspace(r) /\ l \in Links /\ link[l].ws = ws[r]
           \/ \E u \in User : RemoveUser(u) /\ l \in Links
  <1>1. ASSUME NEW r \in Request, GuardStep(r)
        PROVE  link' = link
    BY <1>1 DEF GuardStep, FindMembership, ReadRoles, ReadPermissions, AnswerOnly, tableVars
  <1>2. SeedStep => link' = link
    BY DEF SeedStep, StartSeed, DeletePermissions, CreatePermissions, SeedFails, tableVars
  <1>3. ASSUME NEW r \in Request, MemberStep(r)
        PROVE  DeleteWorkspace(r) /\ l \in Links /\ link[l].ws = ws[r]
    BY <1>3 DEF MemberStep, DeleteWorkspace, AddMember, RemoveMember, AssignRole
  <1>4. ASSUME NEW r \in Request, LinkStep(r)
        PROVE  \/ CreateLink(r, l) \/ RemoveLink(r, l)
               \/ \E u \in User : GrantUser(r, l, u) \/ RevokeUser(r, l, u)
    <2>1. ASSUME NEW k \in Link, k # l,
                 \/ CreateLink(r, k) \/ RemoveLink(r, k)
                 \/ \E u \in User : GrantUser(r, k, u) \/ RevokeUser(r, k, u)
          PROVE  FALSE
      BY <2>1 DEF CreateLink, RemoveLink, GrantUser, RevokeUser, TypeOK
    <2> QED
      BY <1>4, <2>1 DEF LinkStep
  <1>5. ASSUME NEW u \in User, RemoveUser(u)
        PROVE  l \in Links
    BY <1>5 DEF RemoveUser
  <1>6. \A u \in User, w \in Workspace, m \in Member : CreateWorkspace(u, w, m) => link' = link
    BY DEF CreateWorkspace
  <1> QED
    BY <1>1, <1>2, <1>3, <1>4, <1>5, <1>6 DEF Next

\* The rows the statements write are rows.
LEMMA RoleAdded ==
    ASSUME NEW row \in MemberRow, NEW role \in Role,
           NEW new, new = [row EXCEPT !.roles = row.roles \cup {role}]
    PROVE  new \in MemberRow /\ new.ws = row.ws /\ new.user = row.user
  BY DEF MemberRow

\* A share that is given or taken leaves the link's other columns.
LEMMA SharesChanged ==
    ASSUME NEW row \in LinkRow, NEW u \in User,
           NEW new, new \in {[row EXCEPT !.shares = row.shares \cup {u}],
                             [row EXCEPT !.shares = row.shares \ {u}]}
    PROVE  /\ new \in LinkRow /\ new.ws = row.ws /\ new.by = row.by
           /\ new.shares \in {row.shares \cup {u}, row.shares \ {u}}
  BY DEF LinkRow

\* A request that was admitted has a user and a workspace once it has found its
\* membership.
Placed == \A r \in Request : pc[r] # "idle" => user[r] \in User /\ ws[r] \in Workspace

\* A request is for one user and one workspace as long as it lasts.
LEMMA PlacedStep ==
    ASSUME RequestsOK, Placed, Next
    PROVE  Placed'
  <1>1. ASSUME NEW r \in Request, Ends(r)
        PROVE  Placed'
    BY <1>1 DEF Ends, GoTo, Placed, RequestsOK
  <1>2. ASSUME NEW r \in Request, GuardStep(r) \/ MemberStep(r) \/ LinkStep(r)
        PROVE  Placed' \/ Ends(r)
    <2>1. CASE \E u \in User, w \in Workspace, m \in Member : FindMembership(r, u, w, m)
      BY <2>1 DEF FindMembership, GoTo, Placed, RequestsOK
    <2>2. CASE ReadRoles(r) \/ ReadPermissions(r)
      BY <2>2 DEF ReadRoles, ReadPermissions, GoTo, Placed, RequestsOK
    <2>3. CASE AnswerOnly(r) \/ MemberStep(r) \/ LinkStep(r)
      BY <2>3 DEF AnswerOnly, MemberStep, LinkStep, DeleteWorkspace, AddMember, RemoveMember,
                  AssignRole, CreateLink, RemoveLink, GrantUser, RevokeUser
    <2> QED
      BY <1>2, <2>1, <2>2, <2>3 DEF GuardStep
  <1>3. UNCHANGED requestVars => Placed'
    BY DEF requestVars, Placed
  <1> QED
    BY <1>1, <1>2, <1>3 DEF Next, CreateWorkspace, RemoveUser, SeedStep, StartSeed,
                            DeletePermissions, CreatePermissions, SeedFails

\* Every step keeps the types of the requests and of the seed script.
LEMMA RequestsType ==
    ASSUME TypeOK, Next
    PROVE  RequestsOK' /\ SeedOK'
  <1>0. RequestsOK /\ SeedOK
    BY TypeParts
  <1>1. ASSUME NEW r \in Request, GuardStep(r) \/ MemberStep(r) \/ LinkStep(r)
        PROVE  (RequestsOK /\ SeedOK)' \/ Ends(r)
    <2>1. CASE \E u \in User, w \in Workspace, m \in Member : FindMembership(r, u, w, m)
      BY <1>0, <2>1 DEF FindMembership, GoTo, seedVars, RequestsOK, SeedOK
    <2>2. CASE ReadRoles(r)
      <3>1. RolesRead(r) \subseteq Role
        BY Marks DEF RolesRead, Members, MemberRow, TypeOK
      <3> QED
        BY <1>0, <2>2, <3>1 DEF ReadRoles, GoTo, seedVars, RequestsOK, SeedOK
    <2>3. CASE ReadPermissions(r)
      <3>1. GivenBy(roles[r]) \subseteq Permission
        BY <1>0 DEF GivenBy, RequestsOK, SeedOK
      <3> QED
        BY <1>0, <2>3, <3>1 DEF ReadPermissions, GoTo, seedVars, RequestsOK, SeedOK
    <2>4. CASE AnswerOnly(r) \/ MemberStep(r) \/ LinkStep(r)
      BY <2>4 DEF AnswerOnly, MemberStep, LinkStep, DeleteWorkspace, AddMember, RemoveMember,
                  AssignRole, CreateLink, RemoveLink, GrantUser, RevokeUser
    <2> QED
      BY <1>1, <2>1, <2>2, <2>3, <2>4 DEF GuardStep
  <1>2. UNCHANGED <<seedVars, requestVars>> => RequestsOK' /\ SeedOK'
    BY <1>0 DEF requestVars, seedVars, RequestsOK, SeedOK
  <1>3. ASSUME SeedStep
        PROVE  RequestsOK' /\ SeedOK'
    <2>1. RequestsOK'
      BY <1>0, <1>3 DEF SeedStep, StartSeed, DeletePermissions, CreatePermissions, SeedFails,
                  requestVars, RequestsOK
    <2>2. seed' \in 0..6 /\ seeds' \in 0..MaxSeeds
      BY <1>0, <1>3, WorkspaceAssumption
         DEF SeedStep, StartSeed, DeletePermissions, CreatePermissions, SeedFails, SeedOK
    <2>3. grants' \in [Role -> SUBSET Permission]
      <3>1. \A role \in Role : Defined[role] \subseteq Permission
        BY DEF Defined, Role, Permission
      <3>2. SeedRole \in Role
        BY DEF SeedRole, Role
      <3> QED
        BY <1>0, <1>3, <3>1, <3>2
           DEF SeedStep, StartSeed, DeletePermissions, CreatePermissions, SeedFails, SeedOK
    <2> QED
      BY <2>1, <2>2, <2>3 DEF SeedOK
  <1> QED
    BY <1>0, <1>1, <1>2, <1>3, EndsType DEF Next, CreateWorkspace, RemoveUser

\* Every step keeps the types of the tables.
LEMMA TablesType ==
    ASSUME TypeOK, Placed, Next
    PROVE  TablesOK'
  <1>0. TablesOK
    BY TypeParts
  <1>1. \A r \in Request, permission \in Permission :
            Admitted(r, permission) => user[r] \in User /\ ws[r] \in Workspace
    BY DEF Admitted, Placed
  <1>2. ASSUME NEW m \in Member, member'[m] # member[m]
        PROVE  member'[m] \in MemberRow \cup {Unused, Gone}
    <2>1. ASSUME NEW u \in User, NEW w \in Workspace, CreateWorkspace(u, w, m)
          PROVE  member'[m] \in MemberRow
      BY <1>0, <2>1 DEF CreateWorkspace, TablesOK, MemberRow, Role
    <2>2. ASSUME NEW r \in Request, NEW u \in User, AddMember(r, u, m)
          PROVE  member'[m] \in MemberRow
      <3>1. ws[r] \in Workspace
        BY <1>1, <2>2 DEF AddMember, Permission
      <3> QED
        BY <1>0, <2>2, <3>1 DEF AddMember, TablesOK, MemberRow, Role
    <2>3. ASSUME NEW r \in Request, RemoveMember(r, m)
          PROVE  member'[m] = Gone
      BY <1>0, <2>3 DEF RemoveMember, TablesOK
    <2>4. ASSUME NEW r \in Request, NEW role \in Role, AssignRole(r, m, role)
          PROVE  member'[m] \in MemberRow
      <3>1. member[m] \in MemberRow
        BY <2>4 DEF AssignRole, Targets, Members
      <3>2. member'[m] = [member[m] EXCEPT !.roles = member[m].roles \cup {role}]
        BY <1>0, <2>4 DEF AssignRole, TablesOK
      <3> QED
        BY <3>1, <3>2, RoleAdded
    <2>5. ASSUME NEW r \in Request, DeleteWorkspace(r)
          PROVE  member'[m] = Gone
      BY <1>2, <2>5 DEF DeleteWorkspace
    <2>6. ASSUME NEW u \in User, RemoveUser(u)
          PROVE  member'[m] = Gone
      BY <1>2, <2>6 DEF RemoveUser
    <2> QED
      BY <1>2, <2>1, <2>2, <2>3, <2>4, <2>5, <2>6, MemberChanges
  <1>3. ASSUME NEW l \in Link, link'[l] # link[l]
        PROVE  link'[l] \in LinkRow \cup {Unused, Gone}
    <2>1. ASSUME NEW r \in Request, CreateLink(r, l)
          PROVE  link'[l] \in LinkRow
      <3>1. user[r] \in User /\ ws[r] \in Workspace
        BY <1>1, <2>1 DEF CreateLink, Permission
      <3> QED
        BY <1>0, <2>1, <3>1 DEF CreateLink, TablesOK, LinkRow
    <2>2. ASSUME NEW r \in Request, RemoveLink(r, l) \/ DeleteWorkspace(r)
          PROVE  link'[l] = Gone
      BY <1>0, <1>3, <2>2 DEF RemoveLink, DeleteWorkspace, TablesOK
    <2>3. ASSUME NEW r \in Request, NEW u \in User, GrantUser(r, l, u) \/ RevokeUser(r, l, u)
          PROVE  link'[l] \in LinkRow
      <3>1. link[l] \in LinkRow
        BY <2>3 DEF GrantUser, RevokeUser, CanManage, Links
      <3>2. link'[l] \in {[link[l] EXCEPT !.shares = link[l].shares \cup {u}],
                          [link[l] EXCEPT !.shares = link[l].shares \ {u}]}
        BY <1>0, <2>3 DEF GrantUser, RevokeUser, TablesOK
      <3> QED
        BY <3>1, <3>2, SharesChanged
    <2>4. ASSUME NEW u \in User, RemoveUser(u), l \in Links
          PROVE  link'[l] \in LinkRow
      <3>1. link'[l] = [link[l] EXCEPT !.shares = link[l].shares \ {u}] /\ link[l] \in LinkRow
        BY <2>4 DEF RemoveUser, Links
      <3> QED
        BY <3>1, SharesChanged
    <2> QED
      BY <1>3, <2>1, <2>2, <2>3, <2>4, LinkChanges
  <1>4. /\ users' \subseteq User /\ workspace' \in [Workspace -> {"unused", "exists", "gone"}]
        /\ member' = [m \in Member |-> member'[m]]
        /\ link' = [l \in Link |-> link'[l]]
    <2> DEFINE Shape == /\ users' \subseteq User
                        /\ workspace' \in [Workspace -> {"unused", "exists", "gone"}]
                        /\ member' = [m \in Member |-> member'[m]]
                        /\ link' = [l \in Link |-> link'[l]]
    <2>1. UNCHANGED tableVars => Shape
      BY <1>0 DEF tableVars, TablesOK
    <2>2. ASSUME NEW r \in Request, GuardStep(r)
          PROVE  Shape
      BY <2>1, <2>2 DEF GuardStep, FindMembership, ReadRoles, ReadPermissions, AnswerOnly
    <2>3. ASSUME NEW r \in Request, MemberStep(r)
          PROVE  Shape
      BY <1>0, <2>3 DEF MemberStep, DeleteWorkspace, AddMember, AssignRole, RemoveMember, TablesOK
    <2>4. ASSUME NEW r \in Request, LinkStep(r)
          PROVE  Shape
      BY <1>0, <2>4 DEF LinkStep, CreateLink, RemoveLink, GrantUser, RevokeUser, TablesOK
    <2>5. ASSUME NEW u \in User, NEW w \in Workspace, NEW m \in Member, CreateWorkspace(u, w, m)
          PROVE  Shape
      BY <1>0, <2>5 DEF CreateWorkspace, TablesOK
    <2>6. ASSUME NEW u \in User, RemoveUser(u)
          PROVE  Shape
      BY <1>0, <2>6 DEF RemoveUser, TablesOK
    <2>7. SeedStep => UNCHANGED tableVars
      BY DEF SeedStep, StartSeed, DeletePermissions, CreatePermissions, SeedFails
    <2> QED
      BY <2>1, <2>2, <2>3, <2>4, <2>5, <2>6, <2>7 DEF Next
  <1> QED
    BY <1>0, <1>2, <1>3, <1>4 DEF TablesOK

\* A user stays unless removed, and a workspace unless deleted.
LEMMA UsersStay ==
    ASSUME Next
    PROVE  /\ \A u \in users : u \in users' \/ u \notin User \/ RemoveUser(u)
           /\ (\A u \in User : ~RemoveUser(u)) => users' = users
  <1>1. \A v \in User : RemoveUser(v) => users' = users \ {v}
    BY DEF RemoveUser
  <1>2. (\A v \in User : ~RemoveUser(v)) => users' = users
    BY DEF Next, GuardStep, MemberStep, LinkStep, FindMembership, ReadRoles, ReadPermissions,
           AnswerOnly, DeleteWorkspace, AddMember, RemoveMember, AssignRole, CreateLink, RemoveLink,
           GrantUser, RevokeUser, CreateWorkspace, SeedStep, StartSeed, DeletePermissions,
           CreatePermissions, SeedFails, tableVars
  <1> QED
    BY <1>1, <1>2

\* A workspace goes by its own deletion only.
LEMMA WorkspacesStay ==
    ASSUME TablesOK, Next, NEW w \in Workspace, workspace[w] = "exists"
    PROVE  workspace'[w] = "exists" \/ \E r \in Request : DeleteWorkspace(r) /\ ws[r] = w
  <1>1. ASSUME NEW r \in Request, DeleteWorkspace(r), ws[r] # w
        PROVE  workspace'[w] = "exists"
    BY <1>1 DEF DeleteWorkspace, TablesOK
  <1>2. ASSUME NEW u \in User, NEW v \in Workspace, NEW m \in Member, CreateWorkspace(u, v, m)
        PROVE  workspace'[w] = "exists"
    BY <1>2 DEF CreateWorkspace, TablesOK
  <1>3. \/ workspace' = workspace
        \/ \E r \in Request : DeleteWorkspace(r)
        \/ \E u \in User, v \in Workspace, m \in Member : CreateWorkspace(u, v, m)
    BY DEF Next, GuardStep, MemberStep, LinkStep, FindMembership, ReadRoles, ReadPermissions,
           AnswerOnly, AddMember, RemoveMember, AssignRole, CreateLink, RemoveLink,
           GrantUser, RevokeUser, RemoveUser, SeedStep, StartSeed, DeletePermissions,
           CreatePermissions, SeedFails, tableVars
  <1> QED
    BY <1>1, <1>2, <1>3

\* A membership goes with its user and with its workspace (ON DELETE CASCADE).
LEMMA MembersReferStep ==
    ASSUME TypeOK, Placed, Next
    PROVE  MembersRefer'
  <1>0. TablesOK /\ MembersRefer /\ TablesOK'
    BY TypeParts, TablesType
  <1> SUFFICES ASSUME NEW m \in Member, member'[m] \in MemberRow
               PROVE  member'[m].user \in users' /\ workspace'[member'[m].ws] = "exists"
    BY DEF MembersRefer, Members
  <1>1. ASSUME m \in Members
        PROVE  /\ member[m].user \in users' \/ RemoveUser(member[m].user)
               /\ \/ workspace'[member[m].ws] = "exists"
                  \/ \E r \in Request : DeleteWorkspace(r) /\ ws[r] = member[m].ws
    <2>1. member[m].user \in users \cap User /\ member[m].ws \in Workspace
      BY <1>0, <1>1 DEF MembersRefer, Members, MemberRow
    <2>2. workspace[member[m].ws] = "exists"
      BY <1>0, <1>1 DEF MembersRefer
    <2> QED
      BY <1>0, <2>1, <2>2, UsersStay, WorkspacesStay
  <1>2. CASE member'[m] = member[m]
    <2>1. m \in Members
      BY <1>2 DEF Members
    <2>2. ~RemoveUser(member[m].user)
      BY <1>2, <2>1, Marks DEF RemoveUser
    <2>3. \A r \in Request : ~(DeleteWorkspace(r) /\ ws[r] = member[m].ws)
      BY <1>2, <2>1, Marks DEF DeleteWorkspace
    <2> QED
      BY <1>1, <1>2, <2>1, <2>2, <2>3
  <1>3. ASSUME NEW u \in User, NEW w \in Workspace, CreateWorkspace(u, w, m)
        PROVE  member'[m].user \in users' /\ workspace'[member'[m].ws] = "exists"
    BY <1>0, <1>3 DEF CreateWorkspace, TablesOK
  <1>4. ASSUME NEW r \in Request, NEW u \in User, AddMember(r, u, m)
        PROVE  member'[m].user \in users' /\ workspace'[member'[m].ws] = "exists"
    BY <1>0, <1>4 DEF AddMember, TablesOK
  <1>5. ASSUME NEW r \in Request, NEW role \in Role, AssignRole(r, m, role)
        PROVE  member'[m].user \in users' /\ workspace'[member'[m].ws] = "exists"
    <2>1. m \in Members /\ member[m] \in MemberRow
      BY <1>5 DEF AssignRole, Targets, Members
    <2>2. member'[m] = [member[m] EXCEPT !.roles = member[m].roles \cup {role}]
      BY <1>0, <1>5 DEF AssignRole, TablesOK
    <2>3. member'[m].user = member[m].user /\ member'[m].ws = member[m].ws
      BY <2>1, <2>2, RoleAdded
    <2>4. users' = users /\ workspace' = workspace
      BY <1>5 DEF AssignRole
    <2> QED
      BY <1>0, <2>1, <2>3, <2>4 DEF MembersRefer
  <1>6. ASSUME NEW r \in Request, RemoveMember(r, m)
        PROVE  FALSE
    BY <1>0, <1>6, Marks DEF RemoveMember, TablesOK
  <1>7. ASSUME NEW r \in Request, DeleteWorkspace(r), member[m].ws = ws[r], m \in Members
        PROVE  FALSE
    BY <1>7, Marks DEF DeleteWorkspace
  <1>8. ASSUME NEW u \in User, RemoveUser(u), member[m].user = u, m \in Members
        PROVE  FALSE
    BY <1>8, Marks DEF RemoveUser
  <1> QED
    BY <1>2, <1>3, <1>4, <1>5, <1>6, <1>7, <1>8, MemberChanges

\* A link goes with its workspace, and a share with its user.
LEMMA LinksReferStep ==
    ASSUME TypeOK, Placed, Next
    PROVE  LinksRefer'
  <1>0. TablesOK /\ LinksRefer /\ TablesOK'
    BY TypeParts, TablesType
  <1> SUFFICES ASSUME NEW l \in Link, link'[l] \in LinkRow
               PROVE  /\ link'[l].by \in users' /\ link'[l].shares \subseteq users'
                      /\ workspace'[link'[l].ws] = "exists"
    BY DEF LinksRefer, Links
  <1>1. ASSUME l \in Links
        PROVE  /\ link[l].by \in users' \/ RemoveUser(link[l].by)
               /\ \/ workspace'[link[l].ws] = "exists"
                  \/ \E r \in Request : DeleteWorkspace(r) /\ ws[r] = link[l].ws
    <2>1. link[l].by \in users \cap User /\ link[l].ws \in Workspace
      BY <1>0, <1>1 DEF LinksRefer, Links, LinkRow
    <2>2. workspace[link[l].ws] = "exists"
      BY <1>0, <1>1 DEF LinksRefer
    <2> QED
      BY <1>0, <2>1, <2>2, UsersStay, WorkspacesStay
  <1>2. CASE l \in Links /\ ~(\E u \in User : RemoveUser(u)) /\ link'[l] = link[l]
    <2>1. users' = users
      BY <1>2, UsersStay
    <2>2. \A r \in Request : ~(DeleteWorkspace(r) /\ ws[r] = link[l].ws)
      BY <1>2, Marks DEF DeleteWorkspace
    <2> QED
      BY <1>0, <1>1, <1>2, <2>1, <2>2 DEF LinksRefer
  <1>3. ASSUME NEW u \in User, RemoveUser(u)
        PROVE  /\ link'[l].by \in users' /\ link'[l].shares \subseteq users'
               /\ workspace'[link'[l].ws] = "exists"
    <2>1. l \in Links /\ link[l] \in LinkRow
      BY <1>3 DEF RemoveUser, Links
    <2>2. link'[l] = [link[l] EXCEPT !.shares = link[l].shares \ {u}]
      BY <1>3, <2>1 DEF RemoveUser
    <2>3. /\ link'[l].by = link[l].by /\ link'[l].ws = link[l].ws
          /\ link'[l].shares = link[l].shares \ {u}
      BY <2>1, <2>2 DEF LinkRow
    <2>4. users' = users \ {u} /\ workspace' = workspace /\ link[l].by # u
      BY <1>3, <2>1 DEF RemoveUser, HasNoLinks
    <2> QED
      BY <1>0, <2>1, <2>3, <2>4 DEF LinksRefer
  <1>4. ASSUME NEW r \in Request, CreateLink(r, l)
        PROVE  /\ link'[l].by \in users' /\ link'[l].shares \subseteq users'
               /\ workspace'[link'[l].ws] = "exists"
    BY <1>0, <1>4 DEF CreateLink, TablesOK
  <1>5. ASSUME NEW r \in Request, NEW u \in User, GrantUser(r, l, u) \/ RevokeUser(r, l, u)
        PROVE  /\ link'[l].by \in users' /\ link'[l].shares \subseteq users'
               /\ workspace'[link'[l].ws] = "exists"
    <2>1. l \in Links /\ link[l] \in LinkRow
      BY <1>5 DEF GrantUser, RevokeUser, CanManage, Links
    <2>2. /\ link'[l] \in {[link[l] EXCEPT !.shares = link[l].shares \cup {u}],
                           [link[l] EXCEPT !.shares = link[l].shares \ {u}]}
          /\ users' = users /\ workspace' = workspace
          /\ u \in users \/ link'[l] = [link[l] EXCEPT !.shares = link[l].shares \ {u}]
      BY <1>0, <1>5 DEF GrantUser, RevokeUser, TablesOK
    <2>3. /\ link'[l].by = link[l].by /\ link'[l].ws = link[l].ws
          /\ link'[l].shares \subseteq link[l].shares \cup {u}
          /\ u \in users \/ link'[l].shares = link[l].shares \ {u}
      BY <2>1, <2>2 DEF LinkRow
    <2> QED
      BY <1>0, <2>1, <2>2, <2>3 DEF LinksRefer
  <1>6. ASSUME NEW r \in Request, RemoveLink(r, l)
        PROVE  FALSE
    BY <1>0, <1>6, Marks DEF RemoveLink, TablesOK
  <1>7. ASSUME NEW r \in Request, DeleteWorkspace(r), link[l].ws = ws[r], l \in Links
        PROVE  FALSE
    BY <1>7, Marks DEF DeleteWorkspace
  <1>8. link'[l] = link[l] => l \in Links
    BY DEF Links
  <1> QED
    BY <1>2, <1>3, <1>4, <1>5, <1>6, <1>7, <1>8, LinkChanges

\* Every step keeps the types.
LEMMA NextType == TypeOK /\ Placed /\ [Next]_vars => TypeOK' /\ Placed'
  <1>1. ASSUME TypeOK, Placed, Next
        PROVE  TypeOK' /\ Placed'
    <2>1. TablesOK' /\ RequestsOK' /\ SeedOK'
      BY <1>1, TablesType, RequestsType
    <2>2. RememberedOK'
      BY <1>1, <2>1, RememberStep, TypeParts DEF Next
    <2>3. MembersRefer' /\ LinksRefer' /\ Placed'
      BY <1>1, MembersReferStep, LinksReferStep, PlacedStep, TypeParts
    <2>4. (TypeOK <=> TablesOK /\ SeedOK /\ RequestsOK /\ RememberedOK /\ MembersRefer
                        /\ LinksRefer)'
      BY TypeParts, PTL
    <2> QED
      BY <2>1, <2>2, <2>3, <2>4
  <1>2. ASSUME TypeOK, Placed, UNCHANGED vars
        PROVE  TypeOK' /\ Placed'
    <2>1. Placed'
      BY <1>2 DEF vars, requestVars, Placed
    <2>2. Members' = Members /\ Links' = Links
      BY <1>2 DEF vars, tableVars, Members, Links
    <2> QED
      BY <1>2, <2>1, <2>2 DEF vars, tableVars, seedVars, requestVars, TypeOK
  <1> QED
    BY <1>1, <1>2

\* They hold in every reachable state.
LEMMA PlacedTypes == Spec => [](TypeOK /\ Placed)
  <1>1. Init => Placed
    BY DEF Init, Placed
  <1> QED
    BY <1>1, InitType, NextType, PTL DEF Spec

\* Every variable keeps its type, and no membership, link or share is left behind by
\* the user or workspace it refers to (WorkspacesService.remove, UsersService.remove).
THEOREM WorkspaceTypes == Spec => []TypeOK
  BY PlacedTypes, PTL

(***************************************************************************)
(* What a request has read                                                 *)
(***************************************************************************)
\* The seed script gives a role no more than it defines.
GrantsDefined == \A role \in Role : grants[role] \subseteq Defined[role]

\* What was read, and what is held now, was held since the request began.
HadTells ==
    \A r \in Request :
        /\ roles[r] \subseteq had[r]
        /\ \A permission \in permissions[r] : Had(r, permission)
        /\ IF pc[r] = "idle" THEN had[r] = {} ELSE Held(r) \subseteq had[r]

\* The membership whose roles are to be read is of the request's user, or gone.
MidIsMine ==
    \A r \in Request : pc[r] = "member" =>
        /\ mid[r] \in Member /\ member[mid[r]] # Unused
        /\ mid[r] \in Members => member[mid[r]].user = user[r] /\ member[mid[r]].ws = ws[r]

ReadInv == GrantsDefined /\ HadTells /\ MidIsMine

\* Before the first request nothing has been read.
LEMMA InitRead == Init => ReadInv
  BY DEF Init, ReadInv, GrantsDefined, HadTells, MidIsMine

\* The seed script gives a role no permission but those it defines.
LEMMA GrantsStep ==
    ASSUME TypeOK, GrantsDefined, Next
    PROVE  GrantsDefined'
  <1>1. ASSUME NEW r \in Request, GuardStep(r) \/ MemberStep(r) \/ LinkStep(r)
        PROVE  grants' = grants
    BY <1>1 DEF GuardStep, MemberStep, LinkStep, FindMembership, ReadRoles, ReadPermissions,
                AnswerOnly, DeleteWorkspace, AddMember, RemoveMember, AssignRole, CreateLink,
                RemoveLink, GrantUser, RevokeUser, Ends, seedVars
  <1>2. CASE SeedStep
    <2>1. \A role \in Role : grants'[role] \in {grants[role], {}, Defined[role]}
      BY <1>2 DEF SeedStep, StartSeed, DeletePermissions, CreatePermissions, SeedFails, TypeOK
    <2> QED
      BY <2>1 DEF GrantsDefined
  <1>3. grants' = grants => GrantsDefined'
    BY DEF GrantsDefined
  <1> QED
    BY <1>1, <1>2, <1>3 DEF Next, CreateWorkspace, RemoveUser, seedVars

\* A membership never becomes another user's or another workspace's.
LEMMA MemberStays ==
    ASSUME TypeOK, Next, NEW m \in Member, member[m] # Unused
    PROVE  /\ member'[m] # Unused
           /\ m \in Members' =>
                 /\ m \in Members
                 /\ member'[m].user = member[m].user /\ member'[m].ws = member[m].ws
  <1>1. CASE member'[m] = member[m]
    BY <1>1 DEF Members
  <1>2. ASSUME NEW r \in Request, NEW role \in Role, AssignRole(r, m, role)
        PROVE  /\ m \in Members /\ member'[m] \in MemberRow
               /\ member'[m].user = member[m].user /\ member'[m].ws = member[m].ws
    <2>1. m \in Members /\ member[m] \in MemberRow
      BY <1>2 DEF AssignRole, Targets, Members
    <2>2. member'[m] = [member[m] EXCEPT !.roles = member[m].roles \cup {role}]
      BY <1>2 DEF AssignRole, TypeOK
    <2> QED
      BY <2>1, <2>2, RoleAdded
  <1>3. ASSUME \/ \E u \in User, w \in Workspace : CreateWorkspace(u, w, m)
               \/ \E r \in Request, u \in User : AddMember(r, u, m)
        PROVE  FALSE
    BY <1>3 DEF CreateWorkspace, AddMember
  <1>4. ASSUME \/ \E r \in Request : RemoveMember(r, m)
               \/ \E r \in Request : DeleteWorkspace(r) /\ m \in Members /\ member[m].ws = ws[r]
               \/ \E u \in User : RemoveUser(u) /\ m \in Members /\ member[m].user = u
        PROVE  member'[m] = Gone
    BY <1>4 DEF RemoveMember, DeleteWorkspace, RemoveUser, TypeOK
  <1> QED
    BY <1>1, <1>2, <1>3, <1>4, MemberChanges, Marks DEF Members

\* What a step does to a request.
LEMMA RequestSteps ==
    ASSUME TypeOK, Next, NEW q \in Request
    PROVE  \/ /\ pc'[q] = pc[q] /\ user'[q] = user[q] /\ ws'[q] = ws[q] /\ mid'[q] = mid[q]
              /\ roles'[q] = roles[q] /\ permissions'[q] = permissions[q]
           \/ pc'[q] = "idle" /\ roles'[q] = {} /\ permissions'[q] = {}
           \/ /\ pc[q] = "idle" /\ pc'[q] = "member"
              /\ mid'[q] \in MembershipOf(user'[q], ws'[q]) /\ member' = member
              /\ roles'[q] = roles[q] /\ permissions'[q] = permissions[q]
           \/ /\ pc[q] = "member" /\ pc'[q] = "roles" /\ roles'[q] = RolesRead(q)
              /\ permissions'[q] = permissions[q]
           \/ /\ pc[q] = "roles" /\ pc'[q] = "admitted" /\ permissions'[q] = GivenBy(roles[q])
              /\ roles'[q] = roles[q]
  <1> DEFINE Same == /\ pc'[q] = pc[q] /\ user'[q] = user[q] /\ ws'[q] = ws[q]
                     /\ mid'[q] = mid[q] /\ roles'[q] = roles[q]
                     /\ permissions'[q] = permissions[q]
  <1>1. UNCHANGED requestVars => Same
    BY DEF requestVars
  <1>2. ASSUME NEW r \in Request, Ends(r)
        PROVE  \/ Same
               \/ pc'[q] = "idle" /\ roles'[q] = {} /\ permissions'[q] = {}
    BY <1>2 DEF Ends, GoTo, TypeOK
  <1>3. ASSUME NEW r \in Request, NEW u \in User, NEW w \in Workspace, NEW m \in Member,
               FindMembership(r, u, w, m)
        PROVE  \/ Same
               \/ /\ pc[q] = "idle" /\ pc'[q] = "member"
                  /\ mid'[q] \in MembershipOf(user'[q], ws'[q]) /\ member' = member
                  /\ roles'[q] = roles[q] /\ permissions'[q] = permissions[q]
    <2>1. CASE r = q
      <3>1. mid'[q] = m /\ user'[q] = u /\ ws'[q] = w
        BY <1>3, <2>1 DEF FindMembership, TypeOK
      <3> QED
        BY <1>3, <2>1, <3>1 DEF FindMembership, GoTo, tableVars, TypeOK
    <2>2. CASE r # q
      BY <1>3, <2>2 DEF FindMembership, GoTo, TypeOK
    <2> QED
      BY <2>1, <2>2
  <1>4. ASSUME NEW r \in Request, ReadRoles(r)
        PROVE  \/ Same
               \/ /\ pc[q] = "member" /\ pc'[q] = "roles" /\ roles'[q] = RolesRead(q)
                  /\ permissions'[q] = permissions[q]
    BY <1>4 DEF ReadRoles, GoTo, TypeOK
  <1>5. ASSUME NEW r \in Request, ReadPermissions(r)
        PROVE  \/ Same
               \/ /\ pc[q] = "roles" /\ pc'[q] = "admitted"
                  /\ permissions'[q] = GivenBy(roles[q]) /\ roles'[q] = roles[q]
    BY <1>5 DEF ReadPermissions, GoTo, TypeOK
  <1>6. ASSUME NEW r \in Request, AnswerOnly(r) \/ MemberStep(r) \/ LinkStep(r)
        PROVE  Ends(r)
    BY <1>6 DEF AnswerOnly, MemberStep, LinkStep, DeleteWorkspace, AddMember, RemoveMember,
                AssignRole, CreateLink, RemoveLink, GrantUser, RevokeUser
  <1>7. SeedStep => UNCHANGED requestVars
    BY DEF SeedStep, StartSeed, DeletePermissions, CreatePermissions, SeedFails
  <1> QED
    BY <1>1, <1>2, <1>3, <1>4, <1>5, <1>6, <1>7 DEF Next, GuardStep, CreateWorkspace, RemoveUser

\* The membership that a request has found stays its user's in its workspace, or is gone.
LEMMA MidStep ==
    ASSUME TypeOK, MidIsMine, Next
    PROVE  MidIsMine'
  <1> SUFFICES ASSUME NEW r \in Request, pc'[r] = "member"
               PROVE  /\ mid'[r] \in Member /\ member'[mid'[r]] # Unused
                      /\ mid'[r] \in Members' =>
                            member'[mid'[r]].user = user'[r] /\ member'[mid'[r]].ws = ws'[r]
    BY DEF MidIsMine
  <1>1. CASE pc[r] = "member" /\ user'[r] = user[r] /\ ws'[r] = ws[r] /\ mid'[r] = mid[r]
    BY <1>1, MemberStays DEF MidIsMine
  <1>2. CASE mid'[r] \in MembershipOf(user'[r], ws'[r]) /\ member' = member
    BY <1>2, Marks DEF MembershipOf, Members
  <1> QED
    BY <1>1, <1>2, RequestSteps

\* What a request remembers of its user it does not forget while it is under way.
LEMMA HadGrows ==
    ASSUME HadTells, RememberedOK, Remember, NEW r \in Request
    PROVE  /\ pc'[r] = "idle" => had'[r] = {}
           /\ pc'[r] # "idle" => had[r] \subseteq had'[r] /\ Held(r)' \subseteq had'[r]
  BY DEF HadTells, RememberedOK, Remember

\* What a request has read of rights, its user has held since the request began.
LEMMA HadStep ==
    ASSUME TypeOK, ReadInv, Next
    PROVE  HadTells'
  <1> SUFFICES ASSUME NEW r \in Request
               PROVE  /\ roles'[r] \subseteq had'[r]
                      /\ \A permission \in permissions'[r] :
                            \E role \in had'[r] : permission \in Defined[role]
                      /\ IF pc'[r] = "idle" THEN had'[r] = {} ELSE Held(r)' \subseteq had'[r]
    BY DEF HadTells, Had
  <1>0. HadTells /\ RememberedOK /\ Remember
    BY TypeParts DEF ReadInv, Next
  <1>1. /\ pc'[r] = "idle" => had'[r] = {}
        /\ pc'[r] # "idle" => had[r] \subseteq had'[r] /\ Held(r)' \subseteq had'[r]
    BY <1>0, HadGrows
  <1>2. /\ roles[r] \subseteq had[r]
        /\ \A permission \in permissions[r] : \E role \in had[r] : permission \in Defined[role]
        /\ pc[r] = "idle" => had[r] = {}
        /\ pc[r] # "idle" => Held(r) \subseteq had[r]
    BY <1>0 DEF HadTells, Had
  <1>3. pc[r] = "member" => RolesRead(r) \subseteq had[r]
    <2>1. ASSUME pc[r] = "member", mid[r] \in Members
          PROVE  mid[r] \in MembershipOf(user[r], ws[r])
      BY <2>1 DEF ReadInv, MidIsMine, MembershipOf
    <2> QED
      BY <1>2, <2>1 DEF RolesRead, Held
  <1>4. \A permission \in GivenBy(roles[r]) : \E role \in had[r] : permission \in Defined[role]
    <2>1. \A role \in roles[r] : grants[role] \subseteq Defined[role]
      BY DEF ReadInv, GrantsDefined, TypeOK
    <2> QED
      BY <1>2, <2>1 DEF GivenBy
  <1>5. CASE pc'[r] # "idle"
    <2>1. roles'[r] \in {roles[r], RolesRead(r)} /\ (roles'[r] = roles[r] \/ pc[r] = "member")
      BY <1>5, RequestSteps
    <2>2. permissions'[r] \in {permissions[r], GivenBy(roles[r])}
      BY <1>5, RequestSteps
    <2> QED
      BY <1>1, <1>2, <1>3, <1>4, <1>5, <2>1, <2>2
  <1>6. CASE pc'[r] = "idle"
    <2>1. roles'[r] = {} /\ permissions'[r] = {}
      BY <1>2, <1>6, RequestSteps
    <2> QED
      BY <1>1, <1>6, <2>1
  <1> QED
    BY <1>5, <1>6

\* The invariant holds in every reachable state.
LEMMA ReadHolds == Spec => [](TypeOK /\ Placed /\ ReadInv)
  <1>1. ASSUME TypeOK, ReadInv, [Next]_vars
        PROVE  ReadInv'
    <2>1. CASE Next
      BY <1>1, <2>1, GrantsStep, HadStep, MidStep DEF ReadInv
    <2>2. CASE UNCHANGED vars
      <3>1. \A r \in Request : Held(r)' = Held(r)
        BY <2>2 DEF vars, tableVars, requestVars, Held, MembershipOf, Members
      <3> QED
        BY <1>1, <2>2, <3>1 DEF vars, tableVars, seedVars, requestVars, ReadInv, GrantsDefined,
                                HadTells, Had, MidIsMine, Members
    <2> QED
      BY <1>1, <2>1, <2>2
  <1> QED
    BY <1>1, InitRead, PlacedTypes, PTL DEF Spec

(***************************************************************************)
(* Who may do what                                                         *)
(***************************************************************************)
\* A request that acts has a right its user had.
LEMMA ActsByRight ==
    ASSUME TypeOK, ReadInv, NEW r \in Request, NEW permission, Admitted(r, permission), Ends(r)
    PROVE  Acts(r, ws[r]) /\ Had(r, permission)
  <1>1. pc[r] = "admitted" /\ permission \in permissions[r]
    BY DEF Admitted
  <1>2. pc'[r] = "idle"
    BY DEF Ends, GoTo, TypeOK
  <1> QED
    BY <1>1, <1>2 DEF Acts, ReadInv, HadTells

\* Whoever enters a workspace, leaves it or gets a role there does so by a right that
\* was held in it, for any number of requests between guard and statement, any changes
\* of roles meanwhile and any run of the seed script (WorkspacesService,
\* WorkspacePermissionGuard).
THEOREM RightsGuardMembers == Spec => MembersByRight
  <1>1. ASSUME TypeOK, ReadInv, Next, NEW m \in Member
        PROVE  /\ member[m] = Unused /\ member'[m] # Unused =>
                    \/ workspace[member'[m].ws] = "unused" /\ member'[m].roles = {"OWNER"}
                    \/ ByRight(member'[m].ws, "member:invite") /\ member'[m].roles = {"MEMBER"}
               /\ m \in Members /\ member'[m] = Gone =>
                    \/ member[m].user \notin users'
                    \/ ByRight(member[m].ws, "member:remove")
                    \/ ByRight(member[m].ws, "workspace:delete") /\ workspace'[member[m].ws] = "gone"
               /\ m \in Members /\ member'[m] \notin {Gone, member[m]} =>
                    ByRight(member[m].ws, "member:role:assign")
    <2>1. CASE member'[m] = member[m]
      BY <2>1, Marks DEF Members
    <2>2. ASSUME NEW u \in User, NEW w \in Workspace, CreateWorkspace(u, w, m)
          PROVE  /\ member[m] = Unused /\ m \notin Members
                 /\ workspace[member'[m].ws] = "unused" /\ member'[m].roles = {"OWNER"}
      BY <1>1, <2>2, Marks DEF CreateWorkspace, Members, TypeOK
    <2>3. ASSUME NEW r \in Request, NEW u \in User, AddMember(r, u, m)
          PROVE  /\ member[m] = Unused /\ m \notin Members
                 /\ ByRight(member'[m].ws, "member:invite") /\ member'[m].roles = {"MEMBER"}
      <3>1. Acts(r, ws[r]) /\ Had(r, "member:invite")
        BY <1>1, <2>3, ActsByRight DEF AddMember
      <3>2. member'[m].ws = ws[r] /\ member'[m].roles = {"MEMBER"}
        BY <1>1, <2>3 DEF AddMember, TypeOK
      <3> QED
        BY <2>3, <3>1, <3>2, Marks DEF AddMember, ByRight, Members
    <2>4. ASSUME NEW r \in Request, RemoveMember(r, m)
          PROVE  m \in Members /\ member'[m] = Gone /\ ByRight(member[m].ws, "member:remove")
      <3>1. Acts(r, ws[r]) /\ Had(r, "member:remove")
        BY <1>1, <2>4, ActsByRight DEF RemoveMember
      <3> QED
        BY <1>1, <2>4, <3>1 DEF RemoveMember, Targets, ByRight, TypeOK
    <2>5. ASSUME NEW r \in Request, NEW role \in Role, AssignRole(r, m, role)
          PROVE  /\ m \in Members /\ member'[m] # Gone
                 /\ ByRight(member[m].ws, "member:role:assign")
      <3>1. Acts(r, ws[r]) /\ Had(r, "member:role:assign")
        BY <1>1, <2>5, ActsByRight DEF AssignRole
      <3>2. m \in Members /\ member[m].ws = ws[r] /\ member[m] \in MemberRow
        BY <2>5 DEF AssignRole, Targets, Members
      <3>3. member'[m] = [member[m] EXCEPT !.roles = member[m].roles \cup {role}]
        BY <1>1, <2>5 DEF AssignRole, TypeOK
      <3>4. member'[m] \in MemberRow
        BY <3>2, <3>3, RoleAdded
      <3> QED
        BY <3>1, <3>2, <3>4, Marks DEF ByRight
    <2>6. ASSUME NEW r \in Request, DeleteWorkspace(r), m \in Members, member[m].ws = ws[r]
          PROVE  /\ member'[m] = Gone
                 /\ ByRight(member[m].ws, "workspace:delete") /\ workspace'[member[m].ws] = "gone"
      <3>1. Acts(r, ws[r]) /\ Had(r, "workspace:delete")
        BY <1>1, <2>6, ActsByRight DEF DeleteWorkspace
      <3>2. ws[r] \in Workspace
        BY <2>6 DEF Members, MemberRow
      <3> QED
        BY <1>1, <2>6, <3>1, <3>2 DEF DeleteWorkspace, ByRight, TypeOK
    <2>7. ASSUME NEW u \in User, RemoveUser(u), m \in Members, member[m].user = u
          PROVE  member'[m] = Gone /\ member[m].user \notin users'
      BY <2>7 DEF RemoveUser
    <2>8. m \in Members => member[m] # Unused
      BY Marks DEF Members
    <2> QED
      BY <1>1, <2>1, <2>2, <2>3, <2>4, <2>5, <2>6, <2>7, <2>8, MemberChanges, Marks
  <1>2. TypeOK /\ ReadInv /\ [Next]_vars =>
        [\A m \in Member :
            /\ member[m] = Unused /\ member'[m] # Unused =>
                  \/ workspace[member'[m].ws] = "unused" /\ member'[m].roles = {"OWNER"}
                  \/ ByRight(member'[m].ws, "member:invite") /\ member'[m].roles = {"MEMBER"}
            /\ m \in Members /\ member'[m] = Gone =>
                  \/ member[m].user \notin users'
                  \/ ByRight(member[m].ws, "member:remove")
                  \/ ByRight(member[m].ws, "workspace:delete") /\ workspace'[member[m].ws] = "gone"
            /\ m \in Members /\ member'[m] \notin {Gone, member[m]} =>
                  ByRight(member[m].ws, "member:role:assign")]_vars
    BY <1>1
  <1> QED
    BY <1>2, ReadHolds, PTL DEF Spec, MembersByRight

\* A link is deleted or shared only by a right that was held in its workspace, and by
\* its creator, an owner or an administrator (assertCanManageShortLink), with the roles
\* the guard has read however long ago.
THEOREM RightsGuardLinks == Spec => LinksByRight
  <1>1. ASSUME TypeOK, ReadInv, Next, NEW l \in Links, link'[l] # link[l]
        PROVE  \/ users' # users
               \/ ByRight(link[l].ws, "workspace:delete") /\ workspace'[link[l].ws] = "gone"
               \/ \E r \in Request :
                     /\ Acts(r, link[l].ws)
                     /\ Had(r, IF link'[l] = Gone THEN "link:delete" ELSE "link:update")
                     /\ user[r] = link[l].by \/ had[r] \cap {"OWNER", "ADMIN"} # {}
    <2>0. l \in Link /\ link[l] \in LinkRow
      BY <1>1 DEF Links
    <2>1. ASSUME NEW r \in Request, CanManage(r, l)
          PROVE  /\ link[l].ws = ws[r]
                 /\ user[r] = link[l].by \/ had[r] \cap {"OWNER", "ADMIN"} # {}
      <3>1. roles[r] \subseteq had[r]
        BY <1>1 DEF ReadInv, HadTells
      <3> QED
        BY <2>1, <3>1 DEF CanManage
    <2>2. ASSUME NEW r \in Request, CreateLink(r, l)
          PROVE  FALSE
      BY <2>0, <2>2, Marks DEF CreateLink
    <2>3. ASSUME NEW r \in Request, RemoveLink(r, l)
          PROVE  /\ Acts(r, ws[r]) /\ Had(r, "link:delete") /\ CanManage(r, l)
                 /\ link'[l] = Gone
      BY <1>1, <2>0, <2>3, ActsByRight DEF RemoveLink, TypeOK
    <2>4. ASSUME NEW r \in Request, NEW u \in User, GrantUser(r, l, u) \/ RevokeUser(r, l, u)
          PROVE  /\ Acts(r, ws[r]) /\ Had(r, "link:update") /\ CanManage(r, l)
                 /\ link'[l] # Gone
      <3>1. Acts(r, ws[r]) /\ Had(r, "link:update") /\ CanManage(r, l)
        BY <1>1, <2>4, ActsByRight DEF GrantUser, RevokeUser
      <3>2. link'[l] \in {[link[l] EXCEPT !.shares = link[l].shares \cup {u}],
                          [link[l] EXCEPT !.shares = link[l].shares \ {u}]}
        BY <1>1, <2>0, <2>4 DEF GrantUser, RevokeUser, TypeOK
      <3>3. link'[l] \in LinkRow
        BY <2>0, <3>2, SharesChanged
      <3> QED
        BY <3>1, <3>3, Marks
    <2>5. ASSUME NEW r \in Request, DeleteWorkspace(r), link[l].ws = ws[r]
          PROVE  ByRight(link[l].ws, "workspace:delete") /\ workspace'[link[l].ws] = "gone"
      <3>1. Acts(r, ws[r]) /\ Had(r, "workspace:delete")
        BY <1>1, <2>5, ActsByRight DEF DeleteWorkspace
      <3>2. ws[r] \in Workspace
        BY <2>0, <2>5 DEF LinkRow
      <3> QED
        BY <1>1, <2>5, <3>1, <3>2 DEF DeleteWorkspace, ByRight, TypeOK
    <2>6. ASSUME NEW u \in User, RemoveUser(u)
          PROVE  users' # users
      BY <2>6 DEF RemoveUser
    <2> QED
      BY <1>1, <2>0, <2>1, <2>2, <2>3, <2>4, <2>5, <2>6, LinkChanges
  <1>2. TypeOK /\ ReadInv /\ [Next]_vars =>
        [\A l \in Links : link'[l] # link[l] =>
            \/ users' # users
            \/ ByRight(link[l].ws, "workspace:delete") /\ workspace'[link[l].ws] = "gone"
            \/ \E r \in Request :
                  /\ Acts(r, link[l].ws)
                  /\ Had(r, IF link'[l] = Gone THEN "link:delete" ELSE "link:update")
                  /\ user[r] = link[l].by \/ had[r] \cap {"OWNER", "ADMIN"} # {}]_vars
    BY <1>1
  <1> QED
    BY <1>2, ReadHolds, PTL DEF Spec, LinksByRight

(***************************************************************************)
(* What the guard does not miss                                            *)
(***************************************************************************)
\* A user is a member of a workspace once.
MemberOnce ==
    \A m, n \in Members :
        member[m].user = member[n].user /\ member[m].ws = member[n].ws => m = n

\* What was kept so far is what is about to be read, or was read.
KeptIsRead ==
    \A r \in Request :
        /\ pc[r] = "member" => kept[r] \subseteq RolesRead(r)
        /\ pc[r] = "roles" => kept[r] \subseteq roles[r]

\* A user is a member of a workspace once, by the unique index.
LEMMA OnceStep ==
    ASSUME TypeOK, Placed, MemberOnce, Next
    PROVE  MemberOnce'
  <1>0. TablesOK /\ MembersRefer /\ TablesOK'
    BY TypeParts, TablesType
  <1>1. ASSUME NEW m \in Members', m \notin Members
        PROVE  \A n \in Members : \/ n \notin Members'
                                  \/ member[n].user # member'[m].user
                                  \/ member[n].ws # member'[m].ws
    <2>0. m \in Member /\ member'[m] # member[m]
      BY <1>1 DEF Members
    <2>1. ASSUME NEW u \in User, NEW w \in Workspace, CreateWorkspace(u, w, m)
          PROVE  \A n \in Members : member[n].ws # member'[m].ws
      BY <1>0, <2>0, <2>1 DEF CreateWorkspace, MembersRefer, TablesOK
    <2>2. ASSUME NEW r \in Request, NEW u \in User, AddMember(r, u, m)
          PROVE  \A n \in Members : \/ member[n].user # member'[m].user
                                    \/ member[n].ws # member'[m].ws
      BY <1>0, <2>0, <2>2 DEF AddMember, MembershipOf, TablesOK
    <2> QED
      BY <1>1, <2>0, <2>1, <2>2, MemberChanges, Marks DEF Members, RemoveMember, Targets, AssignRole
  <1>2. \A m \in Members : m \in Members' =>
            member'[m].user = member[m].user /\ member'[m].ws = member[m].ws
    BY MemberStays, Marks DEF Members
  <1>3. ASSUME NEW m \in Members', NEW n \in Members', m \notin Members, n \notin Members
        PROVE  m = n
    <2>1. m \in Member /\ member'[m] # member[m] /\ n \in Member /\ member'[n] # member[n]
      BY <1>3 DEF Members
    <2>2. \/ \E u \in User, w \in Workspace : CreateWorkspace(u, w, m)
          \/ \E r \in Request, u \in User : AddMember(r, u, m)
      BY <1>3, <2>1, MemberChanges DEF RemoveMember, Targets, AssignRole
    <2>3. member' = [member EXCEPT ![m] = member'[m]]
      BY <1>0, <2>1, <2>2 DEF CreateWorkspace, AddMember, TablesOK
    <2> QED
      BY <1>0, <2>1, <2>3 DEF TablesOK
  <1> QED
    BY <1>1, <1>2, <1>3 DEF MemberOnce

\* Roles and permissions that are kept all the time are among those that are read.
LEMMA KeptStep ==
    ASSUME TypeOK, Placed, ReadInv, MemberOnce, KeptIsRead, Next
    PROVE  KeptIsRead'
  <1>0. Remember /\ MidIsMine /\ KeptIsRead /\ RememberedOK
    BY TypeParts DEF Next, ReadInv
  <1>1. MemberOnce' /\ MidIsMine'
    BY OnceStep, MidStep DEF ReadInv
  \* The roles of the one membership are all the user holds.
  <1>2. ASSUME NEW r \in Request, (mid[r] \in MembershipOf(user[r], ws[r]))'
        PROVE  Held(r)' = member'[mid'[r]].roles
    <2>1. \A m \in MembershipOf(user[r], ws[r])' : m = mid'[r]
      BY <1>1, <1>2 DEF MembershipOf, MemberOnce
    <2> QED
      BY <1>2, <2>1 DEF Held
  <1>3. ASSUME NEW r \in Request, pc'[r] = "member"
        PROVE  kept'[r] \subseteq RolesRead(r)'
    <2>1. CASE mid'[r] \in Members'
      <3>1. (mid[r] \in MembershipOf(user[r], ws[r]))'
        BY <1>1, <1>3, <2>1 DEF MidIsMine, MembershipOf
      <3>2. kept'[r] \subseteq Held(r)'
        BY <1>0, <1>3 DEF Remember
      <3> QED
        BY <1>2, <2>1, <3>1, <3>2 DEF RolesRead
    <2>2. CASE mid'[r] \notin Members'
      <3>1. pc[r] = "member" /\ user'[r] = user[r] /\ ws'[r] = ws[r] /\ mid'[r] = mid[r]
        BY <1>3, <2>2, RequestSteps DEF MembershipOf, Members
      <3>2. kept'[r] = kept[r] \cap Held(r)'
        BY <1>0, <1>3, <3>1 DEF Remember
      <3>3. CASE mid[r] \notin Members
        BY <1>0, <3>1, <3>2, <3>3 DEF KeptIsRead, RolesRead
      <3>4. CASE mid[r] \in Members
        <4>1. mid[r] \in MembershipOf(user[r], ws[r]) /\ mid[r] \in Member
          BY <1>0, <3>1, <3>4 DEF MidIsMine, MembershipOf
        <4>2. \A m \in Members : member[m].user = user[r] /\ member[m].ws = ws[r] => m = mid[r]
          BY <4>1 DEF MembershipOf, MemberOnce
        <4>3. \A m \in Members' : m \in Members
          <5>1. member'[mid[r]] # member[mid[r]]
            BY <2>2, <3>1, <3>4 DEF Members
          <5>2. mid[r] \in Members /\ mid[r] \notin Members'
            BY <2>2, <3>1, <3>4
          <5>3. ASSUME \/ \E q \in Request : RemoveMember(q, mid[r])
                       \/ \E q \in Request : DeleteWorkspace(q)
                       \/ \E u \in User : RemoveUser(u)
                PROVE  \A m \in Member : member'[m] \in {member[m], Gone}
            BY <5>3 DEF RemoveMember, DeleteWorkspace, RemoveUser, TypeOK
          <5>4. ASSUME NEW q \in Request, NEW role \in Role, AssignRole(q, mid[r], role)
                PROVE  FALSE
            <6>1. /\ member[mid[r]] \in MemberRow
                  /\ member'[mid[r]] = [member[mid[r]] EXCEPT
                                          !.roles = member[mid[r]].roles \cup {role}]
              BY <4>1, <5>4 DEF AssignRole, Targets, Members, TypeOK
            <6> QED
              BY <4>1, <5>2, <6>1, RoleAdded DEF Members
          <5>5. ASSUME \/ \E u \in User, w \in Workspace : CreateWorkspace(u, w, mid[r])
                       \/ \E q \in Request, u \in User : AddMember(q, u, mid[r])
                PROVE  FALSE
            BY <5>2, <5>5, Marks DEF CreateWorkspace, AddMember, Members
          <5> QED
            BY <4>1, <5>1, <5>3, <5>4, <5>5, MemberChanges, Marks DEF Members
        <4>4. \A m \in Members' : member'[m].user = member[m].user /\ member'[m].ws = member[m].ws
          BY <4>3, MemberStays, Marks DEF Members
        <4>5. Held(r)' = {}
          BY <2>2, <3>1, <4>2, <4>3, <4>4 DEF Held, MembershipOf
        <4> QED
          BY <3>2, <4>5
      <3> QED
        BY <3>3, <3>4
    <2> QED
      BY <2>1, <2>2
  <1>4. ASSUME NEW r \in Request, pc'[r] = "roles"
        PROVE  kept'[r] \subseteq roles'[r]
    <2>1. pc[r] # "idle" /\ kept'[r] \subseteq kept[r]
      BY <1>0, <1>4, RequestSteps DEF Remember
    <2> QED
      BY <1>0, <1>4, <2>1, RequestSteps DEF KeptIsRead
  <1> QED
    BY <1>3, <1>4 DEF KeptIsRead

\* A right that is held all the time while the guard asks is found, whatever else
\* changes between its queries, unless the seed script is at work on the role
\* (getWorkspaceAccess).
THEOREM GuardSeesRights == Spec => RightsAreSeen
  <1>1. Init => MemberOnce /\ KeptIsRead
    BY Marks DEF Init, MemberOnce, KeptIsRead, Members
  <1>2. TypeOK /\ Placed /\ ReadInv /\ MemberOnce /\ KeptIsRead /\ [Next]_vars
            => MemberOnce' /\ KeptIsRead'
    <2>1. ASSUME MemberOnce, KeptIsRead, UNCHANGED vars
          PROVE  MemberOnce' /\ KeptIsRead'
      BY <2>1 DEF vars, tableVars, requestVars, MemberOnce, KeptIsRead, RolesRead, Members
    <2> QED
      BY <2>1, OnceStep, KeptStep
  <1>3. ASSUME TypeOK, KeptIsRead, Next, NEW r \in Request,
               pc[r] = "roles", pc'[r] = "admitted",
               \A role \in kept[r] : grants[role] = Defined[role]
        PROVE  \A role \in kept[r] : Defined[role] \subseteq permissions'[r]
    <2>1. permissions'[r] = GivenBy(roles[r])
      BY <1>3, RequestSteps
    <2>2. kept[r] \subseteq roles[r]
      BY <1>3 DEF KeptIsRead
    <2> QED
      BY <1>3, <2>1, <2>2 DEF GivenBy
  <1>4. TypeOK /\ KeptIsRead /\ [Next]_vars =>
        [\A r \in Request :
            /\ pc[r] = "roles" /\ pc'[r] = "admitted"
            /\ \A role \in kept[r] : grants[role] = Defined[role]
            => \A role \in kept[r] : Defined[role] \subseteq permissions'[r]]_vars
    BY <1>3
  <1> QED
    BY <1>1, <1>2, <1>4, ReadHolds, PTL DEF Spec, RightsAreSeen
=============================================================================
