------------------------------- MODULE Roles --------------------------------
(***************************************************************************)
(* The roles of one association, the permissions they carry and the        *)
(* executive memberships they are given to.  Like the other handlers, the  *)
(* ones of roles look up in one statement and save in a later one.  Those  *)
(* that change members of a role by PATCH answer before their saves have   *)
(* begun: each save then takes effect on its own, or is lost.              *)
(***************************************************************************)
EXTENDS Naturals, Sequences, FiniteSets

CONSTANTS
  RoleRows,    (* rows of role that may be inserted                        *)
  Names,
  Permissions, (* rows of permission: seeded at start-up, always ACTIVE    *)
  Members,     (* executive memberships                                    *)
  Handlers,
  MaxRows,     (* bound: membership_role rows of one role                  *)
  MaxLate,     (* bound: saves left behind by PATCH at a time              *)
  None

ASSUME RolesAssumption ==
  /\ None \notin Names \cup Members \cup RoleRows
  /\ IsFiniteSet(Members)
  /\ MaxRows \in Nat /\ MaxLate \in Nat

VARIABLES
  role,           (* name and status                                       *)
  rolePermission, (* role_permission rows: status, or "absent"             *)
  membershipRole, (* membershipRole[r][m]: statuses of the rows            *)
  membership,     (* status of each executive membership                   *)
  handler,        (* what each handler has looked up                       *)
  late,           (* saves of an answered PATCH that nobody waits for      *)
  conflicts       (* history: names two creations of which overlapped      *)

roleTables == <<role, rolePermission, membershipRole, membership>>
roleVars == <<roleTables, handler, late, conflicts>>

NoRole == [name |-> None, status |-> "absent"]
NoRequest == [op |-> "idle", role |-> None, on |-> None]

RolesInit ==
  /\ role = [r \in RoleRows |-> NoRole]
  /\ rolePermission = [r \in RoleRows |-> [p \in Permissions |-> "absent"]]
  /\ membershipRole = [r \in RoleRows |-> [m \in Members |-> <<>>]]
  /\ membership = [m \in Members |-> "ACTIVE"]
  /\ handler = [h \in Handlers |-> NoRequest]
  /\ late = {}
  /\ conflicts = {}

Begin(h, op, r, on) ==
  /\ handler[h] = NoRequest
  /\ handler' = [handler EXCEPT ![h] = [op |-> op, role |-> r, on |-> on]]
  /\ UNCHANGED roleTables

End(h) == handler' = [handler EXCEPT ![h] = NoRequest]

(* A statement fails and the transaction is rolled back, or finds nothing. *)
Fail(h) ==
  /\ handler[h] # NoRequest
  /\ End(h)
  /\ UNCHANGED <<roleTables, late, conflicts>>

-----------------------------------------------------------------------------
(* createRole: a name is taken by any role, one that was deleted too.      *)
NameTaken_active(n) == \E r \in RoleRows : role[r] = [name |-> n, status |-> "ACTIVE"]

NameTaken(n) == \E r \in RoleRows : role[r].name = n

(* The codes of a request that are those of a permission.                  *)
FindByCode(codes) == codes \cap Permissions

FreeRoles == {r \in RoleRows : role[r] = NoRole /\ \A h \in Handlers : handler[h].role # r}

BeginRole(h, n, codes) ==
  /\ ~NameTaken(n)
  /\ FindByCode(codes) # {}
  /\ FreeRoles # {}
  /\ Begin(h, "create", CHOOSE r \in FreeRoles : TRUE,
           [name |-> n, permissions |-> FindByCode(codes)])
  /\ conflicts' = conflicts \cup
       {n : k \in {k \in Handlers : handler[k].op = "create" /\ handler[k].on.name = n}}
  /\ UNCHANGED late

CreateRole_unnamed(h) ==
  /\ handler[h].op = "create"
  /\ LET r == handler[h].role IN
     /\ role' = [role EXCEPT ![r] = [name |-> None, status |-> "ACTIVE"]]
     /\ rolePermission' = [rolePermission EXCEPT ![r] =
          [p \in Permissions |-> IF p \in handler[h].on.permissions THEN "ACTIVE" ELSE "absent"]]
  /\ End(h)
  /\ UNCHANGED <<membershipRole, membership, late, conflicts>>

CreateRole(h) ==
  /\ handler[h].op = "create"
  /\ LET r == handler[h].role IN
     /\ role' = [role EXCEPT ![r] = [name |-> handler[h].on.name, status |-> "ACTIVE"]]
     /\ rolePermission' = [rolePermission EXCEPT ![r] =
          [p \in Permissions |-> IF p \in handler[h].on.permissions THEN "ACTIVE" ELSE "absent"]]
  /\ End(h)
  /\ UNCHANGED <<membershipRole, membership, late, conflicts>>

(* deleteRole: the role and its permissions; who had it keeps the row.     *)
FindRole(h, r) ==
  /\ role[r].status = "ACTIVE"
  /\ Begin(h, "delete", r, None)
  /\ UNCHANGED <<late, conflicts>>

DeleteRole_roleOnly(h) ==
  /\ handler[h].op = "delete"
  /\ role' = [role EXCEPT ![handler[h].role].status = "IN_ACTIVE"]
  /\ End(h)
  /\ UNCHANGED <<rolePermission, membershipRole, membership, late, conflicts>>

DeleteRole(h) ==
  /\ handler[h].op = "delete"
  /\ LET r == handler[h].role IN
     /\ role' = [role EXCEPT ![r].status = "IN_ACTIVE"]
     /\ rolePermission' = [rolePermission EXCEPT ![r] =
          [p \in Permissions |-> IF @[p] = "absent" THEN "absent" ELSE "IN_ACTIVE"]]
  /\ End(h)
  /\ UNCHANGED <<membershipRole, membership, late, conflicts>>

-----------------------------------------------------------------------------
(* Members of a role.  Memberships are found by identifier, if ACTIVE.     *)
RowsOf(r, M) == {p \in M \X (1 .. MaxRows) : p[2] \in DOMAIN membershipRole[r][p[1]]}

Found(M) == {m \in M : membership[m] = "ACTIVE"}

AddMembership(h, r, M) ==
  /\ role[r].status = "ACTIVE"
  /\ Found(M) # {}
  /\ Begin(h, "add", r, Found(M))
  /\ UNCHANGED <<late, conflicts>>

(* Whether the member has the role already is not asked.                   *)
AssignMemberships(h) ==
  /\ handler[h].op = "add"
  /\ LET r == handler[h].role IN
     /\ Cardinality(RowsOf(r, Members) \cup (handler[h].on \X {0})) <= MaxRows
     /\ membershipRole' = [membershipRole EXCEPT ![r] =
          [m \in Members |-> IF m \in handler[h].on THEN Append(@[m], "ACTIVE") ELSE @[m]]]
  /\ End(h)
  /\ UNCHANGED <<role, rolePermission, membership, late, conflicts>>

(* When the identifier finds nobody the look-up goes on with no member.    *)
RemoveMembership(h, r, m) ==
  /\ role[r].status = "ACTIVE"
  /\ Begin(h, "remove", r, Found({m}))
  /\ UNCHANGED <<late, conflicts>>

(* deActivateMember saves one row that findOne finds, whatever its status: *)
(* which of several is up to the database.                                 *)
DeActivateMember(r, M) ==
  \/ /\ RowsOf(r, M) = {}
     /\ UNCHANGED membershipRole
  \/ \E p \in RowsOf(r, M) :
       membershipRole' = [membershipRole EXCEPT ![r][p[1]][p[2]] = "DELETED"]

(* A condition on no member is no condition, or one that nothing meets.    *)
RemoveMember(h) ==
  /\ handler[h].op = "remove"
  /\ \/ DeActivateMember(handler[h].role, handler[h].on)
     \/ handler[h].on = {} /\ DeActivateMember(handler[h].role, Members)
  /\ End(h)
  /\ UNCHANGED <<role, rolePermission, membership, late, conflicts>>

(* PATCH: the promises of the saves sit in arrays that Promise.all takes   *)
(* for values, so that the transaction commits, and the answer is given,   *)
(* with none of them done.                                                 *)
UpdateRole(r, add, remove) ==
  /\ role[r].status = "ACTIVE"
  /\ late' = late \cup {[op |-> "add", role |-> r, member |-> m] : m \in Found(add)}
                  \cup {[op |-> "remove", role |-> r, member |-> m] : m \in Found(remove)}
  /\ Cardinality(late') <= MaxLate
  /\ UNCHANGED <<roleTables, handler, conflicts>>

SaveLate(s) ==
  /\ \/ /\ s.op = "add"
        /\ Cardinality(RowsOf(s.role, Members)) < MaxRows
        /\ membershipRole' = [membershipRole EXCEPT ![s.role][s.member] = Append(@, "ACTIVE")]
     \/ s.op = "remove" /\ DeActivateMember(s.role, {s.member})
  /\ late' = late \ {s}
  /\ UNCHANGED <<role, rolePermission, membership, handler, conflicts>>

LoseLate(s) ==
  /\ late' = late \ {s}
  /\ UNCHANGED <<roleTables, handler, conflicts>>

(* The member is deleted, or loses the executive account (Accounts): the   *)
(* rows of membership_role stay as they are.                               *)
DeleteMembership(m) ==
  /\ membership[m] = "ACTIVE"
  /\ membership' = [membership EXCEPT ![m] = "DELETED"]
  /\ UNCHANGED <<role, rolePermission, membershipRole, handler, late, conflicts>>

-----------------------------------------------------------------------------
(* Queries.  None of them looks at the status of the membership.           *)
Holds(m, r) == \E i \in DOMAIN membershipRole[r][m] : membershipRole[r][m][i] = "ACTIVE"

HasPermission(m, p) ==
  \E r \in RoleRows :
    /\ role[r].status = "ACTIVE"
    /\ Holds(m, r)
    /\ rolePermission[r][p] = "ACTIVE"

(* A handler that names permissions wants one of them.                     *)
Intercept(m, P) == P # {} => \E p \in P : HasPermission(m, p)

(* What a user who logs in is told the account may do.                     *)
FindByPortalUser(m) ==
  {p \in Permissions : \E r \in RoleRows : /\ Holds(m, r)
                                           /\ role[r].status = "ACTIVE"
                                           /\ rolePermission[r][p] = "ACTIVE"}

(* The permissions a role is shown with, whatever its own status.          *)
PermissionsOf(r) == {p \in Permissions : rolePermission[r][p] = "ACTIVE"}

TransformRole(r) == {[name |-> p] : p \in PermissionsOf(r)}

GetRole(r) == IF role[r].status = "ACTIVE" THEN TransformRole(r) ELSE {}

(* The list of roles: each with all permissions, marked when it has them.  *)
FindByRoles(R) ==
  {rp \in R \X Permissions : rolePermission[rp[1]][rp[2]] = "ACTIVE"}

TransformRoles(R) ==
  {[role |-> r, exist |-> [p \in Permissions |-> <<r, p>> \in FindByRoles(R)]] : r \in R}

GetRoles == TransformRoles({r \in RoleRows : role[r].status = "ACTIVE"})

(* The members of a role, and the roles in the list of members.            *)
FindByRole(r) == {m \in Members : Holds(m, r)}

GetMember(r) == IF role[r].status = "ACTIVE" THEN FindByRole(r) ELSE {}

FindByMembershipInfo(m) == {r \in RoleRows : Holds(m, r) /\ role[r].status = "ACTIVE"}

(* The list of assignments shows every row there ever was.                 *)
FindByAssociation == {rm \in RoleRows \X Members : membershipRole[rm[1]][rm[2]] # <<>>}

TransformMemberships(R) ==
  {[member |-> m, roles |-> {r \in RoleRows : <<r, m>> \in R}] : m \in {rm[2] : rm \in R}}

GetMembershipRoles == TransformMemberships(FindByAssociation)

-----------------------------------------------------------------------------
Request(h) ==
  \/ \E n \in Names, codes \in SUBSET Permissions : BeginRole(h, n, codes)
  \/ \E r \in RoleRows :
       \/ FindRole(h, r)
       \/ \E M \in SUBSET Members : AddMembership(h, r, M)
       \/ \E m \in Members : RemoveMembership(h, r, m)

Save(h) ==
  \/ CreateRole(h)
  \/ DeleteRole(h)
  \/ AssignMemberships(h)
  \/ RemoveMember(h)

(* No request is under way: the server waits.                              *)
AtRest ==
  /\ late = {} /\ \A h \in Handlers : handler[h] = NoRequest
  /\ UNCHANGED roleVars

RolesNext ==
  \/ \E h \in Handlers : Request(h) \/ Save(h) \/ Fail(h)
  \/ \E r \in RoleRows, add \in SUBSET Members, remove \in SUBSET Members :
       UpdateRole(r, add, remove)
  \/ \E s \in late : SaveLate(s) \/ LoseLate(s)
  \/ \E m \in Members : DeleteMembership(m)
  \/ AtRest

RolesSpec == RolesInit /\ [][RolesNext]_roleVars

-----------------------------------------------------------------------------
(* Properties.                                                             *)

Status == {"ACTIVE", "IN_ACTIVE", "absent"}

RolesTypeOK ==
  /\ role \in [RoleRows -> [name : Names \cup {None}, status : Status]]
  /\ rolePermission \in [RoleRows -> [Permissions -> Status]]
  /\ \A r \in RoleRows :
       /\ role[r].name = None <=> role[r].status = "absent"
       /\ \A m \in Members : membershipRole[r][m] \in Seq({"ACTIVE", "DELETED"})
       /\ Cardinality(RowsOf(r, Members)) <= MaxRows
  /\ membership \in [Members -> {"ACTIVE", "DELETED"}]

(* A name belongs to one role of the association for ever, however roles   *)
(* come and go, unless two creations of that very name overlap.            *)
OneRolePerName ==
  \A r, q \in RoleRows :
    role[r].name = role[q].name /\ role[r].name \notin conflicts \cup {None} => r = q

(* What a member may do is what every screen says: the roles that name the *)
(* member among theirs, with the permissions they are listed with; the     *)
(* roles the member is listed with, with the permissions each is shown     *)
(* with; and what the member is told at the login.  A role that is deleted *)
(* takes its permissions along, so that a row it left behind, or one that  *)
(* a handler adds that had found it active, grants nothing; and no row is  *)
(* lost from the list of assignments.                                      *)
PermissionsFollowRoles ==
  \A m \in Members :
    LET granted == {p \in Permissions : Intercept(m, {p})} IN
    /\ granted = {p \in Permissions :
                    \E entry \in GetRoles : entry.exist[p] /\ m \in GetMember(entry.role)}
    /\ {[name |-> p] : p \in granted} = UNION {GetRole(r) : r \in FindByMembershipInfo(m)}
    /\ granted = FindByPortalUser(m)
    /\ granted = UNION {PermissionsOf(r) : r \in {r \in RoleRows : Holds(m, r)}}
    /\ FindByMembershipInfo(m) # {} =>
         \E entry \in GetMembershipRoles :
           entry.member = m /\ FindByMembershipInfo(m) \subseteq entry.roles
=============================================================================
